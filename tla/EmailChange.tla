----------------------------- MODULE EmailChange -----------------------------
(* The address of one account, the changes of it that are asked for, the links *)
(* that prove an address or reset the password, and the email jobs that send   *)
(* them.  Sources: emailChangeService.js, emailChangeState.js,                 *)
(* accountTokenService.js, emailVerificationService.js,                        *)
(* passwordResetService.js, passwordChangeService.js, emailJobs.js,            *)
(* accountRetirementService.js, execute.js and adminJobsService.js.            *)
(*                                                                             *)
(* Of the job system it keeps what JobLifecycle promises, as Classification    *)
(* does: an entry may run (OPEN), has ended, or was dismissed; a Delivery is   *)
(* the processingToken of one claimed delivery, and a claim can be taken over  *)
(* while its holder is alive.                                                  *)
(*                                                                             *)
(* Transactions that write the lifecycle guard exclude each other.  Those      *)
(* whose reads are all of documents they write, or that only such transactions *)
(* write, take effect at one instant; the one that makes a link reads the      *)
(* change it is for without writing it, so its snapshot and its commit are     *)
(* two steps.                                                                  *)
EXTENDS Naturals, FiniteSets

CONSTANTS
  Address,       \* email addresses
  First,         \* the address the account starts with
  Delivery,      \* processing tokens: bounds the deliveries under way at once
  Requests,      \* the kinds of requests made
  Faults,        \* the kinds of failure that may happen
  MaxChanges,    \* bound: changes asked for
  MaxLinks,      \* bound: links made
  MaxJobs,       \* bound: outbox entries
  MaxRuns,       \* bound: retries by an administrator
  MaxAttempts,   \* policy.attempts of the email queue
  MaxFaults,     \* bound: failures in a behaviour
  None

ASSUME NamesAssumption ==
  /\ First \in Address /\ None \notin Address \cup Delivery
  /\ Requests \subseteq {"change", "confirm", "password", "reset", "verify", "suspend", "retire",
                         "signup", "retry"}
  /\ Faults \subseteq {"crash", "slow", "provider", "error"}
ASSUME BoundsAssumption ==
  /\ {MaxJobs, MaxRuns, MaxFaults} \subseteq Nat
  /\ {MaxChanges, MaxLinks, MaxAttempts} \subseteq Nat \ {0}

VARIABLES
  user,      \* the account
  taken,     \* the addresses of other accounts
  change,    \* its EmailChange documents, in the order they were made
  link,      \* its AccountToken documents, in the order they were made
  job,       \* outbox entries of its emails, in the order they were written
  delivery,  \* worker processes: the deliveries of those entries
  guard,     \* the delivery whose open transaction wrote the AdminControl document
  asking,    \* a request for a change between its checks and its transaction
  mail,      \* what the email provider has accepted
  faults     \* how many failures have happened

vars == <<user, taken, change, link, job, delivery, guard, asking, mail, faults>>
account == <<user, taken>>
workers == <<delivery, guard, faults>>

-----------------------------------------------------------------------------
Change == 1..MaxChanges
LinkId == 1..MaxLinks
Job == 1..MaxJobs
ACTIVE_STATES == {"NOTICE_PENDING", "NOTICE_SENT", "LINK_SENT"}
END_STATES == {"CONFIRMED", "FAILED", "SUPERSEDED", "CANCELLED"}
Purpose == {"password_reset", "email_change", "email_verify"}

\* GONE: retirement removed the document.
User == [email: Address \cup {None}, isActive: BOOLEAN, retired: BOOLEAN, verified: BOOLEAN]
ChangeRecord == [state: ACTIVE_STATES \cup END_STATES \cup {"NONE", "GONE"}, active: BOOLEAN,
                 newEmail: Address \cup {None}]
\* holder: the address of the account when the link was made; to: the address it is sent to.
LinkRecord == [purpose: Purpose, stage: {"none", "unused", "used", "deleted"}, change: 0..MaxChanges,
               holder: Address \cup {None}, to: Address \cup {None}]
JobRecord == [type: {"notice", "link", "reset", "verify"}, state: {"NEW", "OPEN", "DONE", "FAILED", "DISMISSED"},
              change: 0..MaxChanges, email: Address \cup {None}, run: Nat, attempts: Nat,
              token: Delivery \cup {None}, delivered: BOOLEAN]
\* What a delivery remembers: the entry as loaded, the address it read, the link it made, the links
\* its open transaction will replace.
DeliveryRecord ==
  [pc: {"free", "claim", "read", "account", "cancel", "cap", "issue", "insert", "giveup", "send",
        "delivered", "advance", "record", "fail", "unlink"},
   job: 0..MaxJobs, run: Nat, attempts: Nat, delivered: BOOLEAN, to: Address \cup {None},
   link: 0..MaxLinks, replaces: SUBSET LinkId, outcome: {"ok", "retryable", "lasting"}]
\* The idempotency key of a message is its kind, id and run.
Message == [kind: {"notice", "link"}, id: Nat, run: Nat, change: 0..MaxChanges, to: Address]

Free == [pc |-> "free", job |-> 0, run |-> 0, attempts |-> 0, delivered |-> FALSE, to |-> None,
         link |-> 0, replaces |-> {}, outcome |-> "ok"]

TypeOK ==
  /\ user \in User /\ taken \subseteq Address
  /\ change \in [Change -> ChangeRecord]
  /\ \A c \in Change : change[c].active <=> change[c].state \in ACTIVE_STATES
  /\ link \in [LinkId -> LinkRecord]
  /\ job \in [Job -> JobRecord]
  /\ delivery \in [Delivery -> DeliveryRecord]
  /\ guard \in Delivery \cup {None}
  /\ asking \in Address \cup {None}
  /\ mail \subseteq Message
  /\ faults \in Nat

Init ==
  /\ user = [email |-> First, isActive |-> TRUE, retired |-> FALSE, verified |-> FALSE]
  /\ taken = {}
  /\ change = [c \in Change |-> [state |-> "NONE", active |-> FALSE, newEmail |-> None]]
  /\ link = [l \in LinkId |-> [purpose |-> "email_verify", stage |-> "none", change |-> 0,
                               holder |-> None, to |-> None]]
  /\ job = [j \in Job |-> [type |-> "verify", state |-> "NEW", change |-> 0, email |-> None,
                           run |-> 0, attempts |-> 0, token |-> None, delivered |-> FALSE]]
  /\ delivery = [d \in Delivery |-> Free]
  /\ guard = None /\ asking = None
  /\ mail = {} /\ faults = 0

Fault(kind) == kind \in Faults /\ faults < MaxFaults /\ faults' = faults + 1

Active(u) == u.isActive /\ ~u.retired

-----------------------------------------------------------------------------
(* Helpers of the services.                                                    *)

\* enqueue: the next entry of the outbox.
Enqueued(type, c, a) ==
  [j \in Job |-> IF job[j].state = "NEW" /\ \A k \in 1..(j - 1) : job[k].state # "NEW"
                 THEN [job[j] EXCEPT !.type = type, !.state = "OPEN", !.change = c, !.email = a]
                 ELSE job[j]]
RoomForJob == \E j \in Job : job[j].state = "NEW"

\* The change under way ends, and any that failed: a retry must not bring it back.
EndOpenChanges(changes, state) ==
  [c \in Change |-> IF changes[c].active \/ changes[c].state = "FAILED"
                    THEN [changes[c] EXCEPT !.state = state, !.active = FALSE] ELSE changes[c]]

\* endChange: one change, if it is under way.
EndChange(c, state) ==
  [change EXCEPT ![c] = IF @.active THEN [@ EXCEPT !.state = state, !.active = FALSE] ELSE @]

Unused(purposes) == {l \in LinkId : link[l].stage = "unused" /\ link[l].purpose \in purposes}
Deleted(ls) == [l \in LinkId |-> IF l \in ls THEN [link[l] EXCEPT !.stage = "deleted"] ELSE link[l]]

\* Every unused link of these purposes goes.
CancelTokens(purposes) == Deleted(Unused(purposes))

\* consumeToken, and then cancelTokens of every purpose: the link is used, the others go.
Consumed(l) == [CancelTokens(Purpose) EXCEPT ![l].stage = "used"]

\* A person can use a link only from the message that carried it.
Received(l) == \E m \in mail : m.kind = "link" /\ m.id = l

-----------------------------------------------------------------------------
(* Requests.                                                                   *)

\* requestEmailChange up to its transaction: the checks on the account and on the new address.
AskForChange(a) ==
  /\ "change" \in Requests
  /\ asking = None /\ ~user.retired
  /\ a # user.email /\ a \notin taken
  /\ asking' = a
  /\ UNCHANGED <<account, change, link, job, workers, mail>>

NextChange == CHOOSE c \in Change : change[c].state = "NONE" /\ \A d \in 1..(c - 1) : change[d].state # "NONE"

\* Its transaction, under the guard; it looks at the account no more.
RequestEmailChange ==
  /\ asking # None /\ guard = None
  /\ change[MaxChanges].state = "NONE" /\ RoomForJob
  /\ change' = [EndOpenChanges(change, "SUPERSEDED") EXCEPT
       ![NextChange] = [state |-> "NOTICE_PENDING", active |-> TRUE, newEmail |-> asking]]
  /\ link' = CancelTokens({"email_change"})
  /\ job' = Enqueued("notice", NextChange, None)
  /\ asking' = None
  /\ UNCHANGED <<account, workers, mail>>

\* The request is refused after all: throttled, or its process stopped.
RefuseChange ==
  /\ asking # None /\ asking' = None
  /\ UNCHANGED <<account, change, link, job, workers, mail>>

\* The link in the message is used: its change must be under way and past the notice.
ConfirmEmailChange(l) ==
  LET c == link[l].change IN
  /\ "confirm" \in Requests
  /\ guard = None
  /\ l \in Unused({"email_change"}) /\ Received(l)
  /\ change[c].active /\ change[c].state \in {"NOTICE_SENT", "LINK_SENT"}
  /\ Active(user) /\ change[c].newEmail \notin taken
  /\ user' = [user EXCEPT !.email = change[c].newEmail, !.verified = TRUE]
  /\ link' = Consumed(l)
  /\ change' = [EndOpenChanges(change, "SUPERSEDED") EXCEPT
                  ![c] = [@ EXCEPT !.state = "CONFIRMED", !.active = FALSE]]
  /\ UNCHANGED <<taken, job, workers, asking, mail>>

\* changePassword: every pending link and change goes.  The account was checked before the transaction,
\* which looks at it no more.  (The notice it queues concerns no link and is left out.)
ChangePassword ==
  /\ "password" \in Requests
  /\ guard = None
  /\ link' = CancelTokens(Purpose)
  /\ change' = EndOpenChanges(change, "CANCELLED")
  /\ UNCHANGED <<account, job, workers, asking, mail>>

\* forgotPassword: one entry for every address, whether or not an account uses it.
ForgotPassword(a) ==
  /\ "reset" \in Requests /\ RoomForJob
  /\ job' = Enqueued("reset", 0, a)
  /\ UNCHANGED <<account, change, link, workers, asking, mail>>

\* resetPassword
ResetPassword(l) ==
  /\ "reset" \in Requests
  /\ guard = None
  /\ l \in Unused({"password_reset"}) /\ Received(l) /\ Active(user)
  /\ link' = Consumed(l)
  /\ change' = EndOpenChanges(change, "CANCELLED")
  /\ UNCHANGED <<account, job, workers, asking, mail>>

\* signup and resendVerification queue the same email.
QueueVerification ==
  /\ "verify" \in Requests /\ RoomForJob
  /\ ~user.verified
  /\ job' = Enqueued("verify", 0, None)
  /\ UNCHANGED <<account, change, link, workers, asking, mail>>

\* verifyEmail: the link verifies only while the account uses the address it was sent to.
VerifyEmail(l) ==
  /\ "verify" \in Requests
  /\ l \in Unused({"email_verify"}) /\ Received(l)
  /\ ~user.retired /\ user.email = link[l].to
  /\ user' = [user EXCEPT !.verified = TRUE]
  /\ link' = [link EXCEPT ![l].stage = "used"]
  /\ UNCHANGED <<taken, change, job, workers, asking, mail>>

\* An administrator suspends the account.
Suspend ==
  /\ "suspend" \in Requests
  /\ guard = None /\ Active(user)
  /\ user' = [user EXCEPT !.isActive = FALSE]
  /\ link' = CancelTokens(Purpose)
  /\ change' = EndOpenChanges(change, "CANCELLED")
  /\ UNCHANGED <<taken, job, workers, asking, mail>>

Reactivate ==
  /\ guard = None /\ ~user.isActive /\ ~user.retired
  /\ user' = [user EXCEPT !.isActive = TRUE]
  /\ UNCHANGED <<taken, change, link, job, workers, asking, mail>>

\* retireAccount removes every link and change, used ones and ended ones too.
Retire ==
  /\ "retire" \in Requests
  /\ guard = None /\ ~user.retired
  /\ user' = [user EXCEPT !.email = None, !.isActive = FALSE, !.retired = TRUE]
  /\ link' = Deleted({l \in LinkId : link[l].stage # "none"})
  /\ change' = [c \in Change |-> IF change[c].state = "NONE" THEN change[c]
                  ELSE [state |-> "GONE", active |-> FALSE, newEmail |-> None]]
  /\ UNCHANGED <<taken, job, workers, asking, mail>>

\* Somebody else signs up, or moves, to an address nobody has.
SignUp(a) ==
  /\ "signup" \in Requests
  /\ a \notin taken \cup {user.email}
  /\ taken' = taken \cup {a}
  /\ UNCHANGED <<user, change, link, job, workers, asking, mail>>

-----------------------------------------------------------------------------
(* Administrators and failed jobs.                                             *)

\* No change was asked for after c.
NoNewer(c) == \A d \in Change : d > c => change[d].state \in {"NONE", "GONE"}

\* reopenChange: a failed change goes back to where its job left off.
ReopenChange(c, state) ==
  /\ NoNewer(c)
  /\ change[c].state = "FAILED" \/ (change[c].state = state /\ change[c].active)
  /\ \A d \in Change \ {c} : ~change[d].active
  /\ change' = [change EXCEPT ![c].state = state, ![c].active = TRUE]

\* retryJob with the onRetry of its type: a reset has forgotten its address and cannot be retried.
RetryJob(j) ==
  /\ "retry" \in Requests
  /\ job[j].state = "FAILED" /\ job[j].run < MaxRuns
  /\ CASE job[j].type = "notice" -> ReopenChange(job[j].change, "NOTICE_PENDING")
       [] job[j].type = "link"   -> ReopenChange(job[j].change, "NOTICE_SENT")
       [] job[j].type = "verify" -> UNCHANGED change
       [] OTHER -> FALSE
  /\ job' = [job EXCEPT ![j] = [@ EXCEPT
       !.state = "OPEN", !.attempts = 0, !.run = job[j].run + 1,
       !.delivered = job[j].delivered /\ job[j].type # "link"]]
  /\ UNCHANGED <<account, link, workers, asking, mail>>

DismissJob(j) ==
  /\ "retry" \in Requests
  /\ job[j].state = "FAILED"
  /\ job' = [job EXCEPT ![j].state = "DISMISSED"]
  /\ UNCHANGED <<account, change, link, workers, asking, mail>>

-----------------------------------------------------------------------------
(* One delivery: executeEntry and the handler of the entry.                    *)

Entry(d) == job[delivery[d].job]
ChangeOf(d) == Entry(d).change
Goto(d, pc) == delivery' = [delivery EXCEPT ![d].pc = pc]
Ends(d, outcome) == delivery' = [delivery EXCEPT ![d].pc = "record", ![d].outcome = outcome]
Frees(d) == delivery' = [delivery EXCEPT ![d] = Free]
At(d, pc, types) == delivery[d].pc = pc /\ Entry(d).type \in types

Fresh == {d \in Delivery : delivery[d] = Free /\ \A j \in Job : job[j].token # d}

\* executeEntry loads the entry; the handler goes on with deliveredAt as loaded.
Load(j) ==
  LET d == CHOOSE f \in Fresh : TRUE IN
  /\ Fresh # {} /\ job[j].state = "OPEN"
  /\ delivery' = [delivery EXCEPT ![d] =
       [Free EXCEPT !.pc = "claim", !.job = j, !.run = job[j].run, !.attempts = job[j].attempts,
                    !.delivered = job[j].delivered]]
  /\ UNCHANGED <<account, change, link, job, guard, asking, mail, faults>>

SameAttempt(d) == Entry(d).run = delivery[d].run /\ Entry(d).attempts = delivery[d].attempts

\* The claim: of an entry nobody holds, whose holder died, or (slow) whose holder held it too long.
Claim(d) ==
  LET holder == Entry(d).token IN
  /\ delivery[d].pc = "claim"
  /\ Entry(d).state = "OPEN" /\ SameAttempt(d)
  /\ IF holder = None \/ delivery[holder].pc = "free" THEN UNCHANGED faults ELSE Fault("slow")
  /\ job' = [job EXCEPT ![delivery[d].job].token = d]
  /\ Goto(d, "read")
  /\ UNCHANGED <<account, change, link, guard, asking, mail>>

\* The claim finds that the attempt was recorded, or that its holder is alive.  (It may also find that
\* the claim of a dead holder is too young; that it comes again later is Load.)
Skip(d) ==
  LET holder == Entry(d).token IN
  /\ delivery[d].pc = "claim"
  /\ Entry(d).state = "OPEN" /\ SameAttempt(d) => holder # None /\ delivery[holder].pc # "free"
  /\ Frees(d)
  /\ UNCHANGED <<account, change, link, job, guard, asking, mail, faults>>

Expected(type) == IF type = "notice" THEN "NOTICE_PENDING" ELSE "NOTICE_SENT"

\* changeAndUser, the change: a job whose change has moved on has nothing to do.
ReadChange(d) ==
  /\ At(d, "read", {"notice", "link"})
  /\ LET c == change[ChangeOf(d)] IN
     IF c.state = Expected(Entry(d).type) /\ c.active THEN Goto(d, "account") ELSE Ends(d, "ok")
  /\ UNCHANGED <<account, change, link, job, guard, asking, mail, faults>>

\* changeAndUser, the account.
ReadAccount(d) ==
  /\ delivery[d].pc = "account"
  /\ IF Active(user)
     THEN delivery' = [delivery EXCEPT ![d].to = user.email,
            ![d].pc = CASE delivery[d].delivered -> "advance"
                        [] Entry(d).type = "notice" -> "send"
                        [] OTHER -> "cap"]
     ELSE Goto(d, "cancel")
  /\ UNCHANGED <<account, change, link, job, guard, asking, mail, faults>>

CancelChange(d) ==
  /\ delivery[d].pc = "cancel"
  /\ change' = EndChange(ChangeOf(d), "CANCELLED")
  /\ Ends(d, "ok")
  /\ UNCHANGED <<account, link, job, guard, asking, mail, faults>>

\* The account a reset or a verification is for.
ReadHolder(d) ==
  /\ At(d, "read", {"reset", "verify"})
  /\ IF /\ ~delivery[d].delivered /\ Active(user)
        /\ IF Entry(d).type = "reset" THEN user.email = Entry(d).email ELSE ~user.verified
     THEN delivery' = [delivery EXCEPT ![d].to = user.email, ![d].pc = "cap"]
     ELSE Ends(d, "ok")
  /\ UNCHANGED <<account, change, link, job, guard, asking, mail, faults>>

\* withinRecipientCap: counted on the first attempt only; a change over the cap fails visibly.
RecipientCap(d) ==
  /\ delivery[d].pc = "cap"
  /\ \/ Goto(d, "issue")
     \/ /\ delivery[d].attempts = 0
        /\ Ends(d, IF Entry(d).type = "link" THEN "lasting" ELSE "ok")
  /\ UNCHANGED <<account, change, link, job, guard, asking, mail, faults>>

PurposeOf(type) ==
  CASE type = "link" -> "email_change" [] type = "reset" -> "password_reset" [] OTHER -> "email_verify"

\* The transaction that makes a link writes the guard document first.
TouchGuard(d) == guard = None /\ guard' = d

\* Mutant of StillWaiting: the link is made whatever became of its change.
StillWaitingAlways(d) == TRUE

StillWaiting(d) ==
  Entry(d).type = "link" => change[ChangeOf(d)].state = "NOTICE_SENT" /\ change[ChangeOf(d)].active

\* issueLinkFor, its snapshot: the account still uses the address and the change still waits.
BeginIssue(d) ==
  /\ delivery[d].pc = "issue" /\ guard = None
  /\ IF Active(user) /\ user.email = delivery[d].to /\ StillWaiting(d)
     THEN /\ TouchGuard(d)
          /\ delivery' = [delivery EXCEPT ![d].pc = "insert",
                                          ![d].replaces = Unused({PurposeOf(Entry(d).type)})]
     ELSE /\ UNCHANGED guard
          /\ IF Entry(d).type = "link" THEN Goto(d, "giveup") ELSE Ends(d, "ok")
  /\ UNCHANGED <<account, change, link, job, asking, mail, faults>>

NextLink == CHOOSE l \in LinkId : link[l].stage = "none" /\ \A k \in 1..(l - 1) : link[k].stage # "none"

\* issueLinkFor, its commit: the new link replaces the unused ones of its purpose.  If one of those
\* was written since the snapshot, the transaction starts again.
CommitIssue(d) ==
  LET replaced == delivery[d].replaces
      purpose == PurposeOf(Entry(d).type) IN
  /\ delivery[d].pc = "insert"
  /\ guard' = IF guard = d THEN None ELSE guard
  /\ IF replaced \subseteq Unused({purpose})
     THEN /\ link[MaxLinks].stage = "none"
          /\ link' = [Deleted(replaced) EXCEPT ![NextLink] =
               [purpose |-> purpose, stage |-> "unused", change |-> ChangeOf(d), holder |-> delivery[d].to,
                to |-> IF purpose = "email_change" THEN change[ChangeOf(d)].newEmail ELSE delivery[d].to]]
          /\ delivery' = [delivery EXCEPT ![d].pc = "send", ![d].link = NextLink, ![d].replaces = {}]
     ELSE /\ UNCHANGED link
          /\ delivery' = [delivery EXCEPT ![d].pc = "issue", ![d].replaces = {}]
  /\ UNCHANGED <<account, change, job, asking, mail, faults>>

\* No link was made: a change still waiting for one is cancelled.
GiveUp(d) ==
  /\ delivery[d].pc = "giveup"
  /\ change' = IF StillWaiting(d) THEN EndChange(ChangeOf(d), "CANCELLED") ELSE change
  /\ Ends(d, "ok")
  /\ UNCHANGED <<account, link, job, guard, asking, mail, faults>>

\* The message; a notice keeps its key through a run, a link has one of its own.
MessageOf(d) ==
  IF Entry(d).type = "notice"
  THEN [kind |-> "notice", id |-> delivery[d].job, run |-> delivery[d].run, change |-> ChangeOf(d),
        to |-> delivery[d].to]
  ELSE [kind |-> "link", id |-> delivery[d].link, run |-> 0, change |-> ChangeOf(d),
        to |-> link[delivery[d].link].to]

\* The provider drops a message whose key it has seen, and refuses another one under that key.
SameKey(m) == {n \in mail : n.kind = m.kind /\ n.id = m.id /\ n.run = m.run}
Acceptable(m) == SameKey(m) \subseteq {m}

\* Mutant of Send: nobody waits for the notice to be sent.
SendUnawaited(d) ==
  /\ delivery[d].pc = "send"
  /\ Entry(d).type = "link" => Acceptable(MessageOf(d))
  /\ mail' \in {mail \cup {MessageOf(d)}} \cup (IF Entry(d).type = "notice" THEN {mail} ELSE {})
  /\ Goto(d, "delivered")
  /\ UNCHANGED <<account, change, link, job, guard, asking, faults>>

Send(d) ==
  /\ delivery[d].pc = "send"
  /\ Acceptable(MessageOf(d))
  /\ mail' = mail \cup {MessageOf(d)}
  /\ Goto(d, "delivered")
  /\ UNCHANGED <<account, change, link, job, guard, asking, faults>>

\* The account's address changed since the key was first used: REJECTED.
SendRejected(d) ==
  /\ delivery[d].pc = "send"
  /\ ~Acceptable(MessageOf(d))
  /\ Ends(d, "lasting")
  /\ UNCHANGED <<account, change, link, job, guard, asking, mail, faults>>

\* The provider refuses the message, for a time or for good, or accepts it and the answer is lost.
SendFails(d, outcome, arrived) ==
  /\ delivery[d].pc = "send"
  /\ Fault("provider")
  /\ IF arrived THEN /\ outcome = "retryable" /\ Acceptable(MessageOf(d))
                     /\ mail' = mail \cup {MessageOf(d)}
     ELSE UNCHANGED mail
  /\ Ends(d, outcome)
  /\ UNCHANGED <<account, change, link, job, guard, asking>>

MarkDelivered(d) ==
  /\ delivery[d].pc = "delivered"
  /\ job' = [job EXCEPT ![delivery[d].job].delivered = TRUE]
  /\ IF Entry(d).type \in {"notice", "link"} THEN Goto(d, "advance") ELSE Ends(d, "ok")
  /\ UNCHANGED <<account, change, link, guard, asking, mail, faults>>

\* Mutant of Advance: the filter does not name the state.
AdvanceActive(d) ==
  /\ delivery[d].pc = "advance" /\ change[ChangeOf(d)].active
  /\ Entry(d).type = "notice" => RoomForJob
  /\ change' = [change EXCEPT ![ChangeOf(d)].state =
                  IF Entry(d).type = "notice" THEN "NOTICE_SENT" ELSE "LINK_SENT"]
  /\ job' = IF Entry(d).type = "notice" THEN Enqueued("link", ChangeOf(d), None) ELSE job
  /\ Ends(d, "ok")
  /\ UNCHANGED <<account, link, guard, asking, mail, faults>>

\* The change moves on, a notice together with the job of its link.
Advance(d) ==
  LET c == change[ChangeOf(d)]
      moves == c.active /\ c.state = Expected(Entry(d).type) IN
  /\ delivery[d].pc = "advance"
  /\ moves /\ Entry(d).type = "notice" => RoomForJob
  /\ change' = IF moves THEN [change EXCEPT ![ChangeOf(d)].state =
                                IF Entry(d).type = "notice" THEN "NOTICE_SENT" ELSE "LINK_SENT"]
               ELSE change
  /\ job' = IF moves /\ Entry(d).type = "notice" THEN Enqueued("link", ChangeOf(d), None) ELSE job
  /\ Ends(d, "ok")
  /\ UNCHANGED <<account, link, guard, asking, mail, faults>>

\* The filter of every terminal write of executeEntry.
Fenced(d) == SameAttempt(d) /\ Entry(d).token = d

\* jobError.final
Final(d) == delivery[d].outcome = "lasting" \/ delivery[d].attempts + 1 >= MaxAttempts

Record(d, state) ==
  /\ delivery[d].pc = "record" /\ Fenced(d)
  /\ job' = [job EXCEPT ![delivery[d].job] =
       [@ EXCEPT !.state = state, !.attempts = delivery[d].attempts + 1, !.token = None,
                 !.email = IF state = "OPEN" THEN Entry(d).email ELSE None]]
  /\ UNCHANGED <<account, change, link, guard, asking, mail, faults>>

RecordDone(d) == delivery[d].outcome = "ok" /\ Record(d, "DONE") /\ Frees(d)
RecordRetry(d) == delivery[d].outcome # "ok" /\ ~Final(d) /\ Record(d, "OPEN") /\ Frees(d)

\* Mutant of RecordFailed: there is no final-failure step.
RecordFailedJobOnly(d) == delivery[d].outcome # "ok" /\ Final(d) /\ Record(d, "FAILED") /\ Frees(d)

\* The entry fails first, and its change after it.
RecordFailed(d) ==
  /\ delivery[d].outcome # "ok" /\ Final(d) /\ Record(d, "FAILED")
  /\ IF Entry(d).type \in {"notice", "link"} THEN Goto(d, "fail") ELSE Frees(d)

RecordStale(d) ==
  /\ delivery[d].pc = "record" /\ ~Fenced(d)
  /\ Frees(d)
  /\ UNCHANGED <<account, change, link, job, guard, asking, mail, faults>>

\* failChange: the change, if retirement has not removed it, and then its unused links.
FailChange(d) ==
  /\ delivery[d].pc = "fail"
  /\ change' = EndChange(ChangeOf(d), "FAILED")
  /\ IF change[ChangeOf(d)].state = "GONE" THEN Frees(d) ELSE Goto(d, "unlink")
  /\ UNCHANGED <<account, link, job, guard, asking, mail, faults>>

FailLinks(d) ==
  /\ delivery[d].pc = "unlink"
  /\ link' = Deleted({l \in Unused({"email_change"}) : link[l].change = ChangeOf(d)})
  /\ Frees(d)
  /\ UNCHANGED <<account, change, job, guard, asking, mail, faults>>

\* MongoDB fails a call of the handler (INTERNAL, which is retryable) or of its final step (which is
\* logged and ends the delivery).
DatabaseFails(d) ==
  /\ delivery[d].pc \notin {"free", "claim", "record"}
  /\ Fault("error")
  /\ IF delivery[d].pc \in {"fail", "unlink"} THEN Frees(d) ELSE Ends(d, "retryable")
  /\ guard' = IF guard = d THEN None ELSE guard
  /\ UNCHANGED <<account, change, link, job, asking, mail>>

\* The process dies; its open transaction is aborted.
Dies(d) ==
  /\ delivery[d].pc # "free"
  /\ Fault("crash")
  /\ Frees(d)
  /\ guard' = IF guard = d THEN None ELSE guard
  /\ UNCHANGED <<account, change, link, job, asking, mail>>

-----------------------------------------------------------------------------
People ==
  \/ \E a \in Address : AskForChange(a) \/ ForgotPassword(a) \/ SignUp(a)
  \/ RefuseChange \/ ChangePassword \/ QueueVerification
  \/ \E l \in LinkId : ConfirmEmailChange(l) \/ ResetPassword(l) \/ VerifyEmail(l)
  \/ Suspend \/ Reactivate \/ Retire
  \/ \E j \in Job : RetryJob(j) \/ DismissJob(j)

\* One step of a delivery under way.
DeliveryNext(d) ==
  \/ Claim(d) \/ Skip(d)
  \/ ReadChange(d) \/ ReadAccount(d) \/ CancelChange(d) \/ ReadHolder(d)
  \/ RecipientCap(d) \/ BeginIssue(d) \/ CommitIssue(d) \/ GiveUp(d)
  \/ Send(d) \/ SendRejected(d) \/ MarkDelivered(d) \/ Advance(d)
  \/ RecordDone(d) \/ RecordRetry(d) \/ RecordFailed(d) \/ RecordStale(d)
  \/ FailChange(d) \/ FailLinks(d)

SendFailsAnyhow(d) ==
  \E outcome \in {"retryable", "lasting"}, arrived \in BOOLEAN : SendFails(d, outcome, arrived)

Next ==
  \/ People
  \/ RequestEmailChange
  \/ \E j \in Job : Load(j)
  \/ \E d \in Delivery : DeliveryNext(d) \/ SendFailsAnyhow(d) \/ DatabaseFails(d) \/ Dies(d)

Spec == Init /\ [][Next]_vars

\* A delivery under way goes on, an entry that may run is delivered again (EveryJobEnds of
\* JobPipeline), and a request goes on to its transaction or is refused.
Fairness ==
  /\ \A d \in Delivery : WF_vars(DeliveryNext(d))
  /\ \A j \in Job : WF_vars(Load(j))
  /\ WF_vars(RequestEmailChange)

FairSpec == Spec /\ Fairness

-----------------------------------------------------------------------------
(* Properties.                                                                 *)

\* The address moves only after a notice of that very change was accepted for the old address
\* (emailChangeService.js:18-22), whichever deliveries of its jobs failed, ran twice or came late.
MovesAfterNotice ==
  user'.email \notin {user.email, None} =>
    \E m \in mail : /\ m.kind = "notice" /\ m.to = user.email
                    /\ change[m.change].newEmail = user'.email
                    /\ change[m.change].active

NoticeFirst == [][MovesAfterNotice]_vars

\* A link that can still be used belongs to the account as it is now: an active account that uses the
\* address the link was made for.  A link made while a password or an email change, a suspension or
\* a retirement commits must not survive it (emailJobs.js:81-83).
LinkFitsAccount ==
  \A l \in LinkId : link[l].stage = "unused" => Active(user) /\ link[l].holder = user.email

\* A link that can still be used is not of a change that was replaced or confirmed.
LinkFitsChange ==
  \A l \in Unused({"email_change"}) :
    change[link[l].change].state \notin {"SUPERSEDED", "CONFIRMED", "GONE"}

\* A failed change is the latest one: every request, confirmation, password change and suspension
\* ends what failed before, so no retry can bring back an address its holder has moved past.
FailedIsLatest ==
  \A c, d \in Change : change[c].state = "FAILED" /\ d > c => change[d].state = "NONE"

\* What links and failed changes there are fit their account and its latest change, on a state of the
\* right types (emailJobs.js:81-93).
LinksFit == TypeOK /\ LinkFitsChange /\ LinkFitsAccount /\ FailedIsLatest

\* The changes of an account, as its holder sees them: one under way at most, told before linked,
\* linked before it moves the address, and of the failed ones only the latest able to come back.
Open == {c \in Change : change[c].active}
Resumable == {c \in Change : change[c].state \in ACTIVE_STATES \cup {"FAILED"}}
Latest == Cardinality({c \in Change : change[c].state # "NONE"})
StageOf(c) == CASE change[c].state = "NOTICE_PENDING" -> "asked"
                [] change[c].state = "NOTICE_SENT" -> "told"
                [] OTHER -> "linked"

Wanted == IF Latest \in Resumable THEN change[Latest].newEmail ELSE None
UnderWay == IF Open = {} THEN [id |-> 0, stage |-> "none", wanted |-> None]
            ELSE LET c == CHOOSE d \in Open : TRUE IN
              [id |-> c, wanted |-> change[c].newEmail,
               stage |-> IF Open = {c} THEN StageOf(c) ELSE "two"]

Promise == INSTANCE AddressChange WITH
  address <- user.email, asked <- Latest, wanted <- Wanted, change <- UnderWay

ImplementsPromise == Promise!Spec

\* Each run of a notice job reaches the old address once, however many attempts sent it: the key is
\* the same, and the send is recorded late (emailJobs.js:16-31).
NoticeOncePerRun ==
  \A j \in Job : Cardinality({m \in mail : m.kind = "notice" /\ m.id = j}) <= job[j].run + 1

\* A change that waits for its notice or its link does not wait for ever: it gets the link, or ends
\* where the person can see it (emailJobs.js:206).  Not so when the final-failure step itself fails
\* (emailJobs.js:143): such a change waits for an administrator.
EveryChangeSettles ==
  \A c \in Change : change[c].active /\ change[c].state # "LINK_SENT"
                      ~> (~change[c].active \/ change[c].state = "LINK_SENT")

\* A failed change keeps no link (emailJobs.js:134).
\* Does not hold: README, section 6.
FailedKeepsNoLink ==
  \A l \in Unused({"email_change"}) :
    change[link[l].change].state = "FAILED" => \E d \in Delivery : delivery[d].pc = "unlink"

\* Once the jobs of a change have ended, a change that says its link was sent has a link that was
\* sent and can be used (emailJobs.js:16: each job is safe to run twice).
\* Does not hold: README, section 6.
SentLinkWorks ==
  \A c \in Change :
    /\ change[c].active /\ change[c].state = "LINK_SENT"
    /\ \A j \in Job : job[j].change = c => job[j].state # "OPEN"
    /\ \A d \in Delivery : delivery[d] = Free
    => \E l \in Unused({"email_change"}) : link[l].change = c /\ Received(l)

\* A retired account has no record of an address (accountRetirementService.js:129).
\* Does not hold: README, section 6.
RetiredKeepsNoAddress ==
  user.retired => \A c \in Change : change[c].newEmail = None
=============================================================================
