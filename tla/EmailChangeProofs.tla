-------------------------- MODULE EmailChangeProofs ---------------------------
(* Proofs about EmailChange, for any addresses, deliveries, kinds of requests  *)
(* and failures, and bounds.                                                   *)
EXTENDS EmailChange, FiniteSetTheorems, TLAPS

-----------------------------------------------------------------------------
(* The inductive invariant.                                                    *)

Busy(d) == delivery[d].pc # "free"

\* A change that is under way or may come back.
Waited == ACTIVE_STATES \cup {"FAILED"}

\* An entry that was written for a change.
ForChange(j) == job[j].state # "NEW" /\ job[j].type \in {"notice", "link"}

\* Only a retired account has no address, and only a change not made, or removed, has none.
AddressesWell ==
  /\ user.email = None <=> user.retired
  /\ \A c \in Change : change[c].newEmail = None <=> change[c].state \in {"NONE", "GONE"}

\* Changes and links are made one after the other.
ChangesInOrder == \E n \in 0..MaxChanges : \A c \in Change : change[c].state # "NONE" <=> c <= n
LinksInOrder == \E n \in 0..MaxLinks : \A l \in LinkId : link[l].stage # "none" <=> l <= n

\* A link was made for an address, and the link of a change for a change.
LinksWell ==
  \A l \in LinkId : link[l].stage # "none" =>
    link[l].to \in Address /\ (link[l].purpose = "email_change" => link[l].change \in Change)

\* The change of an entry was made, and an entry not written was not delivered.
JobsWell == \A j \in Job : ForChange(j) => job[j].change \in Change /\ change[job[j].change].state # "NONE"
NewIsUndelivered == \A j \in Job : job[j].state = "NEW" => ~job[j].delivered

\* Where a delivery is fits its entry and what it remembers.
PlaceFits(d) == Busy(d) =>
  /\ delivery[d].job \in Job /\ Entry(d).state # "NEW"
  /\ delivery[d].pc \in {"account", "cancel", "advance", "fail", "unlink"} => Entry(d).type \in {"notice", "link"}
  /\ delivery[d].pc \in {"cap", "issue", "insert"} => Entry(d).type # "notice"
  /\ delivery[d].pc = "giveup" => Entry(d).type = "link"
  /\ delivery[d].pc \in {"cap", "issue", "insert", "send"} => delivery[d].to \in Address
  /\ delivery[d].pc = "send" /\ Entry(d).type # "notice" =>
       delivery[d].link \in LinkId /\ link[delivery[d].link].stage # "none"

\* The guard belongs to the delivery between its snapshot and its commit.
Guarded == \A d \in Delivery : guard = d <=> delivery[d].pc = "insert"

\* What the snapshot showed is true until the commit: whoever ends it needs the guard.
SnapshotHolds(d) == delivery[d].pc = "insert" =>
  /\ Active(user) /\ user.email = delivery[d].to
  /\ Entry(d).type = "link" => change[ChangeOf(d)].state \notin {"SUPERSEDED", "CONFIRMED", "GONE"}

\* Of the changes only the latest is under way or may come back.
ResumableIsLatest ==
  \A c, e \in Change : change[c].state \in Waited /\ e > c => change[e].state = "NONE"

\* The provider accepted the notice of this change for the address the account still has.
Notified(c) == \E m \in mail : m.kind = "notice" /\ m.change = c /\ m.to = user.email

\* Something says the notice was sent: the change, an entry, or a delivery under way.
Told(c) ==
  \/ change[c].state \in {"NOTICE_SENT", "LINK_SENT"}
  \/ \E j \in Job : ForChange(j) /\ job[j].change = c /\ (job[j].type = "link" \/ job[j].delivered)
  \/ \E d \in Delivery : /\ Busy(d) /\ Entry(d).type = "notice" /\ ChangeOf(d) = c
                         /\ delivery[d].pc \in {"delivered", "advance"} \/ delivery[d].delivered

ToldIsNotified == \A c \in Change : change[c].state \in Waited /\ Told(c) => Notified(c)

\* A notice about to be sent is for the address the account still has, while its change is waited for.
NoticeAddressed(d) ==
  delivery[d].pc = "send" /\ Entry(d).type = "notice" /\ change[ChangeOf(d)].state \in Waited
    => delivery[d].to = user.email

Inv ==
  /\ TypeOK /\ AddressesWell /\ ChangesInOrder /\ LinksInOrder /\ LinksWell /\ JobsWell /\ NewIsUndelivered /\ Guarded
  /\ \A d \in Delivery : PlaceFits(d) /\ SnapshotHolds(d) /\ NoticeAddressed(d)
  /\ ResumableIsLatest /\ LinkFitsAccount /\ LinkFitsChange /\ ToldIsNotified

-----------------------------------------------------------------------------
(* Which steps change what.                                                    *)

\* A step of a delivery.
Works(d) == DeliveryNext(d) \/ SendFailsAnyhow(d) \/ DatabaseFails(d) \/ Dies(d)

LEMMA UserSteps ==
  Next => \/ UNCHANGED user
          \/ \E l \in LinkId : ConfirmEmailChange(l) \/ VerifyEmail(l)
          \/ Suspend \/ Reactivate \/ Retire
<1> USE DEF account
<1>1. ASSUME NEW d \in Delivery, Works(d) PROVE UNCHANGED user
  BY <1>1 DEF Works, DeliveryNext, Claim, Skip, ReadChange, ReadAccount, CancelChange, ReadHolder, RecipientCap,
     BeginIssue, CommitIssue, GiveUp, Send, SendRejected, MarkDelivered, Advance, RecordDone, RecordRetry,
     RecordFailed, RecordStale, Record, FailChange, FailLinks, SendFailsAnyhow, SendFails, DatabaseFails, Dies
<1>2. People => \/ UNCHANGED user
                \/ \E l \in LinkId : ConfirmEmailChange(l) \/ VerifyEmail(l)
                \/ Suspend \/ Reactivate \/ Retire
  BY DEF People, AskForChange, ForgotPassword, SignUp, RefuseChange, ChangePassword, QueueVerification,
     ResetPassword, RetryJob, DismissJob
<1> QED BY <1>1, <1>2 DEF Next, Works, RequestEmailChange, Load

LEMMA ChangeSteps ==
  Next => \/ UNCHANGED change
          \/ RequestEmailChange \/ ChangePassword \/ Suspend \/ Retire
          \/ \E l \in LinkId : ConfirmEmailChange(l) \/ ResetPassword(l)
          \/ \E j \in Job : RetryJob(j)
          \/ \E d \in Delivery : CancelChange(d) \/ GiveUp(d) \/ Advance(d) \/ FailChange(d)
<1>1. ASSUME NEW d \in Delivery, Works(d)
      PROVE  UNCHANGED change \/ CancelChange(d) \/ GiveUp(d) \/ Advance(d) \/ FailChange(d)
  BY <1>1 DEF Works, DeliveryNext, Claim, Skip, ReadChange, ReadAccount, ReadHolder, RecipientCap,
     BeginIssue, CommitIssue, Send, SendRejected, MarkDelivered, RecordDone, RecordRetry,
     RecordFailed, RecordStale, Record, FailLinks, SendFailsAnyhow, SendFails, DatabaseFails, Dies
<1>2. People => \/ UNCHANGED change
                \/ ChangePassword \/ Suspend \/ Retire
                \/ \E l \in LinkId : ConfirmEmailChange(l) \/ ResetPassword(l)
                \/ \E j \in Job : RetryJob(j)
  BY DEF People, AskForChange, ForgotPassword, SignUp, RefuseChange, QueueVerification, VerifyEmail, Reactivate,
     DismissJob
<1> QED BY <1>1, <1>2 DEF Next, Works, Load

LEMMA LinkSteps ==
  Next => \/ UNCHANGED link
          \/ RequestEmailChange \/ ChangePassword \/ Suspend \/ Retire
          \/ \E l \in LinkId : ConfirmEmailChange(l) \/ ResetPassword(l) \/ VerifyEmail(l)
          \/ \E d \in Delivery : CommitIssue(d) \/ FailLinks(d)
<1>1. ASSUME NEW d \in Delivery, Works(d)
      PROVE  UNCHANGED link \/ CommitIssue(d) \/ FailLinks(d)
  BY <1>1 DEF Works, DeliveryNext, Claim, Skip, ReadChange, ReadAccount, CancelChange, ReadHolder, RecipientCap,
     BeginIssue, GiveUp, Send, SendRejected, MarkDelivered, Advance, RecordDone, RecordRetry,
     RecordFailed, RecordStale, Record, FailChange, SendFailsAnyhow, SendFails, DatabaseFails, Dies
<1>2. People => \/ UNCHANGED link
                \/ ChangePassword \/ Suspend \/ Retire
                \/ \E l \in LinkId : ConfirmEmailChange(l) \/ ResetPassword(l) \/ VerifyEmail(l)
  BY DEF People, AskForChange, ForgotPassword, SignUp, RefuseChange, QueueVerification, Reactivate, RetryJob,
     DismissJob
<1> QED BY <1>1, <1>2 DEF Next, Works, Load

LEMMA JobSteps ==
  Next => \/ UNCHANGED job
          \/ RequestEmailChange \/ QueueVerification
          \/ \E a \in Address : ForgotPassword(a)
          \/ \E j \in Job : RetryJob(j) \/ DismissJob(j)
          \/ \E d \in Delivery : \/ Claim(d) \/ MarkDelivered(d) \/ Advance(d)
                                 \/ RecordDone(d) \/ RecordRetry(d) \/ RecordFailed(d)
<1>1. ASSUME NEW d \in Delivery, Works(d)
      PROVE  \/ UNCHANGED job \/ Claim(d) \/ MarkDelivered(d) \/ Advance(d)
             \/ RecordDone(d) \/ RecordRetry(d) \/ RecordFailed(d)
  BY <1>1 DEF Works, DeliveryNext, Skip, ReadChange, ReadAccount, CancelChange, ReadHolder, RecipientCap,
     BeginIssue, CommitIssue, GiveUp, Send, SendRejected, RecordStale, FailChange, FailLinks, SendFailsAnyhow,
     SendFails, DatabaseFails, Dies
<1>2. People => \/ UNCHANGED job
                \/ QueueVerification
                \/ \E a \in Address : ForgotPassword(a)
                \/ \E j \in Job : RetryJob(j) \/ DismissJob(j)
  BY DEF People, AskForChange, SignUp, RefuseChange, ChangePassword, ConfirmEmailChange, ResetPassword, VerifyEmail,
     Suspend, Reactivate, Retire
<1> QED BY <1>1, <1>2 DEF Next, Works, Load

\* People leave the deliveries, the guard and the mail alone.
LEMMA PeopleSteps == People \/ RequestEmailChange => UNCHANGED <<delivery, guard, mail, faults>>
BY DEF People, RequestEmailChange, AskForChange, ForgotPassword, SignUp, RefuseChange, ChangePassword,
   QueueVerification, ConfirmEmailChange, ResetPassword, VerifyEmail, Suspend, Reactivate, Retire, RetryJob,
   DismissJob, workers

-----------------------------------------------------------------------------
(* Documents: what a step may make of the changes, the links and the entries.  *)

\* The next change and the next link are those after the ones made.
LEMMA NextChangeIs ==
  ASSUME Inv, change[MaxChanges].state = "NONE"
  PROVE  /\ NextChange \in Change /\ change[NextChange].state = "NONE"
         /\ \A c \in Change : change[c].state # "NONE" <=> c < NextChange
<1>1. PICK n \in 0..MaxChanges : \A c \in Change : change[c].state # "NONE" <=> c <= n
  BY DEF Inv, ChangesInOrder
<1>2. MaxChanges \in Change /\ n < MaxChanges
  BY <1>1, BoundsAssumption DEF Change
<1>3. n + 1 \in Change /\ change[n + 1].state = "NONE" /\ \A d \in 1..(n + 1 - 1) : change[d].state # "NONE"
  BY <1>1, <1>2, BoundsAssumption DEF Change
<1>4. NextChange \in Change /\ change[NextChange].state = "NONE"
      /\ \A d \in 1..(NextChange - 1) : change[d].state # "NONE"
  BY <1>3 DEF NextChange
<1>5. NextChange = n + 1
  BY <1>1, <1>3, <1>4, BoundsAssumption DEF Change
<1> QED BY <1>1, <1>3, <1>5, BoundsAssumption DEF Change

LEMMA NextLinkIs ==
  ASSUME Inv, link[MaxLinks].stage = "none"
  PROVE  /\ NextLink \in LinkId /\ link[NextLink].stage = "none"
         /\ \A l \in LinkId : link[l].stage # "none" <=> l < NextLink
<1>1. PICK n \in 0..MaxLinks : \A l \in LinkId : link[l].stage # "none" <=> l <= n
  BY DEF Inv, LinksInOrder
<1>2. MaxLinks \in LinkId /\ n < MaxLinks
  BY <1>1, BoundsAssumption DEF LinkId
<1>3. n + 1 \in LinkId /\ link[n + 1].stage = "none" /\ \A k \in 1..(n + 1 - 1) : link[k].stage # "none"
  BY <1>1, <1>2, BoundsAssumption DEF LinkId
<1>4. NextLink \in LinkId /\ link[NextLink].stage = "none"
      /\ \A k \in 1..(NextLink - 1) : link[k].stage # "none"
  BY <1>3 DEF NextLink
<1>5. NextLink = n + 1
  BY <1>1, <1>3, <1>4, BoundsAssumption DEF LinkId
<1> QED BY <1>1, <1>3, <1>5, BoundsAssumption DEF LinkId

\* What a step may make of one change: it is made, it moves on, it comes back, it ends, or it goes.
Made(c) ==
  /\ change[c].state = "NONE"
  /\ RequestEmailChange /\ c = NextChange
  /\ change'[c] = [state |-> "NOTICE_PENDING", active |-> TRUE, newEmail |-> asking]
Advanced(c) == \E d \in Delivery :
  /\ Advance(d) /\ ChangeOf(d) = c /\ change[c].active /\ change[c].state = Expected(Entry(d).type)
  /\ change'[c] = [change[c] EXCEPT !.state = IF Entry(d).type = "notice" THEN "NOTICE_SENT" ELSE "LINK_SENT"]
Reopened(c) == \E j \in Job : 
  /\ RetryJob(j) /\ ForChange(j) /\ job[j].change = c
  /\ change[c].state = "FAILED" \/ (change[c].state = Expected(job[j].type) /\ change[c].active)
  /\ change'[c] = [change[c] EXCEPT !.state = Expected(job[j].type), !.active = TRUE]
Failed(c) ==
  /\ change[c].active
  /\ change'[c] = [change[c] EXCEPT !.state = "FAILED", !.active = FALSE]
Cancelled(c) ==
  /\ change[c].state \in Waited
  /\ change'[c] = [change[c] EXCEPT !.state = "CANCELLED", !.active = FALSE]
Superseded(c) ==
  /\ change[c].state \in Waited
  /\ RequestEmailChange \/ \E l \in LinkId : ConfirmEmailChange(l)
  /\ change'[c] = [change[c] EXCEPT !.state = "SUPERSEDED", !.active = FALSE]
Confirmed(c) ==
  /\ change[c].active
  /\ \E l \in LinkId : ConfirmEmailChange(l) /\ link[l].change = c
  /\ change'[c] = [change[c] EXCEPT !.state = "CONFIRMED", !.active = FALSE]
Removed(c) ==
  /\ change[c].state # "NONE" /\ Retire
  /\ change'[c] = [state |-> "GONE", active |-> FALSE, newEmail |-> None]
Becomes(c) ==
  \/ change'[c] = change[c]
  \/ Made(c) \/ Advanced(c) \/ Reopened(c) \/ Failed(c) \/ Cancelled(c) \/ Superseded(c) \/ Confirmed(c) \/ Removed(c)

LEMMA ActiveIs == ASSUME TypeOK, NEW c \in Change
                  PROVE  /\ change[c] \in ChangeRecord
                         /\ change[c].active <=> change[c].state \in ACTIVE_STATES
                         /\ (change[c].active \/ change[c].state = "FAILED") <=> change[c].state \in Waited
BY DEF TypeOK, Waited

LEMMA ChangeBecomes ==
  ASSUME Inv, [Next]_vars PROVE change' \in [Change -> ChangeRecord] /\ \A c \in Change : Becomes(c)
<1> DEFINE Goal == change' \in [Change -> ChangeRecord] /\ \A c \in Change : Becomes(c)
<1> USE DEF Becomes
<1>1. TypeOK /\ change \in [Change -> ChangeRecord] /\ \A c \in Change : change[c] \in ChangeRecord
  BY DEF Inv, TypeOK
<1>2. CASE UNCHANGED change
  BY <1>1, <1>2
<1>3. ASSUME NEW state \in END_STATES
      PROVE  /\ EndOpenChanges(change, state) \in [Change -> ChangeRecord]
             /\ \A c \in Change : EndOpenChanges(change, state)[c] =
                  IF change[c].state \in Waited THEN [change[c] EXCEPT !.state = state, !.active = FALSE]
                  ELSE change[c]
  <2>1. \A c \in Change : [change[c] EXCEPT !.state = state, !.active = FALSE] \in ChangeRecord
    BY <1>1 DEF ChangeRecord
  <2> QED BY <1>1, <2>1, ActiveIs DEF EndOpenChanges
<1>4. CASE RequestEmailChange
  <2>1. NextChange \in Change /\ change[NextChange].state = "NONE" /\ asking \in Address
    BY <1>4, NextChangeIs DEF RequestEmailChange, Inv, TypeOK
  <2>2. [state |-> "NOTICE_PENDING", active |-> TRUE, newEmail |-> asking] \in ChangeRecord
    BY <2>1 DEF ChangeRecord, ACTIVE_STATES
  <2>3. change' = [EndOpenChanges(change, "SUPERSEDED") EXCEPT
          ![NextChange] = [state |-> "NOTICE_PENDING", active |-> TRUE, newEmail |-> asking]]
    BY <1>4 DEF RequestEmailChange
  <2>4. "SUPERSEDED" \in END_STATES
    BY DEF END_STATES
  <2> QED BY <1>3, <1>4, <2>1, <2>2, <2>3, <2>4 DEF Made, Superseded
<1>5. CASE ChangePassword \/ Suspend \/ \E l \in LinkId : ResetPassword(l)
  <2>1. change' = EndOpenChanges(change, "CANCELLED")
    BY <1>5 DEF ChangePassword, Suspend, ResetPassword
  <2> QED BY <1>3, <2>1 DEF Cancelled, END_STATES
<1>6. CASE Retire
  <2>1. [state |-> "GONE", active |-> FALSE, newEmail |-> None] \in ChangeRecord
    BY DEF ChangeRecord
  <2> QED BY <1>1, <1>6, <2>1 DEF Retire, Removed
<1>7. ASSUME NEW l \in LinkId, ConfirmEmailChange(l) PROVE Goal
  <2>1. link[l].change \in Change /\ change[link[l].change].active
    BY <1>7 DEF ConfirmEmailChange, Unused, Inv, LinksWell
  <2>2. change' = [EndOpenChanges(change, "SUPERSEDED") EXCEPT
                     ![link[l].change] = [@ EXCEPT !.state = "CONFIRMED", !.active = FALSE]]
    BY <1>7 DEF ConfirmEmailChange
  <2>3. [EndOpenChanges(change, "SUPERSEDED")[link[l].change] EXCEPT !.state = "CONFIRMED", !.active = FALSE]
          = [change[link[l].change] EXCEPT !.state = "CONFIRMED", !.active = FALSE]
    <3>1. EndOpenChanges(change, "SUPERSEDED")[link[l].change]
            = [change[link[l].change] EXCEPT !.state = "SUPERSEDED", !.active = FALSE]
      BY <1>1, <1>3, <2>1, ActiveIs DEF END_STATES
    <3>2. change[link[l].change] \in ChangeRecord
      BY <1>1, <2>1
    <3> QED BY <3>1, <3>2 DEF ChangeRecord
  <2>4. [change[link[l].change] EXCEPT !.state = "CONFIRMED", !.active = FALSE] \in ChangeRecord
    BY <1>1, <2>1 DEF ChangeRecord, END_STATES
  <2> QED BY <1>3, <1>7, <2>1, <2>2, <2>3, <2>4 DEF END_STATES, Confirmed, Superseded
<1>8. ASSUME NEW j \in Job, RetryJob(j) PROVE Goal
  <2>1. CASE UNCHANGED change
    BY <1>2, <2>1
  <2>2. ASSUME ForChange(j), ReopenChange(job[j].change, Expected(job[j].type)) PROVE Goal
    <3>1. job[j].change \in Change /\ Expected(job[j].type) \in ACTIVE_STATES
      BY <2>2 DEF Inv, JobsWell, Expected, ACTIVE_STATES
    <3>2. \/ change[job[j].change].state = "FAILED"
          \/ change[job[j].change].state = Expected(job[j].type) /\ change[job[j].change].active
      BY <2>2 DEF ReopenChange
    <3>3. [change[job[j].change] EXCEPT !.state = Expected(job[j].type), !.active = TRUE] \in ChangeRecord
      BY <1>1, <3>1 DEF ChangeRecord
    <3>4. change' = [change EXCEPT ![job[j].change] =
                       [change[job[j].change] EXCEPT !.state = Expected(job[j].type), !.active = TRUE]]
      BY <1>1, <2>2, <3>1 DEF ReopenChange
    <3> QED BY <1>1, <1>8, <2>2, <3>1, <3>2, <3>3, <3>4 DEF Reopened
  <2> QED BY <1>8, <2>1, <2>2 DEF RetryJob, ForChange, Expected
<1>9. ASSUME NEW d \in Delivery, NEW state \in {"CANCELLED", "FAILED"}, change' = EndChange(ChangeOf(d), state),
             ForChange(delivery[d].job), delivery[d].job \in Job
      PROVE  Goal
  <2>1. ChangeOf(d) \in Change
    BY <1>9 DEF Inv, JobsWell, ChangeOf, Entry
  <2>2. [change[ChangeOf(d)] EXCEPT !.state = state, !.active = FALSE] \in ChangeRecord
    BY <1>1, <2>1 DEF ChangeRecord, END_STATES
  <2>3. change[ChangeOf(d)].active => change[ChangeOf(d)].state \in Waited
    BY <1>1, <2>1, ActiveIs
  <2> QED BY <1>1, <1>9, <2>1, <2>2, <2>3 DEF EndChange, Cancelled, Failed
<1>10. ASSUME NEW d \in Delivery, CancelChange(d) \/ FailChange(d) PROVE Goal
  <2>1. PlaceFits(d) /\ delivery[d].pc \in {"cancel", "fail"}
    BY <1>10 DEF Inv, CancelChange, FailChange
  <2>2. ForChange(delivery[d].job) /\ delivery[d].job \in Job
    BY <2>1 DEF PlaceFits, Busy, ForChange, Entry
  <2> QED BY <1>9, <1>10, <2>2 DEF CancelChange, FailChange
<1>11. ASSUME NEW d \in Delivery, GiveUp(d) PROVE Goal
  <2>1. PlaceFits(d) /\ delivery[d].pc = "giveup"
    BY <1>11 DEF Inv, GiveUp
  <2>2. ForChange(delivery[d].job) /\ delivery[d].job \in Job
    BY <2>1 DEF PlaceFits, Busy, ForChange, Entry
  <2> QED BY <1>2, <1>9, <1>11, <2>2 DEF GiveUp
<1>12. ASSUME NEW d \in Delivery, Advance(d) PROVE Goal
  <2>1. PlaceFits(d) /\ delivery[d].pc = "advance"
    BY <1>12 DEF Inv, Advance
  <2>2. ForChange(delivery[d].job) /\ delivery[d].job \in Job
    BY <2>1 DEF PlaceFits, Busy, ForChange, Entry
  <2>3. ChangeOf(d) \in Change
    BY <2>2 DEF Inv, JobsWell, ChangeOf, Entry
  <2> DEFINE state == IF Entry(d).type = "notice" THEN "NOTICE_SENT" ELSE "LINK_SENT"
             moves == change[ChangeOf(d)].active /\ change[ChangeOf(d)].state = Expected(Entry(d).type)
  <2>4. [change[ChangeOf(d)] EXCEPT !.state = state] \in ChangeRecord
    BY <1>1, <2>3 DEF ChangeRecord, ACTIVE_STATES
  <2>5. change' = IF moves THEN [change EXCEPT ![ChangeOf(d)] = [change[ChangeOf(d)] EXCEPT !.state = state]]
                  ELSE change
    BY <1>1, <1>12, <2>3 DEF Advance
  <2> QED BY <1>1, <1>2, <1>12, <2>3, <2>4, <2>5 DEF Advanced
<1>13. CASE UNCHANGED vars
  BY <1>2, <1>13 DEF vars
<1> QED BY <1>2, <1>4, <1>5, <1>6, <1>7, <1>8, <1>10, <1>11, <1>12, <1>13, ChangeSteps

\* What a step may make of one link: it is made, or it is used or deleted.
Issued(l) == \E d \in Delivery :
  /\ CommitIssue(d) /\ link[l].stage = "none" /\ l = NextLink
  /\ delivery'[d] = [delivery[d] EXCEPT !.pc = "send", !.link = l, !.replaces = {}]
  /\ link'[l] = [purpose |-> PurposeOf(Entry(d).type), stage |-> "unused", change |-> ChangeOf(d),
                 holder |-> delivery[d].to,
                 to |-> IF PurposeOf(Entry(d).type) = "email_change" THEN change[ChangeOf(d)].newEmail
                        ELSE delivery[d].to]
Gone(l) ==
  /\ link[l].stage # "none"
  /\ \E stage \in {"used", "deleted"} : link'[l] = [link[l] EXCEPT !.stage = stage]

LEMMA LinkBecomes ==
  ASSUME Inv, [Next]_vars
  PROVE  link' \in [LinkId -> LinkRecord] /\ \A l \in LinkId : link'[l] = link[l] \/ Issued(l) \/ Gone(l)
<1> DEFINE Goal == link' \in [LinkId -> LinkRecord] /\ \A l \in LinkId : link'[l] = link[l] \/ Issued(l) \/ Gone(l)
<1>1. TypeOK /\ link \in [LinkId -> LinkRecord] /\ \A l \in LinkId : link[l] \in LinkRecord
  BY DEF Inv, TypeOK
<1>2. CASE UNCHANGED link
  BY <1>1, <1>2
<1>3. ASSUME NEW l \in LinkId, NEW stage \in {"used", "deleted"}
      PROVE  [link[l] EXCEPT !.stage = stage] \in LinkRecord
  BY <1>1 DEF LinkRecord
<1>4. ASSUME NEW ls \in SUBSET LinkId, \A l \in ls : link[l].stage # "none"
      PROVE  /\ Deleted(ls) \in [LinkId -> LinkRecord]
             /\ \A l \in LinkId :
                  \/ Deleted(ls)[l] = link[l]
                  \/ link[l].stage # "none" /\ Deleted(ls)[l] = [link[l] EXCEPT !.stage = "deleted"]
  BY <1>1, <1>3, <1>4 DEF Deleted
<1>5. ASSUME NEW ls \in SUBSET LinkId, \A l \in ls : link[l].stage # "none", link' = Deleted(ls) PROVE Goal
  BY <1>4, <1>5 DEF Gone
<1>6. ASSUME NEW purposes PROVE Unused(purposes) \in SUBSET LinkId /\ \A l \in Unused(purposes) : link[l].stage # "none"
  BY DEF Unused
<1>7. CASE RequestEmailChange \/ ChangePassword \/ Suspend
  BY <1>5, <1>6, <1>7 DEF RequestEmailChange, ChangePassword, Suspend, CancelTokens
<1>8. CASE Retire
  BY <1>5, <1>8 DEF Retire
<1>9. ASSUME NEW l \in LinkId, ConfirmEmailChange(l) \/ ResetPassword(l) PROVE Goal
  <2>1. link' = [Deleted(Unused(Purpose)) EXCEPT ![l].stage = "used"] /\ link[l].stage # "none"
    BY <1>9 DEF ConfirmEmailChange, ResetPassword, Consumed, CancelTokens, Unused
  <2> DEFINE rest == Deleted(Unused(Purpose))
  <2>2. /\ rest \in [LinkId -> LinkRecord]
        /\ \A k \in LinkId :
             \/ rest[k] = link[k]
             \/ link[k].stage # "none" /\ rest[k] = [link[k] EXCEPT !.stage = "deleted"]
    BY <1>4, <1>6
  <2> HIDE DEF rest
  <2>3. [rest[l] EXCEPT !.stage = "used"] = [link[l] EXCEPT !.stage = "used"]
    BY <1>1, <2>2 DEF LinkRecord
  <2>4. link' = [rest EXCEPT ![l] = [link[l] EXCEPT !.stage = "used"]]
    BY <2>1, <2>2, <2>3 DEF rest
  <2> QED BY <1>3, <2>1, <2>2, <2>4 DEF Gone
<1>10. ASSUME NEW l \in LinkId, VerifyEmail(l) PROVE Goal
  <2>1. link' = [link EXCEPT ![l] = [link[l] EXCEPT !.stage = "used"]] /\ link[l].stage # "none"
    BY <1>1, <1>10 DEF VerifyEmail, Unused
  <2> QED BY <1>1, <1>3, <2>1 DEF Gone
<1>11. ASSUME NEW d \in Delivery, FailLinks(d) PROVE Goal
  BY <1>5, <1>6, <1>11 DEF FailLinks, Unused
<1>12. ASSUME NEW d \in Delivery, CommitIssue(d) PROVE Goal
  <2> DEFINE replaced == delivery[d].replaces
             purpose == PurposeOf(Entry(d).type)
             new == [purpose |-> purpose, stage |-> "unused", change |-> ChangeOf(d), holder |-> delivery[d].to,
                     to |-> IF purpose = "email_change" THEN change[ChangeOf(d)].newEmail ELSE delivery[d].to]
  <2>1. CASE UNCHANGED link
    BY <1>2, <2>1
  <2>2. CASE /\ replaced \subseteq Unused({purpose})
             /\ link[MaxLinks].stage = "none"
             /\ link' = [Deleted(replaced) EXCEPT ![NextLink] = new]
             /\ delivery' = [delivery EXCEPT ![d].pc = "send", ![d].link = NextLink, ![d].replaces = {}]
    <3>1. NextLink \in LinkId /\ link[NextLink].stage = "none"
      BY <2>2, NextLinkIs
    <3>2. new \in LinkRecord
      <4>1. delivery[d].job \in Job /\ delivery[d] \in DeliveryRecord
        BY <1>12 DEF Inv, TypeOK, CommitIssue, PlaceFits, Busy
      <4>2. purpose \in Purpose
        BY DEF PurposeOf, Purpose
      <4>3. purpose = "email_change" => Entry(d).type = "link"
        BY DEF PurposeOf
      <4>4. Entry(d) \in JobRecord /\ delivery[d].pc = "insert" /\ Entry(d).state # "NEW"
        BY <1>12, <4>1 DEF Inv, TypeOK, Entry, CommitIssue, PlaceFits, Busy
      <4>5. Entry(d).type = "link" => ChangeOf(d) \in Change
        BY <4>1, <4>4 DEF Inv, JobsWell, ForChange, ChangeOf, Entry
      <4>6. purpose = "email_change" => change[ChangeOf(d)].newEmail \in Address \cup {None}
        BY <4>3, <4>5 DEF Inv, TypeOK, ChangeRecord
      <4>7. ChangeOf(d) \in 0..MaxChanges /\ delivery[d].to \in Address \cup {None}
        BY <4>1, <4>4 DEF ChangeOf, JobRecord, DeliveryRecord
      <4> QED BY <4>2, <4>6, <4>7 DEF LinkRecord
    <3>3. replaced \in SUBSET LinkId /\ \A l \in replaced : link[l].stage # "none"
      BY <2>2 DEF Unused
    <3>4. delivery'[d] = [delivery[d] EXCEPT !.pc = "send", !.link = NextLink, !.replaces = {}]
      BY <2>2 DEF Inv, TypeOK
    <3> DEFINE rest == Deleted(replaced)
    <3>5. /\ rest \in [LinkId -> LinkRecord]
          /\ \A k \in LinkId :
               \/ rest[k] = link[k]
               \/ link[k].stage # "none" /\ rest[k] = [link[k] EXCEPT !.stage = "deleted"]
      BY <1>4, <3>3
    <3> HIDE DEF rest, new
    <3>6. link' = [rest EXCEPT ![NextLink] = new]
      BY <2>2 DEF rest, new
    <3>7. link' \in [LinkId -> LinkRecord] /\ link'[NextLink] = new
      BY <3>1, <3>2, <3>5, <3>6
    <3>8. Issued(NextLink)
      BY <1>12, <3>1, <3>4, <3>7 DEF Issued, new
    <3>9. ASSUME NEW k \in LinkId, k # NextLink PROVE link'[k] = link[k] \/ Gone(k)
      BY <3>5, <3>6, <3>9 DEF Gone
    <3> QED BY <3>7, <3>8, <3>9
  <2> QED BY <1>12, <2>1, <2>2 DEF CommitIssue
<1>13. CASE UNCHANGED vars
  BY <1>2, <1>13 DEF vars
<1> QED BY <1>2, <1>7, <1>8, <1>9, <1>10, <1>11, <1>12, <1>13, LinkSteps

\* What a step may make of one entry: it is written, or it goes on.
Written(j) ==
  /\ job[j].state = "NEW"
  /\ \/ RequestEmailChange /\ job'[j] = [job[j] EXCEPT !.type = "notice", !.state = "OPEN", !.change = NextChange, !.email = None]
     \/ \E d \in Delivery :
          /\ Advance(d) /\ Entry(d).type = "notice"
          /\ job'[j] = [job[j] EXCEPT !.type = "link", !.state = "OPEN", !.change = ChangeOf(d), !.email = None]
     \/ \E type \in {"reset", "verify"}, a \in Address \cup {None} :
          job'[j] = [job[j] EXCEPT !.type = type, !.state = "OPEN", !.change = 0, !.email = a]
GoesOn(j) ==
  /\ job[j].state # "NEW" /\ job'[j].state # "NEW"
  /\ job'[j].type = job[j].type /\ job'[j].change = job[j].change
  /\ job'[j].delivered =>
       job[j].delivered \/ \E d \in Delivery : Busy(d) /\ delivery[d].pc = "delivered" /\ delivery[d].job = j

\* enqueue writes an entry that was not written, and no other.
Enqueues(type, c, a) ==
  \A j \in Job :
    \/ job'[j] = job[j]
    \/ /\ job[j].state = "NEW"
       /\ job'[j] = [job[j] EXCEPT !.type = type, !.state = "OPEN", !.change = c, !.email = a]

LEMMA EnqueuedIs ==
  ASSUME TypeOK, NEW type \in {"notice", "link", "reset", "verify"}, NEW c \in 0..MaxChanges,
         NEW a \in Address \cup {None}, job' = Enqueued(type, c, a)
  PROVE  job' \in [Job -> JobRecord] /\ Enqueues(type, c, a)
<1>1. \A j \in Job : [job[j] EXCEPT !.type = type, !.state = "OPEN", !.change = c, !.email = a] \in JobRecord
  BY ZenonT(60) DEF TypeOK, JobRecord
<1> QED BY <1>1 DEF Enqueued, Enqueues, TypeOK

LEMMA JobBecomes ==
  ASSUME Inv, [Next]_vars
  PROVE  job' \in [Job -> JobRecord] /\ \A j \in Job : job'[j] = job[j] \/ Written(j) \/ GoesOn(j)
<1> DEFINE Goal == job' \in [Job -> JobRecord] /\ \A j \in Job : job'[j] = job[j] \/ Written(j) \/ GoesOn(j)
<1>1. TypeOK /\ job \in [Job -> JobRecord] /\ \A j \in Job : job[j] \in JobRecord
  BY DEF Inv, TypeOK
<1>2. CASE UNCHANGED job
  BY <1>1, <1>2
<1>3. None \in Address \cup {None} /\ 0 \in 0..MaxChanges
  BY BoundsAssumption
<1>4. CASE RequestEmailChange
  <2>1. NextChange \in 0..MaxChanges
    BY <1>4, NextChangeIs DEF RequestEmailChange, Change
  <2>2. job' = Enqueued("notice", NextChange, None)
    BY <1>4 DEF RequestEmailChange
  <2>3. job' \in [Job -> JobRecord] /\ Enqueues("notice", NextChange, None)
    BY <1>1, <1>3, <2>1, <2>2, EnqueuedIs
  <2> QED BY <1>4, <2>3 DEF Enqueues, Written
<1>5. CASE QueueVerification
  <2>1. job' \in [Job -> JobRecord] /\ Enqueues("verify", 0, None)
    BY <1>1, <1>3, <1>5, EnqueuedIs DEF QueueVerification
  <2> QED BY <2>1 DEF Enqueues, Written
<1>6. ASSUME NEW a \in Address, ForgotPassword(a) PROVE Goal
  <2>1. job' \in [Job -> JobRecord] /\ Enqueues("reset", 0, a)
    BY <1>1, <1>3, <1>6, EnqueuedIs DEF ForgotPassword
  <2> QED BY <2>1 DEF Enqueues, Written
<1>7. ASSUME NEW j \in Job, NEW x \in JobRecord, job[j].state # "NEW", x.state # "NEW",
             x.type = job[j].type, x.change = job[j].change,
             x.delivered => job[j].delivered \/ \E d \in Delivery : Busy(d) /\ delivery[d].pc = "delivered" /\ delivery[d].job = j,
             job' = [job EXCEPT ![j] = x]
      PROVE  Goal
  BY <1>1, <1>7 DEF GoesOn
<1>8. ASSUME NEW j \in Job, RetryJob(j) PROVE Goal
  <2> DEFINE x == [job[j] EXCEPT !.state = "OPEN", !.attempts = 0, !.run = job[j].run + 1,
                                 !.delivered = job[j].delivered /\ job[j].type # "link"]
  <2>1. x \in JobRecord /\ x.type = job[j].type /\ x.change = job[j].change /\ x.state = "OPEN"
        /\ (x.delivered => job[j].delivered)
    <3>1. job[j] \in JobRecord
      BY <1>1
    <3>2. job[j].run + 1 \in Nat
      BY <3>1 DEF JobRecord
    <3> DEFINE b == job[j].delivered /\ job[j].type # "link"
    <3>3. b \in BOOLEAN /\ (b => job[j].delivered)
      OBVIOUS
    <3> HIDE DEF b
    <3>4. x = [job[j] EXCEPT !.state = "OPEN", !.attempts = 0, !.run = job[j].run + 1, !.delivered = b]
      BY DEF b
    <3> HIDE DEF x
    <3>5. x \in JobRecord /\ x.type = job[j].type /\ x.change = job[j].change /\ x.state = "OPEN"
      BY <3>1, <3>2, <3>3, <3>4 DEF JobRecord
    <3>6. x.delivered = b
      BY <3>1, <3>4 DEF JobRecord
    <3> QED BY <3>3, <3>5, <3>6
  <2>2. job[j].state # "NEW" /\ job' = [job EXCEPT ![j] = x]
    <3>1. job' = [job EXCEPT ![j] = [@ EXCEPT !.state = "OPEN", !.attempts = 0, !.run = job[j].run + 1,
                    !.delivered = job[j].delivered /\ job[j].type # "link"]]
      BY <1>8 DEF RetryJob
    <3> QED BY <1>1, <1>8, <3>1 DEF RetryJob
  <2> QED BY <1>7, <2>1, <2>2
<1>9. ASSUME NEW j \in Job, DismissJob(j) PROVE Goal
  <2> DEFINE x == [job[j] EXCEPT !.state = "DISMISSED"]
  <2>1. x \in JobRecord /\ x.type = job[j].type /\ x.change = job[j].change /\ x.state = "DISMISSED"
        /\ (x.delivered => job[j].delivered)
    BY <1>1 DEF JobRecord
  <2>2. job[j].state # "NEW" /\ job' = [job EXCEPT ![j] = x]
    BY <1>1, <1>9 DEF DismissJob
  <2> QED BY <1>7, <2>1, <2>2
<1>10. ASSUME NEW d \in Delivery, Busy(d) PROVE delivery[d].job \in Job /\ Entry(d).state # "NEW" /\ delivery[d] \in DeliveryRecord
  BY <1>10 DEF Inv, TypeOK, PlaceFits
<1>11. ASSUME NEW d \in Delivery, Claim(d) PROVE Goal
  <2> DEFINE x == [Entry(d) EXCEPT !.token = d]
  <2>1. delivery[d].job \in Job /\ Entry(d).state # "NEW" /\ Entry(d) \in JobRecord
    BY <1>1, <1>10, <1>11 DEF Claim, Busy, Entry
  <2>2. x \in JobRecord /\ x.type = Entry(d).type /\ x.change = Entry(d).change /\ x.state = Entry(d).state
        /\ (x.delivered => Entry(d).delivered)
    BY <2>1 DEF JobRecord
  <2>3. job' = [job EXCEPT ![delivery[d].job] = x]
    BY <1>1, <1>11, <2>1 DEF Claim, Entry
  <2> QED BY <1>7, <2>1, <2>2, <2>3 DEF Entry
<1>12. ASSUME NEW d \in Delivery, MarkDelivered(d) PROVE Goal
  <2> DEFINE x == [Entry(d) EXCEPT !.delivered = TRUE]
  <2>1. delivery[d].job \in Job /\ Entry(d).state # "NEW" /\ Entry(d) \in JobRecord /\ Busy(d) /\ delivery[d].pc = "delivered"
    BY <1>1, <1>10, <1>12 DEF MarkDelivered, Busy, Entry
  <2>2. x \in JobRecord /\ x.type = Entry(d).type /\ x.change = Entry(d).change /\ x.state = Entry(d).state
    BY <2>1 DEF JobRecord
  <2>3. job' = [job EXCEPT ![delivery[d].job] = x]
    BY <1>1, <1>12, <2>1 DEF MarkDelivered, Entry
  <2> QED BY <1>7, <2>1, <2>2, <2>3 DEF Entry
<1>13. ASSUME NEW d \in Delivery, NEW state \in {"OPEN", "DONE", "FAILED"}, Record(d, state) PROVE Goal
  <2> DEFINE x == [Entry(d) EXCEPT !.state = state, !.attempts = delivery[d].attempts + 1, !.token = None,
                                   !.email = IF state = "OPEN" THEN Entry(d).email ELSE None]
  <2>1. delivery[d].job \in Job /\ Entry(d).state # "NEW" /\ Entry(d) \in JobRecord /\ delivery[d].attempts \in Nat
    BY <1>1, <1>10, <1>13 DEF Record, Busy, Entry, DeliveryRecord
  <2>2. x \in JobRecord /\ x.type = Entry(d).type /\ x.change = Entry(d).change /\ x.state = state
        /\ (x.delivered => Entry(d).delivered)
    <3>1. delivery[d].attempts + 1 \in Nat /\ (IF state = "OPEN" THEN Entry(d).email ELSE None) \in Address \cup {None}
      BY <2>1 DEF JobRecord
    <3> QED BY <2>1, <3>1 DEF JobRecord
  <2>3. job' = [job EXCEPT ![delivery[d].job] = x]
    <3>1. job' = [job EXCEPT ![delivery[d].job] =
             [@ EXCEPT !.state = state, !.attempts = delivery[d].attempts + 1, !.token = None,
                       !.email = IF state = "OPEN" THEN Entry(d).email ELSE None]]
      BY <1>13 DEF Record
    <3> QED BY <1>1, <2>1, <3>1 DEF Entry
  <2> QED BY <1>7, <2>1, <2>2, <2>3 DEF Entry
<1>14. ASSUME NEW d \in Delivery, Advance(d) PROVE Goal
  <2>1. PlaceFits(d) /\ Busy(d) /\ delivery[d].pc = "advance"
    BY <1>14 DEF Inv, Advance, Busy
  <2>2. ForChange(delivery[d].job) /\ delivery[d].job \in Job
    BY <2>1 DEF PlaceFits, ForChange, Entry
  <2>3. ChangeOf(d) \in 0..MaxChanges
    BY <2>2 DEF Inv, JobsWell, ChangeOf, Entry, Change
  <2>4. CASE Entry(d).type = "notice" /\ job' = Enqueued("link", ChangeOf(d), None)
    <3>1. job' \in [Job -> JobRecord] /\ Enqueues("link", ChangeOf(d), None)
      BY <1>1, <1>3, <2>3, <2>4, EnqueuedIs
    <3> QED BY <1>14, <2>4, <3>1 DEF Enqueues, Written
  <2> QED BY <1>2, <1>14, <2>4 DEF Advance
<1>15. CASE UNCHANGED vars
  BY <1>2, <1>15 DEF vars
<1>16. ASSUME NEW d \in Delivery, RecordDone(d) \/ RecordRetry(d) \/ RecordFailed(d) PROVE Goal
  BY <1>13, <1>16 DEF RecordDone, RecordRetry, RecordFailed
<1> QED BY <1>2, <1>4, <1>5, <1>6, <1>8, <1>9, <1>11, <1>12, <1>14, <1>15, <1>16, JobSteps

-----------------------------------------------------------------------------
(* Deliveries.                                                                 *)

\* What a step leaves of the entry of a delivery under way.
LEMMA EntryKept ==
  ASSUME Inv, [Next]_vars, NEW d \in Delivery, Busy(d)
  PROVE  LET j == delivery[d].job IN
         /\ j \in Job /\ job[j].state # "NEW" /\ job'[j].state # "NEW"
         /\ job'[j].type = job[j].type /\ job'[j].change = job[j].change
         /\ delivery[d] \in DeliveryRecord
<1>1. PlaceFits(d) /\ delivery[d] \in DeliveryRecord
  BY DEF Inv, TypeOK
<1>2. delivery[d].job \in Job /\ job[delivery[d].job].state # "NEW"
  BY <1>1 DEF PlaceFits, Entry
<1>3. job'[delivery[d].job] = job[delivery[d].job] \/ Written(delivery[d].job) \/ GoesOn(delivery[d].job)
  BY <1>2, JobBecomes
<1> QED BY <1>1, <1>2, <1>3 DEF Written, GoesOn

\* The step of one delivery.
Moves(d, x) ==
  /\ Busy(d) \/ \E j \in Job : Load(j)
  /\ x \in DeliveryRecord /\ delivery' = [delivery EXCEPT ![d] = x]

LEMMA LoadMoves ==
  ASSUME Inv, NEW j \in Job, Load(j)
  PROVE  \E d \in Delivery :
           /\ delivery[d] = Free /\ job[j].state = "OPEN"
           /\ Moves(d, [Free EXCEPT !.pc = "claim", !.job = j, !.run = job[j].run, !.attempts = job[j].attempts,
                                    !.delivered = job[j].delivered])
<1> DEFINE d == CHOOSE f \in Fresh : TRUE
           x == [Free EXCEPT !.pc = "claim", !.job = j, !.run = job[j].run, !.attempts = job[j].attempts,
                             !.delivered = job[j].delivered]
<1>1. d \in Delivery /\ delivery[d] = Free
  BY DEF Load, Fresh
<1>2. x \in DeliveryRecord
  <2>1. job[j].run \in Nat /\ job[j].attempts \in Nat /\ job[j].delivered \in BOOLEAN
    BY DEF Inv, TypeOK, JobRecord
  <2>2. j \in 0..MaxJobs
    BY BoundsAssumption DEF Job
  <2>3. Free \in DeliveryRecord
    BY BoundsAssumption DEF Free, DeliveryRecord
  <2> QED BY <2>1, <2>2, <2>3 DEF DeliveryRecord
<1> HIDE DEF d
<1>3. delivery' = [delivery EXCEPT ![d] = x] /\ job[j].state = "OPEN"
  BY DEF Load, d
<1> QED BY <1>1, <1>2, <1>3 DEF Moves

\* Every step of a delivery leaves the others alone.
LEMMA WorksMoves == ASSUME Inv, NEW d \in Delivery, Works(d) PROVE \E x : Moves(d, x)
<1>1. TypeOK /\ delivery[d] \in DeliveryRecord /\ delivery \in [Delivery -> DeliveryRecord]
  BY DEF Inv, TypeOK
<1>2. Free \in DeliveryRecord
  BY BoundsAssumption DEF Free, DeliveryRecord
<1>3. ASSUME Frees(d), Busy(d) PROVE \E x : Moves(d, x)
  BY <1>2, <1>3 DEF Frees, Moves
<1>4. ASSUME NEW pc \in {"claim", "read", "account", "cancel", "cap", "issue", "insert", "giveup", "send",
                         "delivered", "advance", "record", "fail", "unlink"},
             Goto(d, pc), Busy(d)
      PROVE  \E x : Moves(d, x)
  <2>1. [delivery[d] EXCEPT !.pc = pc] \in DeliveryRecord
    BY <1>1 DEF DeliveryRecord
  <2>2. delivery' = [delivery EXCEPT ![d] = [delivery[d] EXCEPT !.pc = pc]]
    BY <1>1, <1>4 DEF Goto
  <2> QED BY <1>4, <2>1, <2>2 DEF Moves
<1>5. ASSUME NEW outcome \in {"ok", "retryable", "lasting"}, Ends(d, outcome), Busy(d) PROVE \E x : Moves(d, x)
  <2>1. [delivery[d] EXCEPT !.pc = "record", !.outcome = outcome] \in DeliveryRecord
    BY <1>1 DEF DeliveryRecord
  <2>2. delivery' = [delivery EXCEPT ![d] = [delivery[d] EXCEPT !.pc = "record", !.outcome = outcome]]
    BY <1>1, <1>5 DEF Ends
  <2> QED BY <1>5, <2>1, <2>2 DEF Moves
<1>6. CASE Claim(d) \/ Skip(d) \/ RecordDone(d) \/ RecordRetry(d) \/ RecordFailed(d) \/ RecordStale(d) \/ Dies(d)
  BY <1>3, <1>4, <1>6 DEF Claim, Skip, RecordDone, RecordRetry, RecordFailed, RecordStale, Record, Dies, Busy
<1>7. CASE ReadChange(d) \/ CancelChange(d) \/ RecipientCap(d) \/ GiveUp(d) \/ Send(d) \/ SendRejected(d) \/ MarkDelivered(d)
  BY <1>4, <1>5, <1>7 DEF ReadChange, CancelChange, RecipientCap, GiveUp, Send, SendRejected, MarkDelivered, Busy, At
<1>8. CASE Advance(d) \/ FailChange(d) \/ FailLinks(d) \/ SendFailsAnyhow(d) \/ DatabaseFails(d)
  BY <1>3, <1>4, <1>5, <1>8 DEF Advance, FailChange, FailLinks, SendFailsAnyhow, SendFails, DatabaseFails, Busy
<1>9. ASSUME NEW pc \in {"advance", "send", "cap"}, NEW to \in Address \cup {None}, Busy(d),
             delivery' = [delivery EXCEPT ![d] = [delivery[d] EXCEPT !.to = to, !.pc = pc]]
      PROVE  \E x : Moves(d, x)
  <2>1. [delivery[d] EXCEPT !.to = to, !.pc = pc] \in DeliveryRecord
    BY <1>1 DEF DeliveryRecord
  <2> QED BY <1>9, <2>1 DEF Moves
<1>10. user.email \in Address \cup {None}
  BY <1>1 DEF TypeOK, User
<1>11. CASE ReadAccount(d)
  <2>1. CASE Goto(d, "cancel")
    BY <1>4, <1>11, <2>1 DEF ReadAccount, Busy
  <2>2. CASE Active(user)
    <3> DEFINE pc == CASE delivery[d].delivered -> "advance"
                       [] Entry(d).type = "notice" -> "send"
                       [] OTHER -> "cap"
    <3>1. pc \in {"advance", "send", "cap"}
      OBVIOUS
    <3>2. delivery' = [delivery EXCEPT ![d] = [delivery[d] EXCEPT !.to = user.email, !.pc = pc]]
      BY <1>1, <1>11, <2>2 DEF ReadAccount
    <3> HIDE DEF pc
    <3> QED BY <1>9, <1>10, <1>11, <3>1, <3>2 DEF ReadAccount, Busy
  <2> QED BY <1>11, <2>1, <2>2 DEF ReadAccount
<1>12. CASE ReadHolder(d)
  <2>1. \/ Ends(d, "ok")
        \/ delivery' = [delivery EXCEPT ![d] = [delivery[d] EXCEPT !.to = user.email, !.pc = "cap"]]
    BY <1>1, <1>12 DEF ReadHolder
  <2> QED BY <1>5, <1>9, <1>10, <1>12, <2>1 DEF ReadHolder, At, Busy
<1>13. CASE BeginIssue(d)
  <2>1. CASE delivery' = [delivery EXCEPT ![d].pc = "insert", ![d].replaces = Unused({PurposeOf(Entry(d).type)})]
    <3>1. [delivery[d] EXCEPT !.pc = "insert", !.replaces = Unused({PurposeOf(Entry(d).type)})] \in DeliveryRecord
      BY <1>1 DEF DeliveryRecord, Unused
    <3>2. delivery' = [delivery EXCEPT ![d] =
            [delivery[d] EXCEPT !.pc = "insert", !.replaces = Unused({PurposeOf(Entry(d).type)})]]
      BY <1>1, <2>1
    <3> QED BY <1>13, <3>1, <3>2 DEF Moves, BeginIssue, Busy
  <2> QED BY <1>4, <1>5, <1>13, <2>1 DEF BeginIssue, Busy
<1>14. CASE CommitIssue(d)
  <2>1. CASE delivery' = [delivery EXCEPT ![d].pc = "send", ![d].link = NextLink, ![d].replaces = {}]
             /\ link[MaxLinks].stage = "none"
    <3>1. NextLink \in 0..MaxLinks
      BY <2>1, NextLinkIs DEF LinkId
    <3>2. [delivery[d] EXCEPT !.pc = "send", !.link = NextLink, !.replaces = {}] \in DeliveryRecord
      BY <1>1, <3>1 DEF DeliveryRecord
    <3>3. delivery' = [delivery EXCEPT ![d] = [delivery[d] EXCEPT !.pc = "send", !.link = NextLink, !.replaces = {}]]
      BY <1>1, <2>1
    <3> QED BY <1>14, <3>2, <3>3 DEF Moves, CommitIssue, Busy
  <2>2. CASE delivery' = [delivery EXCEPT ![d].pc = "issue", ![d].replaces = {}]
    <3>1. [delivery[d] EXCEPT !.pc = "issue", !.replaces = {}] \in DeliveryRecord
      BY <1>1 DEF DeliveryRecord
    <3>2. delivery' = [delivery EXCEPT ![d] = [delivery[d] EXCEPT !.pc = "issue", !.replaces = {}]]
      BY <1>1, <2>2
    <3> QED BY <1>14, <3>1, <3>2 DEF Moves, CommitIssue, Busy
  <2> QED BY <1>14, <2>1, <2>2 DEF CommitIssue
<1> QED BY <1>6, <1>7, <1>8, <1>11, <1>12, <1>13, <1>14 DEF Works, DeliveryNext

\* A step of a delivery, and what is true of it where it may go.
LEMMA PlaceFitsKept == ASSUME Inv, [Next]_vars PROVE \A d \in Delivery : PlaceFits(d)'
<1> SUFFICES ASSUME NEW d \in Delivery, Busy(d)' PROVE PlaceFits(d)'
  BY DEF PlaceFits
<1>1. TypeOK /\ delivery \in [Delivery -> DeliveryRecord] /\ PlaceFits(d)
  BY DEF Inv, TypeOK
<1>2. \A l \in LinkId : link[l].stage # "none" => link'[l].stage # "none"
  <2>1. \A l \in LinkId : link'[l] = link[l] \/ Issued(l) \/ Gone(l)
    BY LinkBecomes
  <2>2. ASSUME NEW l \in LinkId, Gone(l) PROVE link'[l].stage # "none"
    <3>1. link[l] \in LinkRecord
      BY <1>1 DEF TypeOK
    <3> QED BY <2>2, <3>1 DEF Gone, LinkRecord
  <2> QED BY <2>1, <2>2 DEF Issued
<1>3. ASSUME Busy(d), delivery'[d] = delivery[d] PROVE PlaceFits(d)'
  BY <1>1, <1>2, <1>3, EntryKept DEF PlaceFits, Entry
<1>4. ASSUME NEW j \in Job, Load(j) PROVE PlaceFits(d)'
  <2>1. PICK e \in Delivery :
           /\ delivery[e] = Free /\ job[j].state = "OPEN"
           /\ Moves(e, [Free EXCEPT !.pc = "claim", !.job = j, !.run = job[j].run, !.attempts = job[j].attempts,
                                    !.delivered = job[j].delivered])
    BY <1>4, LoadMoves
  <2>2. CASE d # e
    BY <1>1, <1>3, <2>1, <2>2 DEF Moves, Busy
  <2>3. CASE d = e
    <3>1. delivery'[d] = [Free EXCEPT !.pc = "claim", !.job = j, !.run = job[j].run, !.attempts = job[j].attempts,
                                    !.delivered = job[j].delivered]
      BY <1>1, <2>1, <2>3 DEF Moves
    <3>2. delivery'[d].pc = "claim" /\ delivery'[d].job = j
      BY <3>1 DEF Free
    <3>3. job' = job
      BY <1>4 DEF Load
    <3> QED BY <2>1, <3>2, <3>3 DEF PlaceFits, Entry
  <2> QED BY <2>2, <2>3
<1>5. ASSUME Works(d) PROVE PlaceFits(d)'
  <2>1. PICK x : Moves(d, x)
    BY <1>5, WorksMoves
  <2>2. Busy(d) /\ x \in DeliveryRecord /\ delivery'[d] = x
    <3>1. (\E j \in Job : Load(j)) => delivery'[d] = delivery[d] \/ PlaceFits(d)'
      BY <1>4
    <3>2. Works(d) => Busy(d)
      BY DEF Works, DeliveryNext, Busy, Claim, Skip, ReadChange, ReadAccount, CancelChange, ReadHolder, RecipientCap,
         BeginIssue, CommitIssue, GiveUp, Send, SendRejected, MarkDelivered, Advance, RecordDone, RecordRetry,
         RecordFailed, RecordStale, Record, FailChange, FailLinks, SendFailsAnyhow, SendFails, DatabaseFails, Dies, At
    <3> QED BY <1>1, <1>5, <2>1, <3>2 DEF Moves
  <2> DEFINE k == delivery[d].job
  <2>3. /\ k \in Job /\ job[k].state # "NEW" /\ job'[k].state # "NEW"
        /\ job'[k].type = job[k].type /\ job'[k].change = job[k].change
        /\ delivery[d] \in DeliveryRecord
    BY <2>2, EntryKept
  <2>4. delivery'[d].pc # "free"
    BY DEF Busy
  <2>5. ~Frees(d)
    BY <1>1, <2>4 DEF Frees, Free
  <2> DEFINE Same == /\ delivery'[d].job = delivery[d].job /\ delivery'[d].to = delivery[d].to
                     /\ delivery'[d].link = delivery[d].link
  <2>6. ASSUME NEW pc, Goto(d, pc) PROVE delivery'[d].pc = pc /\ Same
    BY <1>1, <2>3, <2>6 DEF Goto, DeliveryRecord
  <2>7. ASSUME NEW outcome, Ends(d, outcome) PROVE delivery'[d].pc = "record" /\ Same
    BY <1>1, <2>3, <2>7 DEF Ends, DeliveryRecord
  <2> USE <1>1, <2>3 DEF PlaceFits, Entry, DeliveryRecord, Busy
  <2>8. ASSUME NEW outcome, Ends(d, outcome) PROVE PlaceFits(d)'
    BY <2>7, <2>8
  <2>9. ASSUME NEW pc \in {"claim", "read", "delivered", "record"}, Goto(d, pc) PROVE PlaceFits(d)'
    <3>1. delivery'[d].pc = pc /\ Same
      BY <2>6, <2>9
    <3> QED BY <2>9, <3>1
  <2>10. CASE Claim(d) \/ Skip(d) \/ RecordDone(d) \/ RecordRetry(d) \/ RecordStale(d) \/ Dies(d)
    BY <2>5, <2>9, <2>10 DEF Claim, Skip, RecordDone, RecordRetry, RecordStale, Dies
  <2>11. CASE RecordFailed(d)
    BY <2>5, <2>6, <2>11 DEF RecordFailed
  <2>12. CASE ReadChange(d)
    BY <2>6, <2>8, <2>12 DEF ReadChange, At
  <2>13. CASE ReadAccount(d)
    <3>1. CASE Goto(d, "cancel")
      BY <2>6, <2>13, <3>1 DEF ReadAccount
    <3>2. CASE Active(user)
      <4> DEFINE pc == CASE delivery[d].delivered -> "advance"
                         [] Entry(d).type = "notice" -> "send"
                         [] OTHER -> "cap"
      <4>1. delivery'[d] = [delivery[d] EXCEPT !.to = user.email, !.pc = pc]
        BY <2>13, <3>2 DEF ReadAccount
      <4>2. user.email \in Address /\ Entry(d).type \in {"notice", "link"} /\ delivery[d].pc = "account"
        BY <2>13, <3>2 DEF ReadAccount, Active, Inv, AddressesWell, TypeOK, User
      <4>3. pc = "advance" \/ (pc = "send" /\ Entry(d).type = "notice") \/ (pc = "cap" /\ Entry(d).type # "notice")
        OBVIOUS
      <4> HIDE DEF pc
      <4> QED BY <4>1, <4>2, <4>3
    <3> QED BY <2>13, <3>1, <3>2 DEF ReadAccount
  <2>14. CASE ReadHolder(d)
    <3>1. CASE /\ Active(user) 
               /\ delivery' = [delivery EXCEPT ![d].to = user.email, ![d].pc = "cap"]
      <4>1. delivery'[d] = [delivery[d] EXCEPT !.to = user.email, !.pc = "cap"]
        BY <3>1
      <4>2. user.email \in Address /\ Entry(d).type \in {"reset", "verify"}
        BY <2>14, <3>1 DEF ReadHolder, At, Active, Inv, AddressesWell, TypeOK, User
      <4> QED BY <4>1, <4>2
    <3> QED BY <2>8, <2>14, <3>1 DEF ReadHolder
  <2>15. CASE RecipientCap(d)
    BY <2>6, <2>8, <2>15 DEF RecipientCap
  <2>16. CASE BeginIssue(d)
    <3>1. CASE delivery' = [delivery EXCEPT ![d].pc = "insert", ![d].replaces = Unused({PurposeOf(Entry(d).type)})]
      <4>1. delivery'[d] = [delivery[d] EXCEPT !.pc = "insert", !.replaces = Unused({PurposeOf(Entry(d).type)})]
        BY <3>1
      <4> QED BY <2>16, <4>1 DEF BeginIssue
    <3> QED BY <2>6, <2>8, <2>16, <3>1 DEF BeginIssue
  <2>17. CASE CommitIssue(d)
    <3>1. CASE /\ delivery' = [delivery EXCEPT ![d].pc = "send", ![d].link = NextLink, ![d].replaces = {}]
               /\ link[MaxLinks].stage = "none" /\ link'[NextLink].stage = "unused"
      <4>1. delivery'[d] = [delivery[d] EXCEPT !.pc = "send", !.link = NextLink, !.replaces = {}]
        BY <3>1
      <4>2. NextLink \in LinkId
        BY <3>1, NextLinkIs
      <4> QED BY <2>17, <3>1, <4>1, <4>2 DEF CommitIssue
    <3>2. CASE delivery' = [delivery EXCEPT ![d].pc = "issue", ![d].replaces = {}]
      <4>1. delivery'[d] = [delivery[d] EXCEPT !.pc = "issue", !.replaces = {}]
        BY <3>2
      <4> QED BY <2>17, <4>1 DEF CommitIssue
    <3> DEFINE purpose == PurposeOf(Entry(d).type)
               new == [purpose |-> purpose, stage |-> "unused", change |-> ChangeOf(d), holder |-> delivery[d].to,
                       to |-> IF purpose = "email_change" THEN change[ChangeOf(d)].newEmail ELSE delivery[d].to]
    <3>3. ASSUME link[MaxLinks].stage = "none", link' = [Deleted(delivery[d].replaces) EXCEPT ![NextLink] = new]
          PROVE  link'[NextLink].stage = "unused"
      <4>1. NextLink \in LinkId
        BY <3>3, NextLinkIs
      <4>2. link'[NextLink] = new
        BY <3>3, <4>1 DEF Deleted
      <4> QED BY <4>2
    <3>4. \/ delivery' = [delivery EXCEPT ![d].pc = "issue", ![d].replaces = {}]
          \/ /\ delivery' = [delivery EXCEPT ![d].pc = "send", ![d].link = NextLink, ![d].replaces = {}]
             /\ link[MaxLinks].stage = "none"
             /\ link' = [Deleted(delivery[d].replaces) EXCEPT ![NextLink] = new]
      BY <2>17 DEF CommitIssue
    <3> QED BY <3>1, <3>2, <3>3, <3>4
  <2>18. CASE GiveUp(d) \/ CancelChange(d) \/ Send(d) \/ SendRejected(d) \/ SendFailsAnyhow(d) \/ Advance(d)
    BY <2>8, <2>9, <2>18 DEF GiveUp, CancelChange, Send, SendRejected, SendFailsAnyhow, SendFails, Advance
  <2>19. CASE MarkDelivered(d)
    BY <2>6, <2>8, <2>19 DEF MarkDelivered
  <2>20. CASE FailChange(d) \/ FailLinks(d) \/ DatabaseFails(d)
    BY <2>5, <2>6, <2>8, <2>20 DEF FailChange, FailLinks, DatabaseFails
  <2> QED BY <1>5, <2>10, <2>11, <2>12, <2>13, <2>14, <2>15, <2>16, <2>17, <2>18, <2>19, <2>20 DEF Works, DeliveryNext
<1>6. ASSUME NEW e \in Delivery, Works(e), e # d PROVE PlaceFits(d)'
  BY <1>1, <1>3, <1>6, WorksMoves DEF Moves, Busy
<1>7. CASE People \/ RequestEmailChange \/ UNCHANGED vars
  BY <1>3, <1>7, PeopleSteps DEF Busy, vars
<1> QED BY <1>4, <1>5, <1>6, <1>7 DEF Next, Works

\* How a delivery gets where its place means most.
LEMMA WorksGo ==
  ASSUME Inv, NEW d \in Delivery, Works(d)
  PROVE  /\ Busy(d) /\ \A e \in Delivery \ {d} : delivery'[e] = delivery[e]
         /\ Busy(d)' => delivery'[d].job = delivery[d].job /\ delivery'[d].delivered = delivery[d].delivered
         /\ delivery'[d].pc = "insert" =>
              /\ BeginIssue(d) /\ guard = None /\ guard' = d
              /\ Active(user) /\ user.email = delivery'[d].to /\ StillWaiting(d)
         /\ delivery'[d].pc # "insert" =>
              guard' = IF guard = d /\ delivery[d].pc = "insert" THEN None ELSE guard
         /\ delivery'[d].pc = "send" /\ Entry(d).type = "notice" =>
              ReadAccount(d) /\ delivery'[d].to = user.email
         /\ delivery'[d].pc = "delivered" => Send(d)
         /\ delivery'[d].pc = "advance" => delivery[d].pc = "delivered" \/ delivery[d].delivered
<1> DEFINE Goal ==
      /\ Busy(d) /\ \A e \in Delivery \ {d} : delivery'[e] = delivery[e]
      /\ Busy(d)' => delivery'[d].job = delivery[d].job /\ delivery'[d].delivered = delivery[d].delivered
      /\ delivery'[d].pc = "insert" =>
           /\ BeginIssue(d) /\ guard = None /\ guard' = d
           /\ Active(user) /\ user.email = delivery'[d].to /\ StillWaiting(d)
      /\ delivery'[d].pc # "insert" =>
           guard' = IF guard = d /\ delivery[d].pc = "insert" THEN None ELSE guard
      /\ delivery'[d].pc = "send" /\ Entry(d).type = "notice" =>
           ReadAccount(d) /\ delivery'[d].to = user.email
      /\ delivery'[d].pc = "delivered" => Send(d)
      /\ delivery'[d].pc = "advance" => delivery[d].pc = "delivered" \/ delivery[d].delivered
<1>1. /\ TypeOK /\ delivery[d] \in DeliveryRecord /\ delivery \in [Delivery -> DeliveryRecord] /\ PlaceFits(d)
      /\ guard = d <=> delivery[d].pc = "insert"
  BY DEF Inv, TypeOK, Guarded
<1>2. d # None
  BY NamesAssumption
<1> DEFINE Same == /\ delivery'[d].job = delivery[d].job /\ delivery'[d].to = delivery[d].to
                   /\ delivery'[d].delivered = delivery[d].delivered
                   /\ \A e \in Delivery \ {d} : delivery'[e] = delivery[e]
<1>3. ASSUME Frees(d) PROVE delivery'[d].pc = "free" /\ \A e \in Delivery \ {d} : delivery'[e] = delivery[e]
  BY <1>1, <1>3 DEF Frees, Free
<1>4. ASSUME NEW pc, Goto(d, pc) PROVE delivery'[d].pc = pc /\ Same
  BY <1>1, <1>4 DEF Goto, DeliveryRecord
<1>5. ASSUME NEW outcome, Ends(d, outcome) PROVE delivery'[d].pc = "record" /\ Same
  BY <1>1, <1>5 DEF Ends, DeliveryRecord
<1> USE <1>1, <1>2 DEF Busy
<1> HIDE DEF Same
<1>6. CASE Skip(d) \/ RecordDone(d) \/ RecordRetry(d) \/ RecordStale(d) \/ Dies(d)
  BY <1>3, <1>6 DEF Skip, RecordDone, RecordRetry, RecordStale, Record, Dies
<1>7. CASE Claim(d) \/ RecordFailed(d) \/ FailChange(d) \/ FailLinks(d) \/ DatabaseFails(d)
  BY <1>3, <1>4, <1>5, <1>7 DEF Claim, RecordFailed, Record, FailChange, FailLinks, DatabaseFails, Same
<1>8. CASE ReadChange(d) \/ CancelChange(d) \/ RecipientCap(d) \/ GiveUp(d) \/ SendRejected(d) \/ SendFailsAnyhow(d)
  BY <1>4, <1>5, <1>8 DEF ReadChange, CancelChange, RecipientCap, GiveUp, SendRejected, SendFailsAnyhow, SendFails, At, Same
<1>9. CASE Send(d) \/ MarkDelivered(d) \/ Advance(d)
  BY <1>4, <1>5, <1>9 DEF Send, MarkDelivered, Advance, Same
<1>10. CASE ReadAccount(d)
  <2>1. CASE Goto(d, "cancel")
    BY <1>4, <1>10, <2>1 DEF ReadAccount, Same
  <2>2. CASE Active(user)
    <3> DEFINE pc == CASE delivery[d].delivered -> "advance"
                       [] Entry(d).type = "notice" -> "send"
                       [] OTHER -> "cap"
    <3>1. pc \in {"advance", "send", "cap"} /\ (pc = "advance" => delivery[d].delivered)
      OBVIOUS
    <3>2. delivery' = [delivery EXCEPT ![d].to = user.email, ![d].pc = pc]
      BY <1>10, <2>2 DEF ReadAccount
    <3> HIDE DEF pc
    <3>3. delivery'[d].pc = pc /\ delivery'[d].to = user.email /\ delivery'[d].job = delivery[d].job
          /\ delivery'[d].delivered = delivery[d].delivered /\ \A e \in Delivery \ {d} : delivery'[e] = delivery[e]
      BY <3>2 DEF DeliveryRecord
    <3>4. guard' = guard /\ delivery[d].pc = "account"
      BY <1>10 DEF ReadAccount
    <3> QED BY <1>10, <3>1, <3>3, <3>4
  <2> QED BY <1>10, <2>1, <2>2 DEF ReadAccount
<1>11. CASE ReadHolder(d)
  <2>1. CASE delivery' = [delivery EXCEPT ![d].to = user.email, ![d].pc = "cap"]
    <3>1. delivery'[d].pc = "cap" /\ delivery'[d].job = delivery[d].job
          /\ delivery'[d].delivered = delivery[d].delivered /\ \A e \in Delivery \ {d} : delivery'[e] = delivery[e]
      BY <2>1 DEF DeliveryRecord
    <3> QED BY <1>11, <3>1 DEF ReadHolder, At
  <2>2. CASE Ends(d, "ok")
    BY <1>5, <1>11, <2>2 DEF ReadHolder, At, Same
  <2> QED BY <1>11, <2>1, <2>2 DEF ReadHolder
<1>12. CASE BeginIssue(d)
  <2>1. CASE /\ delivery' = [delivery EXCEPT ![d].pc = "insert", ![d].replaces = Unused({PurposeOf(Entry(d).type)})]
             /\ Active(user) /\ user.email = delivery[d].to /\ StillWaiting(d) /\ TouchGuard(d)
    <3>1. delivery'[d].pc = "insert" /\ delivery'[d].job = delivery[d].job /\ delivery'[d].to = delivery[d].to
          /\ delivery'[d].delivered = delivery[d].delivered /\ \A e \in Delivery \ {d} : delivery'[e] = delivery[e]
      BY <2>1 DEF DeliveryRecord
    <3> QED BY <1>12, <2>1, <3>1 DEF BeginIssue, TouchGuard
  <2>2. CASE UNCHANGED guard /\ (Goto(d, "giveup") \/ Ends(d, "ok"))
    BY <1>4, <1>5, <1>12, <2>2 DEF BeginIssue, Same
  <2> QED BY <1>12, <2>1, <2>2 DEF BeginIssue
<1>13. CASE CommitIssue(d)
  <2>1. delivery[d].pc = "insert" /\ Entry(d).type # "notice" /\ guard' = None
    BY <1>13 DEF CommitIssue, PlaceFits
  <2>2. \/ delivery' = [delivery EXCEPT ![d].pc = "send", ![d].link = NextLink, ![d].replaces = {}]
        \/ delivery' = [delivery EXCEPT ![d].pc = "issue", ![d].replaces = {}]
    BY <1>13 DEF CommitIssue
  <2>3. delivery'[d].pc \in {"send", "issue"} /\ delivery'[d].job = delivery[d].job
        /\ delivery'[d].delivered = delivery[d].delivered /\ \A e \in Delivery \ {d} : delivery'[e] = delivery[e]
    BY <2>2 DEF DeliveryRecord
  <2> QED BY <2>1, <2>3
<1> QED BY <1>6, <1>7, <1>8, <1>9, <1>10, <1>11, <1>12, <1>13 DEF Works, DeliveryNext

\* A step in which a delivery does not work leaves it as it is, or gives it an entry.
LEMMA Otherwise ==
  ASSUME Inv, [Next]_vars, NEW d \in Delivery, ~Works(d)
  PROVE  \/ delivery'[d] = delivery[d]
         \/ \E j \in Job : /\ delivery[d] = Free /\ delivery'[d].pc = "claim" /\ delivery'[d].job = j
                           /\ delivery'[d].delivered = job[j].delivered /\ job[j].state = "OPEN"
                           /\ Load(j)
<1>1. delivery \in [Delivery -> DeliveryRecord]
  BY DEF Inv, TypeOK
<1>2. ASSUME NEW j \in Job, Load(j) 
      PROVE  \/ delivery'[d] = delivery[d]
             \/ /\ delivery[d] = Free /\ delivery'[d].pc = "claim" /\ delivery'[d].job = j
                /\ delivery'[d].delivered = job[j].delivered /\ job[j].state = "OPEN"
  <2>1. PICK e \in Delivery :
           /\ delivery[e] = Free /\ job[j].state = "OPEN"
           /\ Moves(e, [Free EXCEPT !.pc = "claim", !.job = j, !.run = job[j].run, !.attempts = job[j].attempts,
                                    !.delivered = job[j].delivered])
    BY <1>2, LoadMoves
  <2> QED BY <1>1, <2>1 DEF Moves, Free
<1>3. ASSUME NEW e \in Delivery, Works(e) PROVE delivery'[d] = delivery[d]
  BY <1>3, WorksGo
<1> QED BY <1>2, <1>3, PeopleSteps DEF Next, Works, vars

LEMMA GuardedKept == ASSUME Inv, [Next]_vars PROVE Guarded'
<1> SUFFICES ASSUME NEW d \in Delivery PROVE guard' = d <=> delivery'[d].pc = "insert"
  BY DEF Guarded
<1>1. Guarded /\ d # None
  BY NamesAssumption DEF Inv
<1>2. CASE Works(d)
  BY <1>1, <1>2, WorksGo DEF Guarded
<1>3. ASSUME NEW e \in Delivery, e # d, Works(e) PROVE guard' = d <=> delivery'[d].pc = "insert"
  <2>1. delivery'[d] = delivery[d]
    BY <1>3, WorksGo
  <2>2. delivery'[e].pc = "insert" => guard = None /\ guard' = e
    BY <1>3, WorksGo
  <2>3. delivery'[e].pc # "insert" => guard' = IF guard = e /\ delivery[e].pc = "insert" THEN None ELSE guard
    BY <1>3, WorksGo
  <2> QED BY <1>1, <1>3, <2>1, <2>2, <2>3 DEF Guarded
<1>4. ASSUME \A e \in Delivery : ~Works(e) PROVE guard' = guard
  BY <1>4, PeopleSteps DEF Next, Works, Load, vars
<1> QED BY <1>1, <1>2, <1>3, <1>4, Otherwise DEF Guarded, Free

-----------------------------------------------------------------------------
(* What moves the address, and what it ends.                                   *)

\* A new change and a new address end what was waited for.
LEMMA NewEndsOld ==
  ASSUME Inv, [Next]_vars
  PROVE  /\ RequestEmailChange =>
              /\ change[MaxChanges].state = "NONE" /\ guard = None
              /\ change'[NextChange].state = "NOTICE_PENDING"
              /\ \A c \in Change : c # NextChange => change'[c].state \notin Waited
         /\ (Retire \/ \E l \in LinkId : ConfirmEmailChange(l)) =>
              \A c \in Change : change'[c].state \notin Waited
         /\ user'.email # user.email => Retire \/ \E l \in LinkId : ConfirmEmailChange(l)
<1>1. TypeOK /\ change \in [Change -> ChangeRecord]
  BY DEF Inv, TypeOK
<1>2. \A c \in Change : EndOpenChanges(change, "SUPERSEDED")[c].state \notin Waited
  BY <1>1, ActiveIs DEF EndOpenChanges, Waited, ACTIVE_STATES, ChangeRecord
<1>3. ASSUME RequestEmailChange
      PROVE  /\ change[MaxChanges].state = "NONE" /\ guard = None
             /\ change'[NextChange].state = "NOTICE_PENDING"
             /\ \A c \in Change : c # NextChange => change'[c].state \notin Waited
  <2>1. change[MaxChanges].state = "NONE" /\ NextChange \in Change
    BY <1>3, NextChangeIs DEF RequestEmailChange
  <2>2. change' = [EndOpenChanges(change, "SUPERSEDED") EXCEPT
          ![NextChange] = [state |-> "NOTICE_PENDING", active |-> TRUE, newEmail |-> asking]]
    BY <1>3 DEF RequestEmailChange
  <2>3. change'[NextChange] = [state |-> "NOTICE_PENDING", active |-> TRUE, newEmail |-> asking]
    BY <2>1, <2>2 DEF EndOpenChanges
  <2>4. \A c \in Change : c # NextChange => change'[c] = EndOpenChanges(change, "SUPERSEDED")[c]
    BY <2>1, <2>2 DEF EndOpenChanges
  <2> QED BY <1>2, <1>3, <2>1, <2>3, <2>4 DEF RequestEmailChange
<1>4. ASSUME NEW l \in LinkId, ConfirmEmailChange(l) PROVE \A c \in Change : change'[c].state \notin Waited
  <2>1. change' = [EndOpenChanges(change, "SUPERSEDED") EXCEPT
                     ![link[l].change] = [@ EXCEPT !.state = "CONFIRMED", !.active = FALSE]]
    BY <1>4 DEF ConfirmEmailChange
  <2>2. link[l].change \in Change
    BY <1>4 DEF ConfirmEmailChange, Unused, Inv, LinksWell
  <2>3. \A c \in Change : c # link[l].change => change'[c] = EndOpenChanges(change, "SUPERSEDED")[c]
    BY <2>1, <2>2 DEF EndOpenChanges
  <2>4. EndOpenChanges(change, "SUPERSEDED")[link[l].change] \in ChangeRecord
    BY <1>1, <2>2 DEF EndOpenChanges, ChangeRecord, END_STATES
  <2>5. change'[link[l].change].state = "CONFIRMED"
    BY <2>1, <2>2, <2>4 DEF EndOpenChanges, ChangeRecord
  <2> QED BY <1>2, <2>3, <2>5 DEF Waited, ACTIVE_STATES
<1>5. ASSUME Retire PROVE \A c \in Change : change'[c].state \notin Waited
  BY <1>5 DEF Retire, Waited, ACTIVE_STATES
<1>6. ASSUME Next, ~(\E l \in LinkId : ConfirmEmailChange(l)), ~Retire PROVE user'.email = user.email
  <2>1. user \in User
    BY <1>1 DEF TypeOK
  <2> QED BY <1>6, <2>1, UserSteps DEF VerifyEmail, Suspend, Reactivate, User
<1> QED BY <1>3, <1>4, <1>5, <1>6 DEF vars

\* Who needs the guard: nothing of this happens while a delivery holds it.
LEMMA GuardExcludes ==
  ASSUME Inv, [Next]_vars, guard # None
  PROVE  /\ ~RequestEmailChange /\ ~Retire /\ ~Suspend
         /\ \A l \in LinkId : ~ConfirmEmailChange(l) /\ ~ResetPassword(l)
         /\ Active(user) = Active(user') /\ user'.email = user.email
<1>1. user \in User
  BY DEF Inv, TypeOK
<1>2. ~RequestEmailChange /\ ~Retire /\ ~Suspend /\ ~Reactivate
      /\ \A l \in LinkId : ~ConfirmEmailChange(l) /\ ~ResetPassword(l)
  BY DEF RequestEmailChange, Retire, Suspend, Reactivate, ConfirmEmailChange, ResetPassword
<1>3. ASSUME NEW l \in LinkId, VerifyEmail(l) PROVE Active(user) = Active(user') /\ user'.email = user.email
  BY <1>1, <1>3 DEF VerifyEmail, Active, User
<1> QED BY <1>2, <1>3, UserSteps DEF vars

LEMMA AddressesWellKept == ASSUME Inv, [Next]_vars PROVE AddressesWell' /\ user' \in User
<1>1. TypeOK /\ AddressesWell /\ user \in User /\ change \in [Change -> ChangeRecord]
  BY DEF Inv, TypeOK
<1>2. user' \in User /\ (user'.email = None <=> user'.retired)
  <2>1. ASSUME NEW l \in LinkId, ConfirmEmailChange(l) PROVE user' \in User /\ (user'.email = None <=> user'.retired)
    <3>1. link[l].change \in Change /\ change[link[l].change].active
      BY <2>1 DEF ConfirmEmailChange, Unused, Inv, LinksWell
    <3>2. change[link[l].change].state \in ACTIVE_STATES
      BY <1>1, <3>1, ActiveIs
    <3>3. change[link[l].change].newEmail \in Address
      BY <1>1, <3>1, <3>2 DEF AddressesWell, ChangeRecord, ACTIVE_STATES
    <3>4. user' = [user EXCEPT !.email = change[link[l].change].newEmail, !.verified = TRUE] /\ ~user.retired
      BY <2>1 DEF ConfirmEmailChange, Active
    <3> QED BY <1>1, <3>3, <3>4, NamesAssumption DEF User
  <2>2. ASSUME NEW l \in LinkId, VerifyEmail(l) PROVE user' \in User /\ (user'.email = None <=> user'.retired)
    BY <1>1, <2>2 DEF VerifyEmail, User, AddressesWell
  <2>3. CASE Suspend \/ Reactivate \/ Retire
    BY <1>1, <2>3 DEF Suspend, Reactivate, Retire, User, AddressesWell
  <2> QED BY <1>1, <2>1, <2>2, <2>3, UserSteps DEF AddressesWell, vars
<1>3. ASSUME NEW c \in Change PROVE change'[c].newEmail = None <=> change'[c].state \in {"NONE", "GONE"}
  <2>1. Becomes(c) /\ change[c] \in ChangeRecord /\ (change[c].newEmail = None <=> change[c].state \in {"NONE", "GONE"})
    BY <1>1, ChangeBecomes DEF AddressesWell
  <2>2. CASE Made(c)
    BY <2>2 DEF Made, RequestEmailChange
  <2>3. CASE Advanced(c) \/ Reopened(c) \/ Failed(c) \/ Cancelled(c) \/ Superseded(c) \/ Confirmed(c)
    <3>1. change[c].state \in Waited
      BY <1>1, <2>3, ActiveIs DEF Advanced, Reopened, Failed, Cancelled, Superseded, Confirmed, Waited
    <3>2. change'[c].newEmail = change[c].newEmail /\ change'[c].state \notin {"NONE", "GONE"}
      <4>1. \/ \E state \in ACTIVE_STATES : change'[c] = [change[c] EXCEPT !.state = state]
            \/ \E state \in ACTIVE_STATES : change'[c] = [change[c] EXCEPT !.state = state, !.active = TRUE]
            \/ \E state \in END_STATES : change'[c] = [change[c] EXCEPT !.state = state, !.active = FALSE]
        BY <2>3 DEF Advanced, Reopened, Failed, Cancelled, Superseded, Confirmed, Expected, ACTIVE_STATES, END_STATES
      <4> QED BY <2>1, <4>1 DEF ChangeRecord, ACTIVE_STATES, END_STATES
    <3> QED BY <2>1, <3>1, <3>2 DEF Waited, ACTIVE_STATES
  <2>4. CASE Removed(c)
    BY <2>4 DEF Removed
  <2> QED BY <2>1, <2>2, <2>3, <2>4 DEF Becomes
<1> QED BY <1>2, <1>3 DEF AddressesWell

\* How the state of a change may move.
LEMMA StateMoves ==
  ASSUME Inv, [Next]_vars, NEW c \in Change
  PROVE  /\ change[c].state # "NONE" => change'[c].state # "NONE"
         /\ change[c].state = "NONE" => change'[c] = change[c] \/ Made(c)
         /\ change'[c].state \in Waited => change[c].state \in Waited \/ Made(c)
         /\ change'[c].state \in {"SUPERSEDED", "CONFIRMED", "GONE"} =>
              \/ change[c].state \in {"SUPERSEDED", "CONFIRMED", "GONE"}
              \/ RequestEmailChange \/ Retire \/ \E l \in LinkId : ConfirmEmailChange(l)
<1>1. TypeOK /\ change[c] \in ChangeRecord /\ Becomes(c)
  BY ChangeBecomes DEF Inv, TypeOK
<1>2. CASE Advanced(c) \/ Reopened(c) \/ Failed(c) \/ Cancelled(c) \/ Superseded(c) \/ Confirmed(c)
  <2>1. change[c].state \in Waited
    BY <1>1, <1>2, ActiveIs DEF Advanced, Reopened, Failed, Cancelled, Superseded, Confirmed, Waited
  <2> QED BY <1>1, <1>2, <2>1 DEF Advanced, Reopened, Failed, Cancelled, Superseded, Confirmed, ChangeRecord, Expected,
             Waited, ACTIVE_STATES
<1>3. CASE Made(c)
  BY <1>3 DEF Made
<1>4. CASE Removed(c)
  BY <1>4 DEF Removed, Waited, ACTIVE_STATES
<1> QED BY <1>1, <1>2, <1>3, <1>4 DEF Becomes

LEMMA OrderKept == ASSUME Inv, [Next]_vars PROVE ChangesInOrder' /\ LinksInOrder'
<1>1. ChangesInOrder'
  <2>1. CASE RequestEmailChange
    <3>1. /\ NextChange \in Change /\ change[NextChange].state = "NONE"
          /\ \A c \in Change : change[c].state # "NONE" <=> c < NextChange
      BY <2>1, NewEndsOld, NextChangeIs
    <3>2. \A c \in Change : change'[c].state # "NONE" <=> c <= NextChange
      BY <2>1, <3>1, NewEndsOld, StateMoves, BoundsAssumption DEF Change, Made
    <3> QED BY <3>1, <3>2, BoundsAssumption DEF ChangesInOrder, Change
  <2>2. CASE ~RequestEmailChange
    <3>1. PICK n \in 0..MaxChanges : \A c \in Change : change[c].state # "NONE" <=> c <= n
      BY DEF Inv, ChangesInOrder
    <3>2. \A c \in Change : change'[c].state # "NONE" <=> c <= n
      BY <2>2, <3>1, StateMoves DEF Made
    <3> QED BY <3>1, <3>2 DEF ChangesInOrder
  <2> QED BY <2>1, <2>2
<1>2. LinksInOrder'
  <2>1. \A l \in LinkId : link'[l] = link[l] \/ Issued(l) \/ Gone(l)
    BY LinkBecomes
  <2>2. \A l \in LinkId : Gone(l) => link'[l].stage # "none" /\ link[l].stage # "none"
    BY DEF Gone, Inv, TypeOK, LinkRecord
  <2>3. \A l \in LinkId : Issued(l) => link'[l].stage # "none" /\ link[l].stage = "none" /\ l = NextLink
    BY DEF Issued
  <2>4. ASSUME NEW k \in LinkId, Issued(k) PROVE LinksInOrder'
    <3>1. link[MaxLinks].stage = "none" /\ k = NextLink
      <4>1. PICK n \in 0..MaxLinks : \A l \in LinkId : link[l].stage # "none" <=> l <= n
        BY DEF Inv, LinksInOrder
      <4>2. n < k /\ MaxLinks \in LinkId /\ k <= MaxLinks
        BY <2>3, <2>4, <4>1, BoundsAssumption DEF LinkId
      <4> QED BY <2>3, <2>4, <4>1, <4>2, BoundsAssumption DEF LinkId
    <3>2. \A l \in LinkId : link[l].stage # "none" <=> l < k
      BY <3>1, NextLinkIs
    <3>3. \A l \in LinkId : link'[l].stage # "none" <=> l <= k
      BY <2>1, <2>2, <2>3, <2>4, <3>1, <3>2, BoundsAssumption DEF LinkId
    <3> QED BY <3>3, BoundsAssumption DEF LinksInOrder, LinkId
  <2>5. CASE \A l \in LinkId : ~Issued(l)
    BY <2>1, <2>2, <2>5 DEF Inv, LinksInOrder
  <2> QED BY <2>4, <2>5
<1> QED BY <1>1, <1>2

LEMMA ChangesOfDocumentsKept ==
  ASSUME Inv, [Next]_vars PROVE LinksWell' /\ JobsWell' /\ NewIsUndelivered'
<1>1. ASSUME NEW l \in LinkId, link'[l].stage # "none"
      PROVE  link'[l].to \in Address /\ (link'[l].purpose = "email_change" => link'[l].change \in Change)
  <2>1. link'[l] = link[l] \/ Issued(l) \/ Gone(l)
    BY LinkBecomes
  <2>2. CASE Gone(l)
    <3>1. link[l] \in LinkRecord /\ link[l].stage # "none"
      BY <2>2 DEF Inv, TypeOK, Gone
    <3>2. link'[l].to = link[l].to /\ link'[l].purpose = link[l].purpose /\ link'[l].change = link[l].change
      BY <2>2, <3>1 DEF Gone, LinkRecord
    <3> QED BY <3>1, <3>2 DEF Inv, LinksWell
  <2>3. CASE Issued(l)
    <3>1. PICK d \in Delivery :
            /\ CommitIssue(d)
            /\ link'[l] = [purpose |-> PurposeOf(Entry(d).type), stage |-> "unused", change |-> ChangeOf(d),
                           holder |-> delivery[d].to,
                           to |-> IF PurposeOf(Entry(d).type) = "email_change" THEN change[ChangeOf(d)].newEmail
                                  ELSE delivery[d].to]
      BY <2>3 DEF Issued
    <3>2. delivery[d].pc = "insert" /\ PlaceFits(d) /\ SnapshotHolds(d)
      BY <3>1 DEF CommitIssue, Inv
    <3>3. delivery[d].job \in Job /\ Entry(d).state # "NEW" /\ delivery[d].to \in Address
      BY <3>2 DEF PlaceFits, Busy
    <3>4. PurposeOf(Entry(d).type) = "email_change" => Entry(d).type = "link"
      BY DEF PurposeOf
    <3>5. CASE Entry(d).type = "link"
      <4>1. ChangeOf(d) \in Change /\ change[ChangeOf(d)].state # "NONE"
        BY <3>3, <3>5 DEF Inv, JobsWell, ForChange, Entry, ChangeOf
      <4>2. change[ChangeOf(d)].state # "GONE"
        BY <3>2, <3>5 DEF SnapshotHolds
      <4>3. change[ChangeOf(d)].newEmail \in Address
        BY <4>1, <4>2 DEF Inv, AddressesWell, TypeOK, ChangeRecord
      <4> QED BY <3>1, <3>3, <4>1, <4>3
    <3> QED BY <3>1, <3>3, <3>4, <3>5
  <2> QED BY <1>1, <2>1, <2>2, <2>3 DEF Inv, LinksWell
<1>2. ASSUME NEW j \in Job, ForChange(j)' PROVE job'[j].change \in Change /\ change'[job'[j].change].state # "NONE"
  <2>1. (job'[j] = job[j] \/ Written(j) \/ GoesOn(j)) /\ job[j] \in JobRecord
    BY JobBecomes DEF Inv, TypeOK
  <2>2. CASE ForChange(j) /\ job'[j].change = job[j].change
    BY <2>2, StateMoves DEF Inv, JobsWell
  <2>3. CASE Written(j)
    <3>1. CASE /\ RequestEmailChange
               /\ job'[j] = [job[j] EXCEPT !.type = "notice", !.state = "OPEN", !.change = NextChange, !.email = None]
      BY <2>1, <3>1, NewEndsOld, NextChangeIs DEF JobRecord
    <3>2. ASSUME NEW d \in Delivery, Advance(d), Entry(d).type = "notice",
                 job'[j] = [job[j] EXCEPT !.type = "link", !.state = "OPEN", !.change = ChangeOf(d), !.email = None]
          PROVE  job'[j].change \in Change /\ change'[job'[j].change].state # "NONE"
      <4>1. delivery[d].job \in Job /\ Entry(d).state # "NEW"
        BY <3>2 DEF Advance, Inv, PlaceFits, Busy
      <4>2. ChangeOf(d) \in Change /\ change[ChangeOf(d)].state # "NONE"
        BY <3>2, <4>1 DEF Inv, JobsWell, ForChange, Entry, ChangeOf
      <4> QED BY <2>1, <3>2, <4>2, StateMoves DEF JobRecord
    <3>3. ASSUME NEW type \in {"reset", "verify"}, NEW a,
                 job'[j] = [job[j] EXCEPT !.type = type, !.state = "OPEN", !.change = 0, !.email = a]
          PROVE  FALSE
      <4>1. job'[j].type = type
        BY <2>1, <3>3 DEF JobRecord
      <4> QED BY <1>2, <4>1 DEF ForChange
    <3> QED BY <2>3, <3>1, <3>2, <3>3 DEF Written
  <2> QED BY <1>2, <2>1, <2>2, <2>3 DEF ForChange, GoesOn
<1>3. ASSUME NEW j \in Job, job'[j].state = "NEW" PROVE ~job'[j].delivered
  <2>1. (job'[j] = job[j] \/ Written(j) \/ GoesOn(j)) /\ job[j] \in JobRecord
    BY JobBecomes DEF Inv, TypeOK
  <2>2. Written(j) => job'[j].state = "OPEN"
    BY <2>1 DEF Written, JobRecord
  <2> QED BY <1>3, <2>1, <2>2 DEF GoesOn, Inv, NewIsUndelivered
<1> QED BY <1>1, <1>2, <1>3 DEF LinksWell, JobsWell, NewIsUndelivered

\* The account, the change and the entry of a delivery that holds the guard stay as its snapshot showed them.
LEMMA SnapshotKept == ASSUME Inv, [Next]_vars PROVE \A d \in Delivery : SnapshotHolds(d)'
<1> SUFFICES ASSUME NEW d \in Delivery, delivery'[d].pc = "insert" PROVE SnapshotHolds(d)'
  BY DEF SnapshotHolds
<1> DEFINE k == delivery[d].job
<1>1. ASSUME Works(d) PROVE SnapshotHolds(d)'
  <2>1. BeginIssue(d) /\ Active(user) /\ user.email = delivery'[d].to /\ StillWaiting(d) /\ Busy(d) /\ delivery'[d].job = k
    BY <1>1, WorksGo DEF Busy
  <2>2. user' = user /\ change' = change /\ job' = job
    BY <2>1 DEF BeginIssue, account
  <2> QED BY <2>1, <2>2 DEF SnapshotHolds, StillWaiting, Entry, ChangeOf, Active
<1>2. ASSUME delivery'[d] = delivery[d] PROVE SnapshotHolds(d)'
  <2>1. delivery[d].pc = "insert" /\ Busy(d) /\ guard = d /\ guard # None
    BY <1>2, NamesAssumption DEF Busy, Inv, Guarded
  <2>2. /\ k \in Job /\ job[k].state # "NEW" /\ job'[k].state # "NEW"
        /\ job'[k].type = job[k].type /\ job'[k].change = job[k].change
    BY <2>1, EntryKept
  <2>3. Active(user) /\ user.email = delivery[d].to
    BY <2>1 DEF Inv, SnapshotHolds
  <2>4. Active(user') /\ user'.email = user.email
    BY <2>1, <2>3, GuardExcludes
  <2>5. ASSUME job[k].type = "link"
        PROVE  change'[job[k].change].state \notin {"SUPERSEDED", "CONFIRMED", "GONE"}
    <3>1. job[k].change \in Change
      BY <2>2, <2>5 DEF Inv, JobsWell, ForChange
    <3>2. change[job[k].change].state \notin {"SUPERSEDED", "CONFIRMED", "GONE"}
      BY <2>1, <2>5 DEF Inv, SnapshotHolds, Entry, ChangeOf
    <3> QED BY <2>1, <3>1, <3>2, StateMoves, GuardExcludes
  <2> QED BY <1>2, <2>2, <2>3, <2>4, <2>5 DEF SnapshotHolds, Entry, ChangeOf, Active
<1> QED BY <1>1, <1>2, Otherwise

LEMMA AddressedKept == ASSUME Inv, [Next]_vars PROVE \A d \in Delivery : NoticeAddressed(d)'
<1> SUFFICES ASSUME NEW d \in Delivery, delivery'[d].pc = "send", Entry(d)'.type = "notice",
                    change'[ChangeOf(d)'].state \in Waited
             PROVE  delivery'[d].to = user'.email
  BY DEF NoticeAddressed, Waited
<1> DEFINE k == delivery[d].job
<1>1. Busy(d) /\ delivery'[d].job = k
  BY WorksGo, Otherwise DEF Busy
<1>2. /\ k \in Job /\ job[k].state # "NEW" /\ job'[k].state # "NEW"
      /\ job'[k].type = job[k].type /\ job'[k].change = job[k].change
  BY <1>1, EntryKept
<1>3. Entry(d).type = "notice" /\ ChangeOf(d)' = ChangeOf(d)
  BY <1>1, <1>2 DEF Entry, ChangeOf
<1>4. ChangeOf(d) \in Change /\ change[ChangeOf(d)].state # "NONE"
  BY <1>2, <1>3 DEF Inv, JobsWell, ForChange, Entry, ChangeOf
<1>5. change[ChangeOf(d)].state \in Waited
  BY <1>3, <1>4, StateMoves DEF Made
<1>6. user'.email = user.email
  BY <1>3, <1>4, NewEndsOld
<1>7. CASE Works(d)
  BY <1>3, <1>6, <1>7, WorksGo
<1>8. CASE delivery'[d] = delivery[d]
  <2>1. NoticeAddressed(d) /\ delivery[d].pc = "send"
    BY <1>8 DEF Inv
  <2> QED BY <1>3, <1>5, <1>6, <1>8, <2>1 DEF NoticeAddressed
<1> QED BY <1>7, <1>8, Otherwise

LEMMA LatestKept == ASSUME Inv, [Next]_vars PROVE ResumableIsLatest'
<1> SUFFICES ASSUME NEW c \in Change, NEW e \in Change, change'[c].state \in Waited, e > c
             PROVE  change'[e].state = "NONE"
  BY DEF ResumableIsLatest, Waited
<1>1. CASE RequestEmailChange
  <2>1. c = NextChange
    BY <1>1, NewEndsOld
  <2>2. /\ change[e].state = "NONE" /\ e # NextChange
    BY <1>1, <2>1, NewEndsOld, NextChangeIs, BoundsAssumption DEF Change
  <2> QED BY <2>2, StateMoves DEF Made
<1>2. CASE ~RequestEmailChange
  <2>1. change[c].state \in Waited
    BY <1>2, StateMoves DEF Made
  <2>2. change[e].state = "NONE"
    BY <2>1 DEF Inv, ResumableIsLatest
  <2> QED BY <1>2, <2>2, StateMoves DEF Made
<1> QED BY <1>1, <1>2

-----------------------------------------------------------------------------
(* What the links and the notices say.                                         *)

\* What takes links away takes all of them.
LEMMA LinksTaken ==
  ASSUME Inv, [Next]_vars, NEW l \in LinkId, link'[l].stage = "unused"
  PROVE  /\ ~ChangePassword /\ ~Suspend /\ ~Retire
         /\ \A k \in LinkId : ~ConfirmEmailChange(k) /\ ~ResetPassword(k)
         /\ RequestEmailChange => link'[l].purpose # "email_change"
         /\ Issued(l) \/ link'[l] = link[l]
<1>1. link[l] \in LinkRecord /\ link \in [LinkId -> LinkRecord]
  BY DEF Inv, TypeOK
<1>2. ASSUME NEW purposes, link' = CancelTokens(purposes) PROVE link'[l].purpose \notin purposes
  <2>1. \/ link'[l] = link[l] /\ l \notin Unused(purposes)
        \/ link'[l] = [link[l] EXCEPT !.stage = "deleted"]
    BY <1>1, <1>2 DEF CancelTokens, Deleted
  <2>2. [link[l] EXCEPT !.stage = "deleted"].stage = "deleted"
    BY <1>1 DEF LinkRecord
  <2> QED BY <2>1, <2>2 DEF Unused
<1>3. link'[l].purpose \in Purpose
  BY LinkBecomes DEF LinkRecord
<1>4. ASSUME NEW k \in LinkId, link' = Consumed(k) PROVE FALSE
  <2> DEFINE rest == Deleted(Unused(Purpose))
  <2>1. rest[l].stage # "unused" /\ rest \in [LinkId -> LinkRecord]
    <3>1. \A m \in LinkId : [link[m] EXCEPT !.stage = "deleted"] \in LinkRecord
      BY <1>1 DEF LinkRecord
    <3>2. [link[l] EXCEPT !.stage = "deleted"].stage = "deleted" /\ link[l].purpose \in Purpose
      BY <1>1 DEF LinkRecord
    <3> QED BY <1>1, <3>1, <3>2 DEF Deleted, Unused
  <2> HIDE DEF rest
  <2>2. link' = [rest EXCEPT ![k].stage = "used"]
    BY <1>4 DEF Consumed, CancelTokens, rest
  <2>3. l # k => link'[l] = rest[l]
    BY <2>1, <2>2
  <2>4. l = k => link'[l].stage = "used"
    BY <2>1, <2>2 DEF LinkRecord
  <2> QED BY <2>1, <2>3, <2>4
<1>5. ~Retire
  <2>1. ASSUME Retire PROVE (link'[l] = link[l] /\ link[l].stage = "none") \/ link'[l].stage = "deleted"
    <3>1. [link[l] EXCEPT !.stage = "deleted"].stage = "deleted"
      BY <1>1 DEF LinkRecord
    <3> QED BY <1>1, <2>1, <3>1 DEF Retire, Deleted
  <2> QED BY <2>1
<1>6. Issued(l) \/ link'[l] = link[l]
  <2>1. ~Gone(l)
    BY <1>1 DEF Gone, LinkRecord
  <2> QED BY <2>1, LinkBecomes
<1>7. ~ChangePassword /\ ~Suspend
  BY <1>2, <1>3 DEF ChangePassword, Suspend
<1>8. \A k \in LinkId : ~ConfirmEmailChange(k) /\ ~ResetPassword(k)
  BY <1>4 DEF ConfirmEmailChange, ResetPassword
<1>9. RequestEmailChange => link'[l].purpose # "email_change"
  BY <1>2 DEF RequestEmailChange
<1> QED BY <1>5, <1>6, <1>7, <1>8, <1>9

LEMMA LinksFitKept == ASSUME Inv, [Next]_vars PROVE LinkFitsAccount' /\ LinkFitsChange'
<1>1. ASSUME NEW l \in LinkId, link'[l].stage = "unused"
      PROVE  /\ Active(user') /\ link'[l].holder = user'.email
             /\ link'[l].purpose = "email_change" =>
                  change'[link'[l].change].state \notin {"SUPERSEDED", "CONFIRMED", "GONE"}
  <2>1. /\ ~ChangePassword /\ ~Suspend /\ ~Retire
        /\ \A k \in LinkId : ~ConfirmEmailChange(k) /\ ~ResetPassword(k)
        /\ RequestEmailChange => link'[l].purpose # "email_change"
        /\ Issued(l) \/ link'[l] = link[l]
    BY <1>1, LinksTaken
  <2>2. /\ Active(user) => Active(user')
        /\ user'.email = user.email
    <3>1. user \in User
      BY DEF Inv, TypeOK
    <3>2. ASSUME NEW k \in LinkId, VerifyEmail(k) PROVE Active(user') = Active(user) /\ user'.email = user.email
      BY <3>1, <3>2 DEF VerifyEmail, Active, User
    <3>3. ASSUME Reactivate PROVE Active(user') /\ user'.email = user.email
      BY <3>1, <3>3 DEF Reactivate, Active, User
    <3> QED BY <2>1, <3>2, <3>3, UserSteps DEF vars
  <2>3. ASSUME NEW c \in Change, link'[l].purpose = "email_change",
               change[c].state \notin {"SUPERSEDED", "CONFIRMED", "GONE"}
        PROVE  change'[c].state \notin {"SUPERSEDED", "CONFIRMED", "GONE"}
    BY <2>1, <2>3, StateMoves
  <2>4. CASE link'[l] = link[l]
    <3>1. Active(user) /\ link[l].holder = user.email
      BY <1>1, <2>4 DEF Inv, LinkFitsAccount
    <3>2. link[l].purpose = "email_change" =>
            link[l].change \in Change /\ change[link[l].change].state \notin {"SUPERSEDED", "CONFIRMED", "GONE"}
      BY <1>1, <2>4 DEF Inv, LinkFitsChange, LinksWell, Unused
    <3> QED BY <2>2, <2>3, <2>4, <3>1, <3>2
  <2>5. CASE Issued(l)
    <3>1. PICK d \in Delivery :
            /\ CommitIssue(d)
            /\ link'[l] = [purpose |-> PurposeOf(Entry(d).type), stage |-> "unused", change |-> ChangeOf(d),
                           holder |-> delivery[d].to,
                           to |-> IF PurposeOf(Entry(d).type) = "email_change" THEN change[ChangeOf(d)].newEmail
                                  ELSE delivery[d].to]
      BY <2>5 DEF Issued
    <3>2. delivery[d].pc = "insert" /\ PlaceFits(d) /\ SnapshotHolds(d)
      BY <3>1 DEF CommitIssue, Inv
    <3>3. Active(user) /\ user.email = delivery[d].to
      BY <3>2 DEF SnapshotHolds
    <3>4. PurposeOf(Entry(d).type) = "email_change" => Entry(d).type = "link"
      BY DEF PurposeOf
    <3>5. Entry(d).type = "link" =>
            ChangeOf(d) \in Change /\ change[ChangeOf(d)].state \notin {"SUPERSEDED", "CONFIRMED", "GONE"}
      BY <3>2 DEF SnapshotHolds, PlaceFits, Busy, Inv, JobsWell, ForChange, Entry, ChangeOf
    <3> QED BY <2>2, <2>3, <3>1, <3>3, <3>4, <3>5
  <2> QED BY <2>1, <2>4, <2>5
<1> QED BY <1>1 DEF LinkFitsAccount, LinkFitsChange, Unused

\* Mail is kept, and what a delivery adds is a well-formed message.
LEMMA MailKept == ASSUME Inv, [Next]_vars PROVE mail \subseteq mail' /\ mail' \subseteq Message
<1>1. ASSUME NEW d \in Delivery, delivery[d].pc = "send" PROVE MessageOf(d) \in Message
  <2>1. PlaceFits(d) /\ Busy(d) /\ delivery[d] \in DeliveryRecord
    BY <1>1 DEF Inv, TypeOK, Busy
  <2>2. delivery[d].job \in Job /\ Entry(d) \in JobRecord
    BY <2>1 DEF PlaceFits, Inv, TypeOK, Entry
  <2>3. ChangeOf(d) \in 0..MaxChanges /\ delivery[d].job \in Nat /\ delivery[d].run \in Nat /\ delivery[d].link \in Nat
    BY <2>1, <2>2, BoundsAssumption DEF ChangeOf, JobRecord, DeliveryRecord, Job
  <2>4. CASE Entry(d).type = "notice"
    <3>1. delivery[d].to \in Address
      BY <1>1, <2>1 DEF PlaceFits
    <3>2. MessageOf(d) = [kind |-> "notice", id |-> delivery[d].job, run |-> delivery[d].run, change |-> ChangeOf(d),
                          to |-> delivery[d].to]
      BY <2>4 DEF MessageOf
    <3> QED BY <2>3, <3>1, <3>2 DEF Message
  <2>5. CASE Entry(d).type # "notice"
    <3>1. link[delivery[d].link].to \in Address
      BY <1>1, <2>1, <2>5 DEF PlaceFits, Inv, LinksWell
    <3>2. MessageOf(d) = [kind |-> "link", id |-> delivery[d].link, run |-> 0, change |-> ChangeOf(d),
                          to |-> link[delivery[d].link].to]
      BY <2>5 DEF MessageOf
    <3> QED BY <2>3, <3>1, <3>2 DEF Message
  <2> QED BY <2>4, <2>5
<1>2. mail \subseteq Message
  BY DEF Inv, TypeOK
<1>3. ASSUME NEW d \in Delivery, Works(d)
      PROVE  mail' = mail \/ (delivery[d].pc = "send" /\ mail' = mail \cup {MessageOf(d)})
  BY <1>3 DEF Works, DeliveryNext, Claim, Skip, ReadChange, ReadAccount, CancelChange, ReadHolder, RecipientCap,
     BeginIssue, CommitIssue, GiveUp, Send, SendRejected, MarkDelivered, Advance, RecordDone, RecordRetry,
     RecordFailed, RecordStale, Record, FailChange, FailLinks, SendFailsAnyhow, SendFails, DatabaseFails, Dies
<1>4. mail' = mail \/ \E d \in Delivery : delivery[d].pc = "send" /\ mail' = mail \cup {MessageOf(d)}
  BY <1>3, PeopleSteps DEF Next, Works, Load, vars
<1> QED BY <1>1, <1>2, <1>4

LEMMA ToldKept == ASSUME Inv, [Next]_vars PROVE ToldIsNotified'
<1> SUFFICES ASSUME NEW c \in Change, change'[c].state \in Waited, Told(c)' PROVE Notified(c)'
  BY DEF ToldIsNotified, Waited
<1>1. user'.email = user.email
  BY NewEndsOld
<1>2. Notified(c) => Notified(c)'
  BY <1>1, MailKept DEF Notified
<1>3. change[c].state \in Waited => (Told(c) => Notified(c))
  BY DEF Inv, ToldIsNotified
<1>4. TypeOK /\ change[c] \in ChangeRecord /\ Becomes(c)
  BY ChangeBecomes DEF Inv, TypeOK
\* A delivery and what it means for c: a notice it carries is of c.
<1>5. ASSUME NEW d \in Delivery, Busy(d), ChangeOf(d) = c, Entry(d).type = "notice", change[c].state \in Waited,
             delivery[d].pc \in {"delivered", "advance"} \/ delivery[d].delivered
      PROVE  Notified(c)'
  BY <1>2, <1>3, <1>5 DEF Told
<1>6. ASSUME NEW j \in Job, ForChange(j), job[j].change = c, job[j].type = "link" \/ job[j].delivered,
             change[c].state \in Waited
      PROVE  Notified(c)'
  BY <1>2, <1>3, <1>6 DEF Told
<1>7. ASSUME NEW d \in Delivery, Busy(d), ChangeOf(d) = c, Entry(d).type = "link", change[c].state \in Waited
      PROVE  Notified(c)'
  BY <1>6, <1>7 DEF Inv, PlaceFits, Entry, ChangeOf, ForChange
\* The state says so.
<1>8. ASSUME change'[c].state \in {"NOTICE_SENT", "LINK_SENT"}, change[c].state \in Waited PROVE Notified(c)'
  <2>1. CASE change'[c] = change[c]
    BY <1>2, <1>3, <1>8, <2>1 DEF Told
  <2>2. CASE Advanced(c)
    <3>1. PICK d \in Delivery : Advance(d) /\ ChangeOf(d) = c /\ change[c].state = Expected(Entry(d).type)
      BY <2>2 DEF Advanced
    <3>2. Busy(d) /\ delivery[d].pc = "advance" /\ Entry(d).type \in {"notice", "link"}
      BY <3>1 DEF Advance, Busy, Inv, PlaceFits
    <3> QED BY <1>5, <1>7, <1>8, <3>1, <3>2
  <2>3. CASE Reopened(c)
    <3>1. PICK j \in Job : /\ ForChange(j) /\ job[j].change = c
                           /\ change'[c] = [change[c] EXCEPT !.state = Expected(job[j].type), !.active = TRUE]
      BY <2>3 DEF Reopened
    <3>2. job[j].type = "link"
      BY <1>4, <1>8, <3>1 DEF ForChange, Expected, ChangeRecord
    <3> QED BY <1>6, <1>8, <3>1, <3>2
  <2>4. CASE Failed(c) \/ Cancelled(c) \/ Superseded(c) \/ Confirmed(c)
    <3>1. \E state \in END_STATES : change'[c] = [change[c] EXCEPT !.state = state, !.active = FALSE]
      BY <2>4 DEF Failed, Cancelled, Superseded, Confirmed, END_STATES
    <3>2. change'[c].state \in END_STATES
      BY <1>4, <3>1 DEF ChangeRecord
    <3> QED BY <1>8, <3>2 DEF END_STATES
  <2>5. CASE Removed(c) \/ Made(c)
    BY <1>8, <2>5 DEF Removed, Made
  <2> QED BY <1>4, <2>1, <2>2, <2>3, <2>4, <2>5 DEF Becomes
\* An entry says so.
<1>9. ASSUME NEW j \in Job, ForChange(j)', job'[j].change = c, job'[j].type = "link" \/ job'[j].delivered,
             change[c].state \in Waited
      PROVE  Notified(c)'
  <2>1. (job'[j] = job[j] \/ Written(j) \/ GoesOn(j)) /\ job[j] \in JobRecord
    BY JobBecomes DEF Inv, TypeOK
  <2>2. CASE job'[j] = job[j]
    BY <1>6, <1>9, <2>2 DEF ForChange
  <2>3. CASE GoesOn(j)
    <3>1. CASE job'[j].type = "link" \/ job[j].delivered
      BY <1>6, <1>9, <2>3, <3>1 DEF GoesOn, ForChange
    <3>2. CASE job'[j].type = "notice" /\ ~job[j].delivered
      <4>1. PICK d \in Delivery : Busy(d) /\ delivery[d].pc = "delivered" /\ delivery[d].job = j
        BY <1>9, <2>3, <3>2 DEF GoesOn
      <4> QED BY <1>5, <1>9, <2>3, <3>2, <4>1 DEF GoesOn, Entry, ChangeOf
    <3> QED BY <1>9, <3>1, <3>2 DEF ForChange
  <2>4. CASE Written(j)
    <3>1. ~job'[j].delivered
      BY <2>1, <2>4 DEF Written, JobRecord, Inv, NewIsUndelivered
    <3>2. PICK d \in Delivery :
            /\ Advance(d) /\ Entry(d).type = "notice"
            /\ job'[j] = [job[j] EXCEPT !.type = "link", !.state = "OPEN", !.change = ChangeOf(d), !.email = None]
      BY <1>9, <2>1, <2>4, <3>1 DEF Written, JobRecord
    <3>3. ChangeOf(d) = c
      BY <1>9, <2>1, <3>2 DEF JobRecord
    <3> QED BY <1>5, <1>9, <3>2, <3>3 DEF Advance, Busy
  <2> QED BY <2>1, <2>2, <2>3, <2>4
\* A delivery says so.
<1>10. ASSUME NEW d \in Delivery, Busy(d)', Entry(d)'.type = "notice", ChangeOf(d)' = c,
              delivery'[d].pc \in {"delivered", "advance"} \/ delivery'[d].delivered,
              change[c].state \in Waited
       PROVE  Notified(c)'
  <2> DEFINE k == delivery[d].job
  <2>1. ASSUME Busy(d), delivery'[d].job = k
        PROVE  Entry(d).type = "notice" /\ ChangeOf(d) = c
    BY <1>10, <2>1, EntryKept DEF Entry, ChangeOf
  <2>2. CASE delivery'[d] = delivery[d]
    BY <1>5, <1>10, <2>1, <2>2 DEF Busy
  <2>3. CASE Works(d)
    <3>1. Busy(d) /\ delivery'[d].job = k /\ delivery'[d].delivered = delivery[d].delivered
      BY <1>10, <2>3, WorksGo DEF Busy
    <3>2. Entry(d).type = "notice" /\ ChangeOf(d) = c
      BY <2>1, <3>1
    <3>3. CASE delivery[d].delivered \/ delivery[d].pc \in {"delivered", "advance"}
      BY <1>5, <1>10, <3>1, <3>2, <3>3
    <3>4. CASE delivery'[d].pc = "delivered"
      <4>1. Send(d) /\ delivery[d].pc = "send"
        BY <2>3, <3>4, WorksGo DEF Send
      <4>2. delivery[d].to = user.email
        BY <1>10, <3>2, <4>1 DEF Inv, NoticeAddressed
      <4>3. MessageOf(d).kind = "notice" /\ MessageOf(d).change = c /\ MessageOf(d).to = user.email
        BY <3>2, <4>2 DEF MessageOf
      <4>4. MessageOf(d) \in mail'
        BY <4>1 DEF Send
      <4> QED BY <1>1, <4>3, <4>4 DEF Notified
    <3> QED BY <1>10, <2>3, <3>1, <3>3, <3>4, WorksGo
  <2>4. ASSUME NEW j \in Job, delivery'[d].pc = "claim", delivery'[d].job = j, delivery'[d].delivered = job[j].delivered,
               job[j].state = "OPEN", Load(j)
        PROVE  Notified(c)'
    <3>1. job' = job
      BY <2>4 DEF Load
    <3> QED BY <1>6, <1>10, <2>4, <3>1 DEF Entry, ChangeOf, ForChange
  <2> QED BY <2>2, <2>3, <2>4, Otherwise
\* A new change has been told nobody.
<1>11. CASE Made(c)
  <2>1. change[c].state = "NONE" /\ change'[c].state = "NOTICE_PENDING" /\ RequestEmailChange
    BY <1>11 DEF Made
  <2>2. \A j \in Job : ForChange(j) => job[j].change # c
    BY <2>1 DEF Inv, JobsWell
  <2>3. ASSUME NEW j \in Job, ForChange(j)', job'[j].change = c PROVE job'[j].type = "notice" /\ ~job'[j].delivered
    <3>1. (job'[j] = job[j] \/ Written(j) \/ GoesOn(j)) /\ job[j] \in JobRecord
      BY JobBecomes DEF Inv, TypeOK
    <3>2. Written(j)
      BY <2>2, <2>3, <3>1 DEF GoesOn, ForChange
    <3>3. ~job'[j].delivered
      BY <3>1, <3>2 DEF Written, JobRecord, Inv, NewIsUndelivered
    <3>4. job'[j].type \in {"notice", "link"}
      BY <2>3 DEF ForChange
    <3>5. ASSUME NEW d \in Delivery, Advance(d), Entry(d).type = "notice",
                 job'[j] = [job[j] EXCEPT !.type = "link", !.state = "OPEN", !.change = ChangeOf(d), !.email = None]
          PROVE  FALSE
      <4>1. ChangeOf(d) = c
        BY <2>3, <3>1, <3>5 DEF JobRecord
      <4> QED BY <2>2, <3>5, <4>1 DEF Advance, Inv, PlaceFits, Busy, ForChange, Entry, ChangeOf
    <3> QED BY <3>1, <3>2, <3>3, <3>4, <3>5 DEF Written, JobRecord
  <2>4. ASSUME NEW d \in Delivery, Busy(d)', Entry(d)'.type = "notice", ChangeOf(d)' = c PROVE FALSE
    <3>1. delivery'[d] = delivery[d]
      BY <2>1, PeopleSteps
    <3>2. Busy(d)
      BY <2>4, <3>1 DEF Busy
    <3>3. Entry(d).type = "notice" /\ ChangeOf(d) = c /\ delivery[d].job \in Job /\ job[delivery[d].job].state # "NEW"
      BY <2>4, <3>1, <3>2, EntryKept DEF Entry, ChangeOf
    <3> QED BY <2>2, <3>3 DEF ForChange, Entry, ChangeOf
  <2> QED BY <2>1, <2>3, <2>4 DEF Told
<1>12. change[c].state \in Waited \/ Made(c)
  BY StateMoves
<1> QED BY <1>8, <1>9, <1>10, <1>11, <1>12 DEF Told

-----------------------------------------------------------------------------
(* The invariant.                                                              *)

LEMMA TypeKept == ASSUME Inv, [Next]_vars PROVE TypeOK'
<1>1. TypeOK
  BY DEF Inv
<1>2. \A d \in Delivery : Works(d) => guard' \in Delivery \cup {None} /\ delivery' \in [Delivery -> DeliveryRecord]
  BY <1>1, WorksGo, WorksMoves DEF TypeOK, Moves
<1>3. ASSUME NEW j \in Job, Load(j) PROVE guard' = guard /\ delivery' \in [Delivery -> DeliveryRecord]
  <2>1. \E d \in Delivery, x \in DeliveryRecord : delivery' = [delivery EXCEPT ![d] = x]
    BY <1>3, LoadMoves DEF Moves
  <2> QED BY <1>1, <1>3, <2>1 DEF TypeOK, Load
<1>4. guard' \in Delivery \cup {None} /\ delivery' \in [Delivery -> DeliveryRecord]
  BY <1>1, <1>2, <1>3, PeopleSteps DEF Next, Works, TypeOK, vars
<1>5. ASSUME NEW d \in Delivery, Works(d) PROVE taken' = taken /\ asking' = asking /\ faults' \in Nat
  BY <1>1, <1>5 DEF TypeOK, Fault, account, Works, DeliveryNext, Claim, Skip, ReadChange, ReadAccount, CancelChange,
     ReadHolder, RecipientCap, BeginIssue, CommitIssue, GiveUp, Send, SendRejected, MarkDelivered, Advance, RecordDone,
     RecordRetry, RecordFailed, RecordStale, Record, FailChange, FailLinks, SendFailsAnyhow, SendFails,
     DatabaseFails, Dies
<1>6. ASSUME People \/ RequestEmailChange
      PROVE  taken' \subseteq Address /\ asking' \in Address \cup {None}
  BY <1>1, <1>6 DEF TypeOK, account, People, RequestEmailChange, AskForChange, ForgotPassword, SignUp, RefuseChange,
     ChangePassword, QueueVerification, ConfirmEmailChange, ResetPassword, VerifyEmail, Suspend, Reactivate,
     Retire, RetryJob, DismissJob
<1>7. taken' \subseteq Address /\ asking' \in Address \cup {None} /\ faults' \in Nat
  BY <1>1, <1>5, <1>6, PeopleSteps DEF Next, Works, Load, TypeOK, vars, account
<1>8. ASSUME NEW c \in Change PROVE change'[c].active <=> change'[c].state \in ACTIVE_STATES
  <2>1. Becomes(c) /\ change[c] \in ChangeRecord /\ (change[c].active <=> change[c].state \in ACTIVE_STATES)
    BY <1>1, ChangeBecomes DEF TypeOK
  <2>2. CASE Advanced(c) \/ Reopened(c)
    <3>1. \E state \in ACTIVE_STATES : \/ change'[c] = [change[c] EXCEPT !.state = state, !.active = TRUE]
                                       \/ change[c].active /\ change'[c] = [change[c] EXCEPT !.state = state]
      BY <2>2 DEF Advanced, Reopened, Expected, ACTIVE_STATES
    <3> QED BY <2>1, <3>1 DEF ChangeRecord
  <2>3. CASE Failed(c) \/ Cancelled(c) \/ Superseded(c) \/ Confirmed(c)
    <3>1. \E state \in END_STATES : change'[c] = [change[c] EXCEPT !.state = state, !.active = FALSE]
      BY <2>3 DEF Failed, Cancelled, Superseded, Confirmed, END_STATES
    <3> QED BY <2>1, <3>1 DEF ChangeRecord, END_STATES, ACTIVE_STATES
  <2>4. CASE Made(c) \/ Removed(c)
    BY <2>4 DEF Made, Removed, ACTIVE_STATES
  <2> QED BY <2>1, <2>2, <2>3, <2>4 DEF Becomes
<1> QED BY <1>4, <1>7, <1>8, AddressesWellKept, ChangeBecomes, LinkBecomes, JobBecomes, MailKept DEF TypeOK

LEMMA InitInv == Init => Inv
<1> SUFFICES ASSUME Init PROVE Inv
  OBVIOUS
<1> USE BoundsAssumption, NamesAssumption DEF Init
<1>1. TypeOK
  <2>1. Free \in DeliveryRecord
    BY DEF Free, DeliveryRecord
  <2>2. user \in User
    BY DEF User
  <2>3. change \in [Change -> ChangeRecord] /\ \A c \in Change : change[c].active <=> change[c].state \in ACTIVE_STATES
    BY DEF ChangeRecord, ACTIVE_STATES
  <2>4. link \in [LinkId -> LinkRecord]
    BY DEF LinkRecord, Purpose
  <2>5. job \in [Job -> JobRecord]
    BY DEF JobRecord
  <2> QED BY <2>1, <2>2, <2>3, <2>4, <2>5 DEF TypeOK
<1>2. AddressesWell /\ LinksWell /\ JobsWell /\ NewIsUndelivered
  BY DEF AddressesWell, LinksWell, JobsWell, NewIsUndelivered, ForChange
<1>3. ChangesInOrder /\ LinksInOrder
  <2>1. 0 \in 0..MaxChanges /\ 0 \in 0..MaxLinks
    OBVIOUS
  <2> QED BY <2>1 DEF ChangesInOrder, LinksInOrder, Change, LinkId
<1>4. Guarded /\ \A d \in Delivery : PlaceFits(d) /\ SnapshotHolds(d) /\ NoticeAddressed(d)
  BY DEF Guarded, PlaceFits, SnapshotHolds, NoticeAddressed, Busy, Free
<1>5. ResumableIsLatest /\ LinkFitsAccount /\ LinkFitsChange /\ ToldIsNotified
  BY DEF ResumableIsLatest, LinkFitsAccount, LinkFitsChange, ToldIsNotified, Waited, ACTIVE_STATES, Unused
<1> QED BY <1>1, <1>2, <1>3, <1>4, <1>5 DEF Inv

LEMMA NextInv == Inv /\ [Next]_vars => Inv'
BY TypeKept, AddressesWellKept, OrderKept, ChangesOfDocumentsKept, GuardedKept, PlaceFitsKept, SnapshotKept,
   AddressedKept, LatestKept, LinksFitKept, ToldKept DEF Inv

\* What is always true of an account, its changes, links and emails, whatever is asked for and whatever
\* fails (emailChangeState.js, accountTokenService.js, emailJobs.js).
THEOREM InvIsKept == Spec => []Inv
BY InitInv, NextInv, PTL DEF Spec

-----------------------------------------------------------------------------
(* The properties.                                                             *)

\* What links and failed changes there are fit their account and its latest change (emailJobs.js:81-93).
THEOREM LinksAlwaysFit == Spec => []LinksFit
<1>1. Inv => LinksFit
  BY DEF Inv, LinksFit, FailedIsLatest, ResumableIsLatest, Waited
<1> QED BY <1>1, InvIsKept, PTL

\* The address of the account moves only after a notice of that very change was accepted for the old
\* address (emailChangeService.js:18-22).
THEOREM NoticeComesFirst == Spec => NoticeFirst
<1>1. Inv /\ [Next]_vars => [MovesAfterNotice]_vars
  <2> SUFFICES ASSUME Inv, Next, user'.email \notin {user.email, None}
               PROVE  \E m \in mail : /\ m.kind = "notice" /\ m.to = user.email
                                      /\ change[m.change].newEmail = user'.email
                                      /\ change[m.change].active
    BY DEF MovesAfterNotice
  <2>1. user \in User
    BY DEF Inv, TypeOK
  <2>2. PICK l \in LinkId : ConfirmEmailChange(l)
    BY <2>1, UserSteps DEF VerifyEmail, Suspend, Reactivate, Retire, User
  <2> DEFINE c == link[l].change
  <2>3. c \in Change /\ change[c].active /\ change[c].state \in {"NOTICE_SENT", "LINK_SENT"}
    BY <2>2 DEF ConfirmEmailChange, Unused, Inv, LinksWell
  <2>4. user'.email = change[c].newEmail
    BY <2>1, <2>2 DEF ConfirmEmailChange, User
  <2>5. Notified(c)
    BY <2>3 DEF Inv, ToldIsNotified, Told, Waited, ACTIVE_STATES
  <2> QED BY <2>3, <2>4, <2>5 DEF Notified
<1> QED BY <1>1, InvIsKept, PTL DEF Spec, NoticeFirst

-----------------------------------------------------------------------------
(* A notice once in a run.                                                     *)

\* A key stands for one notice: the provider takes no other under it.
KeysStand ==
  \A m, n \in mail : m.kind = "notice" /\ n.kind = "notice" /\ m.id = n.id /\ m.run = n.run => m = n

\* Notices and deliveries are of runs that their entry has reached.
RunsPast ==
  /\ \A m \in mail : m.kind = "notice" => m.id \in Job /\ m.run <= job[m.id].run
  /\ \A d \in Delivery : Busy(d) => delivery[d].run <= job[delivery[d].job].run

NoticeInv == Inv /\ KeysStand /\ RunsPast

\* Only a retry by an administrator changes the run of an entry, and it begins a later one.
LEMMA RunsAdvance ==
  ASSUME Inv, [Next]_vars, NEW j \in Job
  PROVE  job[j].run \in Nat /\ job'[j].run \in Nat /\ job[j].run <= job'[j].run
<1>1. job \in [Job -> JobRecord] /\ job[j] \in JobRecord /\ job[j].run \in Nat
  BY DEF Inv, TypeOK, JobRecord
<1>2. job'[j].run \in Nat
  BY JobBecomes DEF JobRecord
<1>3. ASSUME NEW type, NEW c, NEW a, job' = Enqueued(type, c, a) PROVE job'[j].run = job[j].run
  BY <1>1, <1>3 DEF Enqueued, JobRecord
<1>4. CASE RequestEmailChange \/ QueueVerification \/ \E a \in Address : ForgotPassword(a)
  BY <1>1, <1>3, <1>4 DEF RequestEmailChange, QueueVerification, ForgotPassword
<1>5. ASSUME NEW i \in Job, RetryJob(i) PROVE job[j].run <= job'[j].run
  <2>1. job'[j].run = IF i = j THEN job[j].run + 1 ELSE job[j].run
    BY <1>1, <1>5 DEF RetryJob, JobRecord
  <2> QED BY <1>1, <2>1
<1>6. ASSUME NEW i \in Job, DismissJob(i) PROVE job'[j].run = job[j].run
  BY <1>1, <1>6 DEF DismissJob, JobRecord
<1>7. ASSUME NEW d \in Delivery, Claim(d) \/ MarkDelivered(d) PROVE job'[j].run = job[j].run
  BY <1>1, <1>7 DEF Claim, MarkDelivered, JobRecord
<1>8. ASSUME NEW d \in Delivery, Advance(d) PROVE job'[j].run = job[j].run
  BY <1>1, <1>3, <1>8 DEF Advance
<1>9. ASSUME NEW d \in Delivery, NEW state, Record(d, state) PROVE job'[j].run = job[j].run
  BY <1>1, <1>9 DEF Record, JobRecord
<1>10. ASSUME NEW d \in Delivery, RecordDone(d) \/ RecordRetry(d) \/ RecordFailed(d) PROVE job'[j].run = job[j].run
  BY <1>9, <1>10 DEF RecordDone, RecordRetry, RecordFailed
<1>11. UNCHANGED vars => job'[j].run = job[j].run
  BY DEF vars
<1> QED BY <1>1, <1>2, <1>4, <1>5, <1>6, <1>7, <1>8, <1>10, <1>11, JobSteps

\* A delivery keeps its entry and its run, or takes those of an entry it loads.
LEMMA RunKept ==
  ASSUME Inv, [Next]_vars, NEW d \in Delivery, Busy(d)'
  PROVE  \/ Busy(d) /\ delivery'[d].job = delivery[d].job /\ delivery'[d].run = delivery[d].run
         \/ delivery'[d].job \in Job /\ delivery'[d].run = job[delivery'[d].job].run
<1>1. delivery \in [Delivery -> DeliveryRecord] /\ delivery[d] \in DeliveryRecord
  BY DEF Inv, TypeOK
<1>2. CASE Works(d)
  <2>1. Frees(d) => ~Busy(d)'
    BY <1>1 DEF Frees, Free, Busy
  <2>2. ASSUME NEW pc, Goto(d, pc) PROVE delivery'[d].run = delivery[d].run
    BY <1>1, <2>2 DEF Goto, DeliveryRecord
  <2>3. ASSUME NEW outcome, Ends(d, outcome) PROVE delivery'[d].run = delivery[d].run
    BY <1>1, <2>3 DEF Ends, DeliveryRecord
  <2> DEFINE Kept == delivery'[d].run = delivery[d].run
  <2>4. ASSUME \/ Claim(d) \/ Skip(d) \/ RecordDone(d) \/ RecordRetry(d) \/ RecordFailed(d) \/ RecordStale(d) \/ Dies(d)
               \/ FailChange(d) \/ FailLinks(d) \/ DatabaseFails(d)
        PROVE  Kept
    BY <2>1, <2>2, <2>3, <2>4 DEF Claim, Skip, RecordDone, RecordRetry, RecordFailed, RecordStale, Dies, FailChange,
       FailLinks, DatabaseFails
  <2>5. ASSUME \/ ReadChange(d) \/ CancelChange(d) \/ RecipientCap(d) \/ GiveUp(d) \/ Send(d) \/ SendRejected(d)
               \/ SendFailsAnyhow(d) \/ MarkDelivered(d) \/ Advance(d)
        PROVE  Kept
    BY <2>2, <2>3, <2>5 DEF ReadChange, CancelChange, RecipientCap, GiveUp, Send, SendRejected, SendFailsAnyhow,
       SendFails, MarkDelivered, Advance
  <2>6. ASSUME ReadAccount(d) \/ ReadHolder(d) PROVE Kept
    BY <1>1, <2>2, <2>3, <2>6 DEF ReadAccount, ReadHolder, DeliveryRecord
  <2>7. ASSUME BeginIssue(d) \/ CommitIssue(d) PROVE Kept
    BY <1>1, <2>2, <2>3, <2>7 DEF BeginIssue, CommitIssue, DeliveryRecord
  <2>8. Kept
    BY <1>2, <2>1, <2>4, <2>5, <2>6, <2>7 DEF Works, DeliveryNext
  <2> QED BY <1>2, <2>8, WorksGo
<1>3. CASE ~Works(d)
  <2>1. ASSUME NEW j \in Job, Load(j), delivery'[d].pc = "claim", delivery[d] = Free
        PROVE  delivery'[d].job = j /\ delivery'[d].run = job[j].run
    <3>1. PICK e \in Delivery :
             Moves(e, [Free EXCEPT !.pc = "claim", !.job = j, !.run = job[j].run, !.attempts = job[j].attempts,
                                   !.delivered = job[j].delivered])
      BY <2>1, LoadMoves
    <3>2. e = d
      BY <1>1, <2>1, <3>1 DEF Moves, Free
    <3> QED BY <1>1, <3>1, <3>2 DEF Moves, Free
  <2>2. CASE delivery'[d] = delivery[d]
    BY <2>2 DEF Busy
  <2> QED BY <1>3, <2>1, <2>2, Otherwise
<1> QED BY <1>2, <1>3

\* What is sent is acceptable, and nothing else is added to the mail.
LEMMA MailGrows ==
  ASSUME Inv, [Next]_vars
  PROVE  \/ mail' = mail
         \/ \E d \in Delivery : /\ delivery[d].pc = "send" /\ Acceptable(MessageOf(d))
                                /\ mail' = mail \cup {MessageOf(d)}
<1>1. ASSUME NEW d \in Delivery, Works(d)
      PROVE  \/ mail' = mail
             \/ delivery[d].pc = "send" /\ Acceptable(MessageOf(d)) /\ mail' = mail \cup {MessageOf(d)}
  BY <1>1 DEF Works, DeliveryNext, Claim, Skip, ReadChange, ReadAccount, CancelChange, ReadHolder, RecipientCap,
     BeginIssue, CommitIssue, GiveUp, Send, SendRejected, MarkDelivered, Advance, RecordDone, RecordRetry,
     RecordFailed, RecordStale, Record, FailChange, FailLinks, SendFailsAnyhow, SendFails, DatabaseFails, Dies
<1> QED BY <1>1, PeopleSteps DEF Next, Works, Load, vars

LEMMA NoticeStep == NoticeInv /\ [Next]_vars => NoticeInv'
<1> SUFFICES ASSUME NoticeInv, [Next]_vars PROVE NoticeInv'
  OBVIOUS
<1>1. Inv /\ Inv' /\ KeysStand /\ RunsPast
  BY NextInv DEF NoticeInv
<1>2. ASSUME NEW d \in Delivery, Busy(d)' PROVE delivery'[d].run <= job'[delivery'[d].job].run
  <2>1. CASE Busy(d) /\ delivery'[d].job = delivery[d].job /\ delivery'[d].run = delivery[d].run
    <3>1. delivery[d].job \in Job /\ delivery[d].run \in Nat
      BY <1>1, <2>1, EntryKept DEF DeliveryRecord
    <3>2. delivery[d].run <= job[delivery[d].job].run
      BY <1>1, <2>1 DEF RunsPast
    <3> QED BY <1>1, <2>1, <3>1, <3>2, RunsAdvance
  <2>2. CASE delivery'[d].job \in Job /\ delivery'[d].run = job[delivery'[d].job].run
    BY <1>1, <2>2, RunsAdvance
  <2> QED BY <1>1, <1>2, <2>1, <2>2, RunKept
<1>3. mail \subseteq Message
  BY <1>1 DEF Inv, TypeOK
<1>4. ASSUME NEW m \in mail, m.kind = "notice" PROVE m.id \in Job /\ m.run <= job'[m.id].run
  <2>1. m.id \in Job /\ m.run <= job[m.id].run /\ m.run \in Nat
    BY <1>1, <1>3, <1>4 DEF RunsPast, Message
  <2> QED BY <1>1, <2>1, RunsAdvance
<1>5. CASE mail' = mail
  BY <1>1, <1>2, <1>4, <1>5 DEF NoticeInv, KeysStand, RunsPast
<1>6. ASSUME NEW d \in Delivery, delivery[d].pc = "send", Acceptable(MessageOf(d)), mail' = mail \cup {MessageOf(d)}
      PROVE  KeysStand' /\ RunsPast'
  <2> DEFINE new == MessageOf(d)
  <2>1. delivery[d].job \in Job /\ delivery[d].run \in Nat /\ delivery[d].run <= job[delivery[d].job].run
    BY <1>1, <1>6, EntryKept DEF Busy, RunsPast, DeliveryRecord
  <2>2. new.kind = "notice" => new.id = delivery[d].job /\ new.run = delivery[d].run
    BY DEF MessageOf
  <2>3. new.kind = "notice" => new.id \in Job /\ new.run <= job'[new.id].run
    BY <1>1, <2>1, <2>2, RunsAdvance
  <2>4. \A m \in mail : m.kind = new.kind /\ m.id = new.id /\ m.run = new.run => m = new
    BY <1>6 DEF Acceptable, SameKey
  <2> HIDE DEF new
  <2>5. KeysStand'
    BY <1>1, <1>6, <2>4 DEF KeysStand, new
  <2>6. RunsPast'
    BY <1>2, <1>4, <1>6, <2>3 DEF RunsPast, new
  <2> QED BY <2>5, <2>6
<1> QED BY <1>1, <1>5, <1>6, MailGrows DEF NoticeInv

\* As many notices as runs: their runs are the numbers up to the present one, each at most once.
LEMMA NoticesCounted == NoticeInv => NoticeOncePerRun
<1> SUFFICES ASSUME NoticeInv, NEW j \in Job
             PROVE  Cardinality({m \in mail : m.kind = "notice" /\ m.id = j}) <= job[j].run + 1
  BY DEF NoticeOncePerRun
<1> DEFINE Notices == {m \in mail : m.kind = "notice" /\ m.id = j}
           Runs == 0..job[j].run
           runOf == [m \in Notices |-> m.run]
<1>1. job[j].run \in Nat /\ mail \subseteq Message
  BY DEF NoticeInv, Inv, TypeOK, JobRecord
<1>2. IsFiniteSet(Runs) /\ Cardinality(Runs) = job[j].run + 1
  BY <1>1, FS_Interval, SMTT(60)
<1>3. runOf \in [Notices -> Runs]
  BY <1>1 DEF NoticeInv, RunsPast, Message
<1>4. \A m, n \in Notices : runOf[m] = runOf[n] => m = n
  BY DEF NoticeInv, KeysStand
<1>5. runOf \in Injection(Notices, Runs)
  BY <1>3, <1>4 DEF Injection, IsInjective
<1> QED BY <1>2, <1>5, FS_Injection

\* However often it is tried, taken over or stopped, each run of a notice's job reaches the old address
\* once at most: its key is that of the run, and the provider takes one message under a key
\* (emailJobs.js:16-31).
THEOREM NoticesAreOnce == Spec => []NoticeOncePerRun
<1>1. Init => NoticeInv
  BY InitInv DEF Init, NoticeInv, KeysStand, RunsPast, Busy, Free
<1> QED BY <1>1, NoticeStep, NoticesCounted, PTL DEF Spec

-----------------------------------------------------------------------------
(* The promise.                                                                *)

\* AddressChange sees the latest change, n, and of no other anything.
Seen(n) ==
  /\ n \in 0..MaxChanges /\ Latest = n
  /\ \A c \in Change : change[c].state # "NONE" <=> c <= n
  /\ n \in Change /\ change[n].state \in Waited => Wanted = change[n].newEmail
  /\ ~(n \in Change /\ change[n].state \in Waited) => Wanted = None
  /\ n \in Change /\ change[n].active =>
       UnderWay = [id |-> n, wanted |-> change[n].newEmail, stage |-> StageOf(n)]
  /\ ~(n \in Change /\ change[n].active) => UnderWay = [id |-> 0, stage |-> "none", wanted |-> None]

LEMMA LatestSeen == Inv => \E n \in 0..MaxChanges : Seen(n)
<1> SUFFICES ASSUME Inv PROVE \E n \in 0..MaxChanges : Seen(n)
  OBVIOUS
<1>1. PICK n \in 0..MaxChanges : \A c \in Change : change[c].state # "NONE" <=> c <= n
  BY DEF Inv, ChangesInOrder
<1>2. Latest = n
  <2>1. {c \in Change : change[c].state # "NONE"} = 1..n
    BY <1>1, BoundsAssumption DEF Change
  <2>2. Cardinality(1..n) = n
    BY <1>1, FS_Interval, BoundsAssumption
  <2> QED BY <2>1, <2>2 DEF Latest
<1>3. Resumable = {c \in Change : change[c].state \in Waited}
  BY DEF Resumable, Waited
<1>4. ASSUME NEW c \in Change, change[c].state \in Waited PROVE c = n
  <2>1. c <= n /\ change[c].state # "NONE"
    BY <1>1, <1>4 DEF Waited, ACTIVE_STATES
  <2>2. n \in Change
    BY <2>1, BoundsAssumption DEF Change
  <2>3. ~(n > c)
    BY <1>1, <1>4, <2>2, BoundsAssumption DEF Inv, ResumableIsLatest, Change
  <2> QED BY <2>1, <2>3, BoundsAssumption DEF Change
<1>5. \A c \in Open : c = n /\ change[c].state \in Waited
  BY <1>4, ActiveIs DEF Open, Inv
<1>6. n \in Change /\ change[n].active => Open = {n}
  BY <1>5 DEF Open
<1>7. ~(n \in Change /\ change[n].active) => Open = {}
  BY <1>5 DEF Open
<1>8. n \in Change /\ change[n].active =>
       UnderWay = [id |-> n, wanted |-> change[n].newEmail, stage |-> StageOf(n)]
  BY <1>6 DEF UnderWay
<1>9. ~(n \in Change /\ change[n].active) => UnderWay = [id |-> 0, stage |-> "none", wanted |-> None]
  BY <1>7 DEF UnderWay
<1> QED BY <1>1, <1>2, <1>3, <1>8, <1>9 DEF Seen, Wanted

LEMMA LatestSeenNext == Inv' => (\E n \in 0..MaxChanges : Seen(n))'
BY LatestSeen, PTL

\* Every step of the account, its changes and its jobs is a step of the promise, or none.
LEMMA StepKeepsPromise == Inv /\ Inv' /\ [Next]_vars => [Promise!Next]_(Promise!vars)
<1> SUFFICES ASSUME Inv, Inv', [Next]_vars PROVE Promise!Next \/ UNCHANGED Promise!vars
  OBVIOUS
<1>1. PICK n \in 0..MaxChanges : Seen(n)
  BY LatestSeen
<1>2. PICK m \in 0..MaxChanges : Seen(m)'
  BY LatestSeenNext
<1>3. TypeOK /\ \A c \in Change : change[c] \in ChangeRecord /\ change'[c] \in ChangeRecord
  BY ChangeBecomes DEF Inv, TypeOK
<1>4. n \in Nat /\ m \in Nat
  BY BoundsAssumption
<1>5. CASE RequestEmailChange
  <2>1. /\ NextChange \in Change /\ change[NextChange].state = "NONE"
        /\ \A c \in Change : change[c].state # "NONE" <=> c < NextChange
        /\ change'[NextChange].state = "NOTICE_PENDING"
    BY <1>5, NewEndsOld, NextChangeIs
  <2>2. NextChange = n + 1
    <3>1. NextChange > n
      BY <1>1, <1>4, <2>1, BoundsAssumption DEF Seen, Change
    <3>2. ~(NextChange > n + 1)
      <4>1. ASSUME NextChange > n + 1 PROVE FALSE
        <5>1. n + 1 \in Change /\ n + 1 < NextChange
          BY <1>4, <2>1, <4>1, BoundsAssumption DEF Change
        <5> QED BY <1>1, <1>4, <2>1, <5>1, BoundsAssumption DEF Seen, Change
      <4> QED BY <4>1
    <3> QED BY <1>4, <2>1, <3>1, <3>2, BoundsAssumption DEF Change
  <2>3. m = n + 1
    <3>1. NextChange <= m
      BY <1>2, <2>1 DEF Seen
    <3>2. ASSUME m > NextChange PROVE FALSE
      <4>1. m \in Change /\ change'[m].state # "NONE" /\ m # NextChange
        BY <1>2, <1>4, <2>1, <3>2, BoundsAssumption DEF Seen, Change
      <4>2. change[m].state = "NONE"
        BY <1>4, <2>1, <3>2, <4>1, BoundsAssumption DEF Change
      <4> QED BY <4>1, <4>2, StateMoves DEF Made
    <3> QED BY <1>4, <2>1, <2>2, <3>1, <3>2, BoundsAssumption DEF Change
  <2>4. change'[m] = [state |-> "NOTICE_PENDING", active |-> TRUE, newEmail |-> asking]
    <3>1. change' = [EndOpenChanges(change, "SUPERSEDED") EXCEPT
            ![NextChange] = [state |-> "NOTICE_PENDING", active |-> TRUE, newEmail |-> asking]]
      BY <1>5 DEF RequestEmailChange
    <3> QED BY <2>1, <2>2, <2>3, <3>1 DEF EndOpenChanges
  <2>5. Wanted' = asking /\ UnderWay' = [id |-> n + 1, wanted |-> asking, stage |-> "asked"]
    BY <1>2, <2>1, <2>2, <2>3, <2>4 DEF Seen, StageOf, Waited, ACTIVE_STATES
  <2>6. asking \in Address /\ user' = user
    BY <1>3, <1>5 DEF RequestEmailChange, account, TypeOK
  <2>7. Latest' = Latest + 1 /\ Latest = n
    BY <1>1, <1>2, <2>3 DEF Seen
  <2>8. Promise!Ask(asking)
    BY <2>5, <2>6, <2>7 DEF Promise!Ask
  <2> QED BY <2>6, <2>8 DEF Promise!Next
<1>6. ASSUME ~RequestEmailChange PROVE m = n
  <2>1. \A c \in Change : change'[c].state # "NONE" <=> change[c].state # "NONE"
    BY <1>6, StateMoves DEF Made
  <2>2. \A c \in Change : c <= n <=> c <= m
    BY <1>1, <1>2, <2>1 DEF Seen
  <2> QED BY <1>4, <2>2, BoundsAssumption DEF Change
<1>7. ASSUME ~RequestEmailChange, \A c \in Change : change'[c].state \notin Waited
      PROVE  Latest' = Latest /\ Wanted' = None /\ UnderWay' = Promise!NoChange
  <2>1. \A c \in Change : ~change'[c].active
    BY <1>7, ActiveIs, ChangeBecomes, TypeKept DEF TypeOK, Waited
  <2> QED BY <1>1, <1>2, <1>6, <1>7, <2>1 DEF Seen, Promise!NoChange, Waited
<1>8. ASSUME NEW l \in LinkId, ConfirmEmailChange(l) PROVE Promise!Next
  <2> DEFINE c == link[l].change
  <2>1. ~RequestEmailChange /\ \A e \in Change : change'[e].state \notin Waited
    BY <1>8, NewEndsOld DEF ConfirmEmailChange, RequestEmailChange
  <2>2. c \in Change /\ change[c].active /\ change[c].state \in {"NOTICE_SENT", "LINK_SENT"}
    BY <1>8 DEF ConfirmEmailChange, Unused, Inv, LinksWell
  <2>3. c = n
    <3>1. c <= n /\ n \in Change /\ change[n].state # "NONE"
      BY <1>1, <1>4, <2>2, BoundsAssumption DEF Seen, Change
    <3>2. ~(n > c)
      BY <2>2, <3>1 DEF Inv, ResumableIsLatest, Waited, ACTIVE_STATES
    <3> QED BY <1>4, <2>2, <3>1, <3>2, BoundsAssumption DEF Change
  <2>4. UnderWay = [id |-> n, wanted |-> change[n].newEmail, stage |-> StageOf(n)] /\ StageOf(n) \in {"told", "linked"}
    BY <1>1, <2>2, <2>3 DEF Seen, StageOf
  <2>5. user'.email = change[n].newEmail
    BY <1>3, <1>8, <2>3 DEF ConfirmEmailChange, TypeOK, User
  <2>6. Promise!Move
    BY <1>7, <2>1, <2>4, <2>5 DEF Promise!Move
  <2> QED BY <2>6 DEF Promise!Next
<1>9. CASE Retire
  <2>1. ~RequestEmailChange /\ \A e \in Change : change'[e].state \notin Waited
    BY <1>9, NewEndsOld DEF Retire, RequestEmailChange
  <2>2. user'.email = None
    BY <1>3, <1>9 DEF Retire, TypeOK, User
  <2>3. Promise!Retire
    BY <1>7, <2>1, <2>2 DEF Promise!Retire
  <2> QED BY <2>3 DEF Promise!Next
<1>10. CASE ~RequestEmailChange /\ ~Retire /\ \A l \in LinkId : ~ConfirmEmailChange(l)
  <2>1. user'.email = user.email /\ m = n /\ Latest' = Latest /\ Latest = n
    BY <1>1, <1>2, <1>6, <1>10, NewEndsOld DEF Seen
  <2>2. CASE n \notin Change
    <3>1. Wanted' = Wanted /\ UnderWay' = UnderWay
      BY <1>1, <1>2, <2>1, <2>2 DEF Seen
    <3> QED BY <2>1, <3>1 DEF Promise!vars
  <2>3. CASE n \in Change
    <3>1. /\ change[n] \in ChangeRecord /\ change'[n] \in ChangeRecord
          /\ change[n].active <=> change[n].state \in ACTIVE_STATES
          /\ change'[n].active <=> change'[n].state \in ACTIVE_STATES
      BY <1>3, <2>3, TypeKept DEF TypeOK
    <3> DEFINE seen(c) == [id |-> n, wanted |-> c.newEmail,
                           stage |-> CASE c.state = "NOTICE_PENDING" -> "asked"
                                       [] c.state = "NOTICE_SENT" -> "told"
                                       [] OTHER -> "linked"]
    <3>2. /\ Wanted = IF change[n].state \in Waited THEN change[n].newEmail ELSE None
          /\ Wanted' = IF change'[n].state \in Waited THEN change'[n].newEmail ELSE None
          /\ UnderWay = IF change[n].active THEN seen(change[n]) ELSE Promise!NoChange
          /\ UnderWay' = IF change'[n].active THEN seen(change'[n]) ELSE Promise!NoChange
      BY <1>1, <1>2, <2>1, <2>3 DEF Seen, StageOf, Promise!NoChange, Waited
    <3>3. CASE change'[n] = change[n]
      <4>1. Wanted' = Wanted /\ UnderWay' = UnderWay
        BY <3>2, <3>3
      <4> QED BY <2>1, <4>1 DEF Promise!vars
    <3>4. CASE Advanced(n)
      <4>1. PICK d \in Delivery :
              /\ change[n].active /\ change[n].state = Expected(Entry(d).type)
              /\ change'[n] = [change[n] EXCEPT !.state = IF Entry(d).type = "notice" THEN "NOTICE_SENT" ELSE "LINK_SENT"]
        BY <3>4 DEF Advanced
      <4>2. CASE Entry(d).type = "notice"
        <5>1. change[n].state = "NOTICE_PENDING" /\ change'[n].state = "NOTICE_SENT" /\ change'[n].active
              /\ change'[n].newEmail = change[n].newEmail
          BY <3>1, <4>1, <4>2 DEF Expected, ChangeRecord
        <5>2. UnderWay = [id |-> n, wanted |-> change[n].newEmail, stage |-> "asked"]
              /\ UnderWay' = [id |-> n, wanted |-> change[n].newEmail, stage |-> "told"] /\ Wanted' = Wanted
          BY <3>2, <4>1, <5>1 DEF Waited, ACTIVE_STATES
        <5> QED BY <2>1, <5>2 DEF Promise!Next, Promise!Tell
      <4>3. CASE Entry(d).type # "notice"
        <5>1. change[n].state = "NOTICE_SENT" /\ change'[n].state = "LINK_SENT" /\ change'[n].active
              /\ change'[n].newEmail = change[n].newEmail
          BY <3>1, <4>1, <4>3 DEF Expected, ChangeRecord
        <5>2. UnderWay = [id |-> n, wanted |-> change[n].newEmail, stage |-> "told"]
              /\ UnderWay' = [id |-> n, wanted |-> change[n].newEmail, stage |-> "linked"] /\ Wanted' = Wanted
          BY <3>2, <4>1, <5>1 DEF Waited, ACTIVE_STATES
        <5> QED BY <2>1, <5>2 DEF Promise!Next, Promise!Link
      <4> QED BY <4>2, <4>3
    <3>5. CASE Reopened(n)
      <4>1. PICK j \in Job :
              /\ change[n].state = "FAILED" \/ (change[n].state = Expected(job[j].type) /\ change[n].active)
              /\ change'[n] = [change[n] EXCEPT !.state = Expected(job[j].type), !.active = TRUE]
        BY <3>5 DEF Reopened
      <4>2. CASE change[n].state = "FAILED"
        <5>1. ~change[n].active /\ change'[n].active /\ change'[n].state \in {"NOTICE_PENDING", "NOTICE_SENT"}
              /\ change'[n].newEmail = change[n].newEmail
          BY <3>1, <4>1, <4>2 DEF Expected, ChangeRecord, ACTIVE_STATES
        <5>2. change[n].newEmail # None
          BY <2>3, <4>2 DEF Inv, AddressesWell
        <5>3. PICK stage \in {"asked", "told"} : UnderWay' = [id |-> n, wanted |-> change[n].newEmail, stage |-> stage]
          BY <3>2, <5>1
        <5>4. UnderWay = Promise!NoChange /\ Wanted = change[n].newEmail /\ Wanted' = Wanted
          BY <3>2, <4>2, <5>1 DEF Waited, ACTIVE_STATES
        <5>5. Promise!Resume(stage)
          BY <2>1, <5>2, <5>3, <5>4 DEF Promise!Resume
        <5> QED BY <5>5 DEF Promise!Next
      <4>3. CASE change[n].state = Expected(job[j].type) /\ change[n].active
        <5>1. change'[n] = change[n]
          BY <3>1, <4>1, <4>3 DEF ChangeRecord
        <5> QED BY <3>3, <5>1
      <4> QED BY <4>1, <4>2, <4>3
    <3>6. CASE Failed(n)
      <4>1. change[n].active /\ ~change'[n].active /\ change'[n].state = "FAILED" /\ change'[n].newEmail = change[n].newEmail
        BY <3>1, <3>6 DEF Failed, ChangeRecord
      <4>2. UnderWay' = Promise!NoChange /\ Wanted' = Wanted
        BY <3>1, <3>2, <4>1 DEF Waited
      <4> QED BY <2>1, <4>2 DEF Promise!Next, Promise!Fail
    <3>7. CASE Cancelled(n)
      <4>1. ~change'[n].active /\ change'[n].state \notin Waited
        BY <3>1, <3>7 DEF Cancelled, ChangeRecord, Waited, ACTIVE_STATES
      <4>2. UnderWay' = Promise!NoChange /\ Wanted' = None
        BY <3>2, <4>1
      <4> QED BY <2>1, <4>2 DEF Promise!Next, Promise!Cancel
    <3>8. Becomes(n)
      BY <2>3, ChangeBecomes
    <3> QED BY <1>10, <3>3, <3>4, <3>5, <3>6, <3>7, <3>8 DEF Becomes, Made, Superseded, Confirmed, Removed
  <2> QED BY <2>2, <2>3
<1> QED BY <1>5, <1>8, <1>9, <1>10

LEMMA InitKeepsPromise == Init => Promise!Init
<1> SUFFICES ASSUME Init PROVE Promise!Init
  OBVIOUS
<1>1. {c \in Change : change[c].state # "NONE"} = {} /\ Open = {} /\ Resumable = {}
  BY DEF Init, Open, Resumable, ACTIVE_STATES
<1>2. Latest = 0
  BY <1>1, FS_EmptySet DEF Latest
<1>3. Wanted = None /\ UnderWay = [id |-> 0, stage |-> "none", wanted |-> None]
  BY <1>1 DEF Wanted, UnderWay
<1>4. user.email \in Address
  BY NamesAssumption DEF Init
<1> QED BY <1>2, <1>3, <1>4 DEF Promise!Init, Promise!NoChange

\* The changes, jobs and links of an account implement what its holder is promised: one change under way
\* at most, told before linked, linked or told before the address moves to what was asked for, and of the
\* failed ones only the latest able to come back (emailChangeState.js:29-52).
THEOREM PromiseIsKept == Spec => ImplementsPromise
<1>1. Spec => Promise!Init
  BY InitKeepsPromise, PTL DEF Spec
<1> QED BY <1>1, StepKeepsPromise, InvIsKept, PTL DEF Spec, ImplementsPromise, Promise!Spec
=============================================================================
