------------------------------- MODULE JobsPage -------------------------------
(* The administrator's page of failed jobs, in one browser: its two queues, its*)
(* pages, its one action at a time, and the answers that come late.            *)
(* Sources: JobsPage.jsx, Pager.jsx, ReasonDialog.jsx and, on the server,      *)
(* adminJobsService.js.                                                        *)
(*                                                                             *)
(* A load asks for the summary and the list together; the model lets both be   *)
(* read at one moment.  A page holds one job.                                  *)
EXTENDS Naturals, FiniteSets

CONSTANTS
  Email, Ai,      \* the jobs of each queue, as numbers: the order of the list
  MaxLoads,       \* bound: values of requestId
  MaxChanges      \* bound: changes to the jobs on the server

JobsAssumption == Email \cup Ai \subseteq Nat \ {0} /\ Email \cap Ai = {}
BoundAssumption == MaxLoads \in Nat /\ MaxChanges \in Nat

VARIABLES
  server,     \* the failed jobs, and how often they changed
  queue,      \* the tab
  list,       \* what is listed: jobs, page, pages, the server's version they were read at, and the
              \* queues in which jobs had failed, which the summary tells of both
  dismissing, \* the job whose dialog is open
  act,        \* the action under way
  requestId,  \* the number of the newest load
  flight,     \* the loads under way, by number
  timer,      \* the load after a render is due
  own         \* the last action done here: its version, and whether a load asked for since was shown

vars == <<server, queue, list, dismissing, act, requestId, flight, timer, own>>
page == <<queue, list, dismissing>>

Job == Email \cup Ai
QueueOf(j) == IF j \in Email THEN "email" ELSE "ai"
None == "none"
NoJob == 0
Version == 0..MaxChanges
Empty == [of |-> None, jobs |-> {}, page |-> 1, pages |-> 1, version |-> 0, failing |-> {}]
Failure == [Empty EXCEPT !.of = "failed"]
Idle == [pc |-> "idle", kind |-> None, job |-> NoJob, queue |-> None, page |-> 1, load |-> 0]

TypeOK ==
  /\ server \in [failed: SUBSET Job, version: Version]
  /\ queue \in {"email", "ai"} /\ list.jobs \subseteq Job /\ dismissing \in Job \cup {NoJob}
  /\ act.pc \in {"idle", "sent", "done", "refused", "loading"}
  /\ requestId \in 0..MaxLoads /\ DOMAIN flight \subseteq 1..MaxLoads /\ timer \in BOOLEAN
  /\ own \in [need: Version, shown: BOOLEAN, from: 0..MaxLoads]

Init ==
  /\ server \in [failed: SUBSET Job, version: {0}]
  /\ queue = "email" /\ list = Empty /\ dismissing = NoJob
  /\ act = Idle /\ requestId = 0 /\ flight = <<>> /\ timer = TRUE
  /\ own = [need |-> 0, shown |-> TRUE, from |-> 0]

-----------------------------------------------------------------------------
(* The server *)

FailedOf(q) == {j \in server.failed : QueueOf(j) = q}

\* One page of the failed jobs of a queue; a page past the last one is empty.
Listed(q, p) ==
  LET all == FailedOf(q)
  IN  [of |-> q, page |-> p, pages |-> Cardinality(all), version |-> server.version,
       failing |-> {QueueOf(j) : j \in server.failed}, jobs |-> {j \in all : Cardinality({k \in all : k <= j}) = p}]

Changes(failed) ==
  /\ server.version < MaxChanges
  /\ server' = [failed |-> failed, version |-> server.version + 1]

\* A worker fails a job; another administrator retries or dismisses one.
JobFails(j) == j \notin server.failed /\ Changes(server.failed \cup {j}) /\ UNCHANGED <<page, act, requestId, flight, timer, own>>
OtherActs(j) == j \in server.failed /\ Changes(server.failed \ {j}) /\ UNCHANGED <<page, act, requestId, flight, timer, own>>

-----------------------------------------------------------------------------
(* Loading *)

\* load takes the next number before it asks.
Load(q, p) ==
  /\ requestId < MaxLoads
  /\ requestId' = requestId + 1
  /\ flight' = [n \in DOMAIN flight \cup {requestId + 1} |->
                  IF n = requestId + 1 THEN [queue |-> q, page |-> p, answer |-> Empty] ELSE flight[n]]

\* The effect of a changed queue: its first page, after the render.
TimerFires == timer /\ timer' = FALSE /\ Load(queue, 1) /\ UNCHANGED <<server, page, act, own>>

Serve(n) ==
  /\ flight[n].answer = Empty
  /\ \E a \in {Listed(flight[n].queue, flight[n].page), Failure} : flight' = [flight EXCEPT ![n].answer = a]
  /\ UNCHANGED <<server, page, act, requestId, timer, own>>

Current(n) == n = requestId

Awaited(n) == act.pc = "loading" /\ act.load = n

\* An answer that is not of the newest load is dropped; the action that waits for it goes on.
Answered(n) ==
  LET a == flight[n].answer IN
  /\ a # Empty
  /\ flight' = [m \in DOMAIN flight \ {n} |-> flight[m]]
  /\ IF Current(n) /\ a # Failure
     THEN list' = a /\ own' = [own EXCEPT !.shown = @ \/ n > own.from]
     ELSE UNCHANGED <<list, own>>
  /\ act' = IF Awaited(n) THEN Idle ELSE act
  /\ UNCHANGED <<server, queue, dismissing, requestId, timer>>

-----------------------------------------------------------------------------
(* The administrator *)

\* The tabs are disabled while an action runs; an open dialog covers them.
MaySelect == act.pc = "idle" /\ dismissing = NoJob

\* The summary stays when the tab is changed, until the next answer.
SelectQueue(q) ==
  /\ MaySelect /\ q # queue /\ requestId < MaxLoads
  /\ requestId' = requestId + 1
  /\ list' = [Empty EXCEPT !.failing = list.failing] /\ dismissing' = NoJob /\ queue' = q /\ timer' = TRUE
  /\ UNCHANGED <<server, act, flight, own>>

\* The pager is there when the answer shown had several pages, even while an action runs.
Turn(p) ==
  /\ list.pages > 1 /\ dismissing = NoJob
  /\ p \in {list.page - 1, list.page + 1} /\ p \in 1..list.pages
  /\ Load(queue, p)
  /\ UNCHANGED <<server, page, act, timer, own>>

OpenDialog(j) == act.pc = "idle" /\ dismissing = NoJob /\ j \in list.jobs /\ dismissing' = j
              /\ UNCHANGED <<server, queue, list, act, requestId, flight, timer, own>>
\* While the action runs the dialog cannot be dismissed.
CloseDialog == act.pc = "idle" /\ dismissing # NoJob /\ dismissing' = NoJob
            /\ UNCHANGED <<server, queue, list, act, requestId, flight, timer, own>>

\* What may be asked for: retry and dismiss from a row, retry of all from the summary.
Offered(kind, j) ==
  \/ kind = "retry" /\ dismissing = NoJob /\ j \in list.jobs
  \/ kind = "dismiss" /\ dismissing = j /\ j # NoJob
  \/ kind = "retry-failed" /\ dismissing = NoJob /\ j = NoJob /\ queue \in list.failing

\* The queue and the page are those of the render the click came from.
Act(kind, j) ==
  /\ act.pc = "idle" /\ Offered(kind, j)
  /\ act' = [pc |-> "sent", kind |-> kind, job |-> j, queue |-> queue, page |-> list.page, load |-> 0]
  /\ UNCHANGED <<server, page, requestId, flight, timer, own>>

\* The server does it, or refuses a job that is not failed any more; a retry of all skips and
\* stops where it must; the answer may get lost.
ServeAct ==
  /\ act.pc = "sent"
  /\ \E gone \in IF act.kind = "retry-failed" THEN SUBSET FailedOf(act.queue) ELSE {{act.job} \cap server.failed, {}} :
       /\ IF gone = {} THEN UNCHANGED server ELSE Changes(server.failed \ gone)
       /\ \E pc \in {"done", "refused"} :
            /\ pc = "done" => gone # {} \/ act.kind = "retry-failed"
            /\ act' = [act EXCEPT !.pc = pc, !.load = server'.version]
  /\ UNCHANGED <<page, requestId, flight, timer, own>>

\* act waits for the load too, with the queue and the page it was clicked on.
ActDone ==
  /\ act.pc = "done" /\ Load(act.queue, act.page)
  /\ dismissing' = NoJob
  /\ own' = [need |-> act.load, shown |-> FALSE, from |-> requestId]
  /\ act' = [act EXCEPT !.pc = "loading", !.load = requestId + 1]
  /\ UNCHANGED <<server, queue, list, timer>>

ActRefused == act.pc = "refused" /\ act' = Idle /\ UNCHANGED <<server, page, requestId, flight, timer, own>>

-----------------------------------------------------------------------------
Progress == TimerFires \/ ServeAct \/ ActDone \/ ActRefused \/ \E n \in DOMAIN flight : Serve(n) \/ Answered(n)

Next ==
  \/ Progress \/ CloseDialog
  \/ \E q \in {"email", "ai"} : SelectQueue(q)
  \/ \E p \in 1..Cardinality(Job) : Turn(p)
  \/ \E j \in Job : JobFails(j) \/ OtherActs(j) \/ OpenDialog(j)
  \/ \E kind \in {"retry", "dismiss", "retry-failed"}, j \in Job \cup {NoJob} : Act(kind, j)

Spec == Init /\ [][Next]_vars
\* Requests are answered, and the browser goes on.
FairSpec == Spec /\ \A n \in 1..MaxLoads : WF_vars(n \in DOMAIN flight /\ (Serve(n) \/ Answered(n)))
                 /\ WF_vars(ServeAct \/ ActRefused) /\ WF_vars(ActDone)
-----------------------------------------------------------------------------
(* Properties *)

(* The jobs listed are those of the selected queue, whatever older load or     *)
(* finished action answers after the tab was changed (JobsPage.jsx:62, 73, 106).*)
JobsOfQueue == \A j \in list.jobs : QueueOf(j) = queue

(* Once a load asked for after an action has been shown, the list never goes   *)
(* back to before the action (JobsPage.jsx:62, 91-92).                         *)
SeesOwnAction == own.shown /\ list.of # None => list.version >= own.need

(* Nothing under way and nothing listed after an answer: there was no failed   *)
(* job.  "says ... when nothing failed" (JobsPage.test.jsx:49); the page of an *)
(* action may be empty afterwards, and other pages are not.                    *)
\* Does not hold: README, section 6.
NoneMeansNone ==
  (flight = <<>> /\ list.of # None /\ list.jobs = {}) => queue \notin list.failing

(* An action comes to an end and gives the buttons back, unless no number is   *)
(* left for the load it asks for (JobsPage.jsx:86-98).                         *)
Acting == act.pc # "idle" /\ ~(act.pc = "done" /\ requestId = MaxLoads)
ActionEnds == Acting ~> ~Acting

=============================================================================
