------------------------------ MODULE MCServices ------------------------------
(* Small instances of Lockout, DailySweep, AiProvider and, for its liveness,   *)
(* EmailChange in one run of TLC: one of them moves, under its own fairness,   *)
(* while the others rest in their initial state.                               *)
EXTENDS Lockout, TLC

CONSTANTS
  \* of AiProvider
  AiJob, Attempts, BackoffBase, BackoffCap, AiHour, MaxAfter, MaxBytes, Chunk, PauseFails,
  \* of EmailChange
  First, Address, NoAddress, Requests, Faults, MaxChanges, MaxLinks, MaxJobs, MaxRuns, MaxAttempts, MaxFaults

VARIABLES
  instance,
  lease, age, process, report, errors, undone,
  job, slot, paused, asked, quota, reasked,
  user, taken, change, link, emailJob, delivery, guard, asking, mail, faults

lockout == vars
sweep == <<lease, age, process, report, errors, undone>>
provider == <<job, slot, paused, asked, quota, reasked>>
email == <<user, taken, change, link, emailJob, delivery, guard, asking, mail, faults>>
all == <<instance, lockout, sweep, provider, email>>

\* One process; two hours make a day; one report is asked again in each sweep, and one sweep fails.
Process == {CHOOSE r \in Request : TRUE}
Sweep == INSTANCE DailySweep WITH
  Report <- {1, 2}, Day <- 2, Limit <- 1, MaxRequests <- 2, MaxErrors <- 1

\* As many slots of the AI queue as there are requests at the throttle.
Provider == INSTANCE AiProvider WITH Slot <- Request, Job <- AiJob, Hour <- AiHour

\* As many deliveries of emails.
Email == INSTANCE EmailChange WITH None <- NoAddress, Delivery <- Request, job <- emailJob

ASSUME SweepAssumption == Sweep!BoundsAssumption
ASSUME ProviderAssumption == Provider!BoundsAssumption
ASSUME EmailAssumption == Email!NamesAssumption /\ Email!BoundsAssumption

-----------------------------------------------------------------------------
MCInit ==
  /\ instance \in {"lockout", "sweep", "provider", "email"}
  /\ Init /\ Sweep!Init /\ Provider!Init /\ Email!Init

\* Module m moves, and no other.
Only(m) ==
  /\ instance = m /\ UNCHANGED instance
  /\ m # "lockout" => UNCHANGED lockout
  /\ m # "sweep" => UNCHANGED sweep
  /\ m # "provider" => UNCHANGED provider
  /\ m # "email" => UNCHANGED email

MCNext ==
  \/ Only("lockout") /\ Next
  \/ Only("sweep") /\ Sweep!Next
  \/ Only("provider") /\ Provider!Next
  \/ Only("email") /\ Email!Next

\* The fairness of each module, asked of the one that moves.  As that never changes, one condition
\* may stand for several modules.
TimePasses ==
  \/ Only("lockout") /\ Tick
  \/ Only("sweep") /\ Sweep!Hour
  \/ Only("provider") /\ Provider!Tick
  \/ Only("email") /\ Email!RequestEmailChange
GoesOn(r) ==
  \/ Only("lockout") /\ (LoginCount(r) \/ VerifyCount(r))
  \/ Only("sweep") /\ r \in Process /\ Sweep!Steps(r)
  \/ Only("provider") /\ Provider!Step(r)
  \/ Only("email") /\ Email!DeliveryNext(r)
ComesBack(n) ==
  \/ Only("sweep") /\ Sweep!Answer(n)
  \/ Only("email") /\ Email!Load(n)

MCSpec ==
  /\ MCInit /\ [][MCNext]_all
  /\ WF_all(TimePasses)
  /\ \A r \in Request : WF_all(GoesOn(r))
  /\ \A n \in 1..2 : WF_all(ComesBack(n))

-----------------------------------------------------------------------------
(* The properties of the modules; those of Lockout are its own.                *)

\* A failed classification is asked for again in the end (aiSweep.js:24-43).
FailureAskedAgain == Sweep!FailureAskedAgain

\* No more of a photo is held than the limit (reportPhoto.js, readFirstPhoto).
PhotoFits == Provider!PhotoFits

\* A job that met a spent balance waits an hour (kimi.js, failureFor).
QuotaWaits == [][Provider!RunsAfterQuota]_provider

\* Every classification job ends, whatever the services do (execute.js, kimi.js).
EveryJobEnds ==
  \A e \in AiJob : (instance = "provider" /\ job[e].state \notin {"DONE", "FAILED"}) ~> job[e].state \in {"DONE", "FAILED"}

\* A run of a notice's job sends it once, however often it is tried (emailJobs.js).
NoticeOncePerRun == Email!NoticeOncePerRun

\* A change gets its link, or ends where the person can see it (emailJobs.js:206).
EveryChangeSettles == Email!EveryChangeSettles

\* Requests that overlap, photos of unknown length and jobs that are tried again stay within their
\* limits: of attempts at a password, of bytes, of mails (authController.js:80, reportPhoto.js,
\* emailJobs.js:26).
LimitsHold == TriesBounded /\ PhotoFits /\ NoticeOncePerRun

\* A job waits as its failure says, and ends all the same (kimi.js, failureFor; execute.js).
JobsWaitAndEnd == QuotaWaits /\ EveryJobEnds

\* What was refused or failed is tried again in the end: a locked address lets people in, and the sweep
\* asks for a failed classification once more (authController.js:80, aiSweep.js:24-43).
TriedAgain == LockoutEnds /\ FailureAskedAgain
==============================================================================
