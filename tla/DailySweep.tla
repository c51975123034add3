------------------------------ MODULE DailySweep ------------------------------
(* The daily sweep that asks again for classifications that failed: the lease  *)
(* that lets one process run it, and the sweep itself, report by report.       *)
(* Sources: aiSweep.js and models/SchedulerLease.js; asking again is           *)
(* requestClassification (module Classification), the answers are the workers'.*)
(*                                                                             *)
(* Time is kept as what is left of a span: the lease as the hours until its    *)
(* next run, a failure as its age, both at most a day.                         *)
EXTENDS Naturals, FiniteSets

CONSTANTS
  Process, Report,
  Day,          \* checks in a day (24, at the interval of an hour)
  Limit,        \* reports of one sweep (50)
  MaxRequests,  \* bound: classifications asked for one report
  MaxErrors     \* bound: sweeps that fail or die half-way

BoundsAssumption == Day \in Nat \ {0} /\ Limit \in Nat \ {0} /\ MaxRequests \in Nat /\ MaxErrors \in Nat

VARIABLES
  lease,    \* the SchedulerLease document: whether it exists, and how long until nextRunAt
  age,      \* hours since the last claim, Day at most
  process,  \* the check under way in each process
  report,   \* what a report's classification has come to
  errors,   \* sweeps that failed so far
  undone    \* the last sweep failed, and none has run since

vars == <<lease, age, process, report, errors, undone>>

-----------------------------------------------------------------------------
Lease == [made: BOOLEAN, wait: 0..Day]
Process_ == [pc: {"idle", "insert", "claim", "find", "ask"}, todo: SUBSET (Report \X (1..MaxRequests))]
Report_ == [status: {"PENDING", "FAILED", "CLASSIFIED", "WITHDRAWN"}, requestSeq: 1..MaxRequests, age: 0..Day]
Idle == [pc |-> "idle", todo |-> {}]

At(p, pc) == process' = [process EXCEPT ![p].pc = pc]

Init ==
  /\ lease = [made |-> FALSE, wait |-> 0] /\ age = Day
  /\ process = [p \in Process |-> Idle]
  /\ report = [r \in Report |-> [status |-> "PENDING", requestSeq |-> 1, age |-> 0]]
  /\ errors = 0 /\ undone = FALSE

\* An hour passes, and every process that is not busy checks.
Hour ==
  /\ \A p \in Process : process[p].pc \notin {"insert", "claim"}
  /\ lease' = [lease EXCEPT !.wait = IF @ > 0 THEN @ - 1 ELSE 0]
  /\ age' = IF age < Day THEN age + 1 ELSE Day
  /\ report' = [r \in Report |-> IF report[r].age < Day THEN [report[r] EXCEPT !.age = @ + 1] ELSE report[r]]
  /\ process' = [p \in Process |-> IF process[p].pc = "idle" THEN [Idle EXCEPT !.pc = "insert"] ELSE process[p]]
  /\ UNCHANGED <<errors, undone>>

\* The lease is made if it is not there; of two inserts one is a duplicate, and ignored.
InsertLease(p) ==
  /\ process[p].pc = "insert"
  /\ lease' = IF lease.made THEN lease ELSE [made |-> TRUE, wait |-> 0]
  /\ At(p, "claim")
  /\ UNCHANGED <<age, report, errors, undone>>

\* Mutant of Claimable: whoever finds the lease may run.
ClaimableAlways == lease.made
Claimable == lease.made /\ lease.wait = 0

\* Only the process whose update finds the lease due moves it a day ahead, and sweeps.
Claim(p) ==
  /\ process[p].pc = "claim"
  /\ IF Claimable
     THEN lease' = [lease EXCEPT !.wait = Day] /\ age' = 0 /\ At(p, "find") /\ undone' = FALSE
     ELSE At(p, "idle") /\ UNCHANGED <<lease, age, undone>>
  /\ UNCHANGED <<report, errors>>

\* Mutant of Candidate: a report that was withdrawn stays a candidate, and is never asked again.
CandidateWithdrawn(r) == report[r].status \in {"FAILED", "WITHDRAWN"} /\ report[r].age = Day
Candidate(r) == report[r].status = "FAILED" /\ report[r].age = Day
Candidates == {r \in Report : Candidate(r)}

\* The oldest failures, as many as the limit.  Ages of a day and more are not told apart.
Find(p) ==
  /\ process[p].pc = "find"
  /\ \E c \in SUBSET Candidates :
       /\ Cardinality(c) = IF Cardinality(Candidates) < Limit THEN Cardinality(Candidates) ELSE Limit
       /\ process' = [process EXCEPT ![p] = [pc |-> "ask", todo |-> {<<r, report[r].requestSeq>> : r \in c}]]
  /\ UNCHANGED <<lease, age, report, errors, undone>>

StillFailed(r, seq) == report[r].status = "FAILED" /\ report[r].requestSeq = seq

\* One report, in a transaction of its own: asked again unless it has changed since.
Ask(p) ==
  /\ process[p].pc = "ask"
  /\ \E c \in process[p].todo :
       /\ report' = IF StillFailed(c[1], c[2]) /\ report[c[1]].requestSeq < MaxRequests
                    THEN [report EXCEPT ![c[1]].status = "PENDING", ![c[1]].requestSeq = @ + 1] ELSE report
       /\ process' = [process EXCEPT ![p].todo = @ \ {c}]
  /\ UNCHANGED <<lease, age, errors, undone>>
SweepEnds(p) ==
  /\ process[p].pc = "ask" /\ process[p].todo = {}
  /\ At(p, "idle")
  /\ UNCHANGED <<lease, age, report, errors, undone>>

\* The sweep throws, or its process dies: what is left of it is not done.
SweepFails(p) ==
  /\ process[p].pc \in {"find", "ask"}
  /\ errors < MaxErrors
  /\ errors' = errors + 1
  /\ undone' = TRUE
  /\ process' = [process EXCEPT ![p] = Idle]
  /\ UNCHANGED <<lease, age, report>>

\* The workers answer; an administrator asks again; the reporter withdraws.
Answer(r) ==
  /\ report[r].status = "PENDING"
  /\ report' \in {[report EXCEPT ![r].status = "CLASSIFIED"]} \cup
                 (IF report[r].requestSeq < MaxRequests
                  THEN {[report EXCEPT ![r].status = "FAILED", ![r].age = 0]} ELSE {})
  /\ UNCHANGED <<lease, age, process, errors, undone>>
Rerun(r) ==
  /\ report[r].status = "FAILED" /\ report[r].requestSeq < MaxRequests
  /\ report' = [report EXCEPT ![r].status = "PENDING", ![r].requestSeq = @ + 1]
  /\ UNCHANGED <<lease, age, process, errors, undone>>
Withdraw(r) ==
  /\ report[r].status # "WITHDRAWN"
  /\ report' = [report EXCEPT ![r].status = "WITHDRAWN"]
  /\ UNCHANGED <<lease, age, process, errors, undone>>

Steps(p) == InsertLease(p) \/ Claim(p) \/ Find(p) \/ Ask(p) \/ SweepEnds(p)
Next ==
  \/ Hour
  \/ \E p \in Process : Steps(p) \/ SweepFails(p)
  \/ \E r \in Report : Answer(r) \/ Rerun(r) \/ Withdraw(r)

Spec == Init /\ [][Next]_vars
\* The timers run, a check that has begun goes on, and the workers answer.
FairSpec == Spec /\ WF_vars(Hour) /\ \A p \in Process : WF_vars(Steps(p)) /\ \A r \in Report : WF_vars(Answer(r))

-----------------------------------------------------------------------------
(* However many processes check, and whichever of them die, two sweeps never   *)
(* begin within a day (aiSweep.js:11-22).                                      *)
SweepsAfterADay == \A p \in Process : process[p].pc = "claim" /\ process'[p].pc = "find" => age = Day
OnceADay == [][SweepsAfterADay]_vars

(* A request that is under way is never asked for again, although the list of  *)
(* candidates may be a day old by the time its last report is reached: a slow  *)
(* sweep, the next one and an administrator do not ask twice (aiSweep.js:31-37).*)
AsksForFailed == \A r \in Report : report'[r].requestSeq # report[r].requestSeq => report[r].status = "FAILED"
NoDoubleRequest == [][AsksForFailed]_vars

(* A failure does not stay one for ever: the report is asked for again, whether*)
(* sweeps fail and whatever else there is to sweep (aiSweep.js:24-43).         *)
FailureAskedAgain == \A r \in Report : report[r].status = "FAILED" ~> report[r].status # "FAILED"

(* After a sweep that failed, the next check of any process sweeps again       *)
(* (aiSweep.js:52).                                                            *)
\* Does not hold: README, section 6.
NextCheckTriesAgain == [][\A p \in Process : process[p].pc = "claim" /\ process'[p].pc = "idle" => ~undone]_vars
=============================================================================
