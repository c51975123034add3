------------------------------ MODULE AiProvider ------------------------------
(* The classification jobs and the services they call: the photo of a report,  *)
(* the provider's answer in each of its forms, and what its failure does to    *)
(* the job and to the queue.                                                   *)
(* Sources: ai/index.js, adapters/kimi.js, outputCheck.js, reportPhoto.js,     *)
(* jobError.js, the mapping of failures in aiJobs.js, the failure path of      *)
(* execute.js, and queues.js with backoffFor of workers.js for the waits.      *)
(*                                                                             *)
(* Waits are what is left of them, in units; Tick lets one pass.  Delivery is  *)
(* JobPipeline's, the report and its withdrawal are Classification's.          *)
EXTENDS Naturals

CONSTANTS
  Job,        \* entries of type classify_report
  Slot,       \* the concurrency of the ai queue
  Attempts,   \* attempts of a run
  BackoffBase, BackoffCap,  \* backoffBaseMs and backoffCapMs
  Hour,       \* HOUR_MS
  MaxAfter,   \* bound: the longest Retry-After
  MaxBytes,   \* MAX_BYTES of a photo
  Chunk,      \* sizes of the pieces a photo arrives in
  PauseFails  \* whether Redis may refuse the pause

BoundsAssumption ==
  /\ {Attempts, BackoffBase, BackoffCap, Hour} \subseteq Nat \ {0}
  /\ MaxAfter \in Nat /\ MaxBytes \in Nat /\ Chunk \subseteq Nat \ {0}
  /\ PauseFails \in BOOLEAN

VARIABLES
  job,       \* state, attempts, last error code and what is left of notBefore
  slot,      \* the delivery a slot works on
  paused,    \* what is left of the queue's pause
  asked,     \* history: what is left of the longest wait the provider asked for
  quota,     \* history: what is left of the hour since a job met a spent balance
  reasked    \* history: how often a job was tried again after an unusable answer

vars == <<job, slot, paused, asked, quota, reasked>>

None == "none"
Code == {"TIMEOUT", "RATE_LIMITED", "PROVIDER_DOWN", "AUTH", "REFUSED", "INVALID_OUTPUT", "NOT_CONFIGURED"}
RETRYABLE == {"PROVIDER_DOWN", "RATE_LIMITED", "TIMEOUT"}

Larger(a, b) == IF a >= b THEN a ELSE b
Smaller(a, b) == IF a <= b THEN a ELSE b
Less(n) == IF n = 0 THEN 0 ELSE n - 1
LongestWait == Larger(Larger(BackoffCap, Hour), MaxAfter)

Idle == [pc |-> "idle", of |-> CHOOSE e \in Job : TRUE, code |-> None, wait |-> 0, bytes |-> 0]

TypeOK ==
  /\ job \in [Job -> [state : {"PENDING", "RUNNING", "DONE", "FAILED"}, attempts : 0..Attempts,
                      last : Code \cup {None}, wait : 0..LongestWait]]
  /\ \A s \in Slot : slot[s].pc \in {"idle", "photo", "ask", "failed", "paused", "answered"}
  /\ paused \in 0..LongestWait

Init ==
  /\ job = [e \in Job |-> [state |-> "PENDING", attempts |-> 0, last |-> None, wait |-> 0]]
  /\ slot = [s \in Slot |-> Idle]
  /\ paused = 0 /\ asked = 0
  /\ quota = [e \in Job |-> 0] /\ reasked = [e \in Job |-> 0]

\* A unit of time passes.
Tick ==
  /\ paused > 0 \/ asked > 0 \/ \E e \in Job : job[e].wait > 0 \/ quota[e] > 0
  /\ paused' = Less(paused) /\ asked' = Less(asked)
  /\ job' = [e \in Job |-> [job[e] EXCEPT !.wait = Less(@)]]
  /\ quota' = [e \in Job |-> Less(quota[e])]
  /\ UNCHANGED <<slot, reasked>>

\* A job that waits no more is delivered, unless the queue is paused.
Deliver(s, e) ==
  /\ slot[s].pc = "idle" /\ paused = 0
  /\ job[e].state = "PENDING" /\ job[e].wait = 0
  /\ job' = [job EXCEPT ![e].state = "RUNNING"]
  /\ slot' = [slot EXCEPT ![s] = [Idle EXCEPT !.pc = "photo", !.of = e]]
  /\ UNCHANGED <<paused, asked, quota, reasked>>

-----------------------------------------------------------------------------
(* The photo: readFirstPhoto *)

\* No photo, none found, one announced as too large, or read to its end: the provider is asked.
PhotoDone(s) ==
  /\ slot[s].pc = "photo"
  /\ slot' = [slot EXCEPT ![s].pc = "ask", ![s].bytes = 0]
  /\ UNCHANGED <<job, paused, asked, quota, reasked>>

\* One more piece is kept as long as all of them stay within the limit.
Fits(bytes, n) == bytes + n <= MaxBytes

\* A piece arrives, whatever the announced length: past the limit the photo is given up.
PhotoChunk(s, n) ==
  /\ slot[s].pc = "photo"
  /\ slot' = IF Fits(slot[s].bytes, n)
               THEN [slot EXCEPT ![s].bytes = @ + n]
               ELSE [slot EXCEPT ![s].pc = "ask", ![s].bytes = 0]
  /\ UNCHANGED <<job, paused, asked, quota, reasked>>

Fails(s, code, wait) ==
  slot' = [slot EXCEPT ![s].pc = "failed", ![s].code = code, ![s].wait = wait]

\* The photo's host is unreachable, answers another error, or is slower than the time limit.
PhotoDown(s) ==
  /\ slot[s].pc = "photo" /\ Fails(s, "PROVIDER_DOWN", 0)
  /\ UNCHANGED <<job, paused, asked, quota, reasked>>

-----------------------------------------------------------------------------
(* The provider's answer: complete, failureFor, checkClassification *)

\* What the provider may answer: a status, the error or completion in its body, and Retry-After.
Refusal == [status : {"429"}, body : {"quota", "other", "stalled"}, after : 0..MaxAfter]
           \cup [status : {"401", "500", "400"}, body : {"other", "stalled"}, after : {0}]
Completion == [status : {"200"}, after : {0},
               body : {"stalled", "malformed", "filtered", "cut", "empty", "unusable", "good"}]
Missing == [status : {"unconfigured", "unreachable", "silent"}, body : {"other"}, after : {0}]
Answer == Refusal \cup Completion \cup Missing
Good == [status |-> "200", body |-> "good", after |-> 0]

\* The code of an answer that is not good; the time limit covers the body as well.
CodeOf(a) ==
  CASE a.status = "unconfigured" -> "NOT_CONFIGURED"
    [] a.status = "unreachable" -> "PROVIDER_DOWN"
    [] a.status = "silent" \/ a.body = "stalled" -> "TIMEOUT"
    [] a.status = "429" -> "RATE_LIMITED"
    [] a.status = "401" -> "AUTH"
    [] a.status = "500" -> "PROVIDER_DOWN"
    [] a.status = "400" \/ a.body = "filtered" -> "REFUSED"
    [] OTHER -> "INVALID_OUTPUT"

\* The wait an answer asks for, 0 when it names none: a spent balance at least an hour.
WaitOf(a) ==
  IF CodeOf(a) # "RATE_LIMITED" THEN 0
  ELSE IF a.body = "quota" THEN Larger(a.after, Hour) ELSE a.after

\* One call, and its answer.
Ask(s, a) ==
  /\ slot[s].pc = "ask"
  /\ IF a = Good
       THEN /\ slot' = [slot EXCEPT ![s].pc = "answered"]
            /\ UNCHANGED <<asked, quota>>
       ELSE /\ Fails(s, CodeOf(a), WaitOf(a))
            /\ asked' = Larger(asked, WaitOf(a))
            /\ quota' = [quota EXCEPT ![slot[s].of] =
                           IF CodeOf(a) = "RATE_LIMITED" /\ a.body = "quota" THEN Hour ELSE @]
  /\ UNCHANGED <<job, paused, reasked>>

-----------------------------------------------------------------------------
(* The failure: asJobFailure, executeEntry, backoffFor *)

\* An unusable answer is worth another try unless the failure before it was one too.
Retryable(code, last) ==
  IF code = "INVALID_OUTPUT" THEN last # "INVALID_OUTPUT" ELSE code \in RETRYABLE

\* Mutant of Counted: an attempt that met a rate limit is not counted.
CountedUnlessLimited(s) ==
  job[slot[s].of].attempts + IF slot[s].code = "RATE_LIMITED" THEN 0 ELSE 1

\* The attempts once this one is recorded.
Counted(s) == job[slot[s].of].attempts + 1

\* The last try: no other is worth it, or left.
Final(s) ==
  LET e == slot[s].of
  IN  \/ ~Retryable(slot[s].code, job[e].last)
      \/ Counted(s) >= Attempts

\* backoffFor: doubled with every attempt, up to the cap.
Backoff(attempt) == Smaller(BackoffBase * 2 ^ (attempt - 1), BackoffCap)

WaitMs(s) == IF slot[s].wait > 0 THEN slot[s].wait ELSE Backoff(job[slot[s].of].attempts + 1)

\* A rate limit holds the whole queue, before it is recorded; the pause replaces an earlier one,
\* and may fail.
Pause(s, works) ==
  /\ slot[s].pc = "failed" /\ slot[s].code = "RATE_LIMITED" /\ ~Final(s)
  /\ paused' = IF works THEN WaitMs(s) ELSE paused
  /\ slot' = [slot EXCEPT ![s].pc = "paused"]
  /\ UNCHANGED <<job, asked, quota, reasked>>

\* The failure is recorded: the job ends, or waits for its next attempt.
Record(s) ==
  /\ \/ slot[s].pc = "paused"
     \/ slot[s].pc = "failed" /\ (slot[s].code # "RATE_LIMITED" \/ Final(s))
  /\ LET e == slot[s].of
         again == ~Final(s)
     IN  /\ job' = [job EXCEPT ![e] = [state |-> IF again THEN "PENDING" ELSE "FAILED",
                                       attempts |-> Counted(s), last |-> slot[s].code,
                                       wait |-> IF again THEN WaitMs(s) ELSE 0]]
         /\ reasked' = [reasked EXCEPT ![e] =
                          IF again /\ slot[s].code = "INVALID_OUTPUT" THEN @ + 1 ELSE @]
  /\ slot' = [slot EXCEPT ![s] = Idle]
  /\ UNCHANGED <<paused, asked, quota>>

\* The answer is written to the report and the job is done.
Done(s) ==
  /\ slot[s].pc = "answered"
  /\ job' = [job EXCEPT ![slot[s].of].state = "DONE"]
  /\ slot' = [slot EXCEPT ![s] = Idle]
  /\ UNCHANGED <<paused, asked, quota, reasked>>

Step(s) ==
  \/ \E e \in Job : Deliver(s, e)
  \/ PhotoDone(s) \/ PhotoDown(s)
  \/ \E n \in Chunk : PhotoChunk(s, n)
  \/ \E a \in Answer : Ask(s, a)
  \/ Pause(s, TRUE)
  \/ PauseFails /\ Pause(s, FALSE)
  \/ Record(s) \/ Done(s)

Next == Tick \/ \E s \in Slot : Step(s)

Spec == Init /\ [][Next]_vars

\* Time passes, idle slots are offered what waits no more, and every step of a delivery ends.
FairSpec == Spec /\ WF_vars(Tick) /\ \A s \in Slot : WF_vars(Step(s))

-----------------------------------------------------------------------------
(* Properties *)

\* However a photo arrives, no more of it is held than the limit (readFirstPhoto).
PhotoFits == \A s \in Slot : slot[s].bytes <= MaxBytes

\* A job that met a spent balance is not run again within the hour, whatever Retry-After says and
\* whatever other jobs do to the queue's pause (failureFor).
RunsAfterQuota == \A e \in Job : job[e].state = "PENDING" /\ job'[e].state = "RUNNING" => quota[e] = 0
QuotaWaits == [][RunsAfterQuota]_vars

\* Every classification job ends, whatever the services do or leave undone.
EveryJobEnds == \A e \in Job : <>(job[e].state \in {"DONE", "FAILED"})

\* openapi.yaml: "INVALID_OUTPUT is retried once."
\* Does not hold: README, section 6.
UnusableRetriedOnce == \A e \in Job : reasked[e] <= 1

\* execute.js: onRateLimited "holds the whole queue when the provider asks everyone to wait": with
\* one slot no job starts before the wait is over.
\* Does not hold: README, section 6.
QueueHeld == [][\A e \in Job : job[e].state = "PENDING" /\ job'[e].state = "RUNNING" => asked = 0]_vars

=============================================================================
