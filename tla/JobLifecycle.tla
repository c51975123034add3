----------------------------- MODULE JobLifecycle -----------------------------
(* What the job system promises about one outbox entry, whatever the queue,   *)
(* the relays and the workers do: an attempt is counted once, a job is given   *)
(* at most MaxAttempts attempts between two administrator retries, and a job   *)
(* that has ended comes back only when an administrator retries it.            *)
(* services/jobs/execute.js, relay.js and adminJobsService.js implement it;    *)
(* module JobPipeline shows how.                                               *)
EXTENDS Integers

CONSTANTS Entry,        \* outbox entries
          MaxAttempts   \* attempts a queue's policy allows

VARIABLE job            \* job[e]: the stage of entry e, its attempts and its runs

Stage == {"unborn", "waiting", "done", "failed", "dismissed", "gone"}

Job == [stage: Stage, attempts: Nat, run: Nat]

Init == job = [e \in Entry |-> [stage |-> "unborn", attempts |-> 0, run |-> 0]]

\* The change a job belongs to commits, and the job with it.
Submit(e) ==
  /\ job[e].stage = "unborn"
  /\ job' = [job EXCEPT ![e].stage = "waiting"]

\* An attempt fails and another is left.
FailAttempt(e) ==
  /\ job[e].stage = "waiting"
  /\ job[e].attempts + 1 < MaxAttempts
  /\ job' = [job EXCEPT ![e].attempts = @ + 1]

\* An attempt is the last: it succeeds, or the job is given up.
Finish(e, stage) ==
  /\ job[e].stage = "waiting"
  /\ job' = [job EXCEPT ![e].stage = stage, ![e].attempts = @ + 1]

\* An administrator runs a failed job again, from its first attempt.
Retry(e) ==
  /\ job[e].stage = "failed"
  /\ job' = [job EXCEPT ![e] = [stage |-> "waiting", attempts |-> 0, run |-> @.run + 1]]

Dismiss(e) ==
  /\ job[e].stage = "failed"
  /\ job' = [job EXCEPT ![e].stage = "dismissed"]

\* The record of a finished job expires.
Forget(e) ==
  /\ job[e].stage \in {"done", "dismissed"}
  /\ job' = [job EXCEPT ![e].stage = "gone"]

Next == \E e \in Entry :
          \/ Submit(e)
          \/ FailAttempt(e)
          \/ Finish(e, "done")
          \/ Finish(e, "failed")
          \/ Retry(e)
          \/ Dismiss(e)
          \/ Forget(e)

Spec == Init /\ [][Next]_job
===============================================================================
