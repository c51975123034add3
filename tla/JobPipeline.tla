----------------------------- MODULE JobPipeline ------------------------------
(* The job system: outbox entries in MongoDB, the relay that offers them to    *)
(* BullMQ, the queue in Redis, the worker slots that run one attempt of one    *)
(* entry each, and the Jobs page.  Sources: services/jobs/outbox.js, relay.js, *)
(* jobId.js, queues.js, workers.js, execute.js, adminJobsService.js and        *)
(* models/OutboxEntry.js.                                                      *)
(*                                                                             *)
(* One queue is modelled: the two queues of the code share nothing but the     *)
(* relay.  A worker slot is one unit of a worker's concurrency: it runs one    *)
(* delivery at a time, so its name stands for the processingToken (a fresh     *)
(* UUID) of the delivery it runs.  Clock readings are replaced by what they    *)
(* are compared with: whether a wait is over or a ten-minute limit has passed. *)
EXTENDS Integers, FiniteSets

CONSTANTS Entry,         \* outbox entries
          Relay,         \* relay instances, one per process with background work
          Slot,          \* worker slots
          OldSlot,       \* slots of another version, which lack the handler
          MaxAttempts,   \* policy.attempts of the queue
          MaxRunKey,     \* bound: administrator retries of one entry
          MaxFaults,     \* bound: failures of the environment in a behaviour
          NoSlot,        \* no processingToken
          NoJob          \* no BullMQ job

\* A BullMQ job id: the entry, its run and the attempts recorded when it was offered.
JobId == [entry: Entry, runKey: Nat, attempts: Nat]

ASSUME BoundsAssumption ==
  /\ MaxAttempts \in Nat \ {0}
  /\ MaxRunKey \in Nat
  /\ MaxFaults \in Nat

ASSUME NamesAssumption ==
  /\ OldSlot \subseteq Slot
  /\ NoSlot \notin Slot
  /\ NoJob \notin JobId

VARIABLES
  entry,    \* MongoDB: the outbox entries
  waiting,  \* Redis: ids of the jobs waiting for a worker
  active,   \* Redis: <<id, slot>> for each job a delivery took and has not ended
  stalled,  \* Redis: ids of the jobs whose stalledCounter is above zero
  paused,   \* Redis: queue.rateLimit() is in force
  pass,     \* relay processes: the pass each timer of a relay is in
  slot,     \* worker processes: the delivery each slot runs
  faults    \* how many failures of the environment have happened

vars == <<entry, waiting, active, stalled, paused, pass, slot, faults>>

-------------------------------------------------------------------------------
\* The timers of relay.start(): one offers pending entries, one re-offers queued ones.
Thread == Relay \X {"runOnce", "reofferOnce"}

\* "NEW" and "GONE" stand for an entry not yet written and one the TTL index removed.
State == {"NEW", "PENDING", "QUEUED", "DONE", "FAILED", "DISMISSED", "GONE"}
FINISHED == {"DONE", "FAILED", "DISMISSED"}
Open == {"PENDING", "QUEUED"}

\* An outbox entry.  claimAged: processingAt is older than CLAIM_AFTER_MS; aged: queuedAt is older
\* than REOFFER_AFTER_MS; notBefore: the field is set; cooling: the wait of the last recorded
\* failure is not over, whatever the field says.
EntryRecord == [state: State, runKey: Nat, attempts: Nat,
                token: Slot \cup {NoSlot}, claimAged: BOOLEAN,
                notBefore: BOOLEAN, cooling: BOOLEAN, aged: BOOLEAN]

PassRecord == [batch: SUBSET JobId, marking: JobId \cup {NoJob}]

Step == {"idle", "load", "reject", "claim", "run", "pause", "record", "ack"}
Outcome == {"none", "ok", "retry", "final"}

SlotRecord == [pc: Step, job: JobId \cup {NoJob}, takeOver: BOOLEAN,
               seen: State, outcome: Outcome]

IdleSlot == [pc |-> "idle", job |-> NoJob, takeOver |-> FALSE, seen |-> "NEW", outcome |-> "none"]
IdlePass == [batch |-> {}, marking |-> NoJob]

jobIdFor(e) == [entry |-> e, runKey |-> entry[e].runKey, attempts |-> entry[e].attempts]

\* The entry has not moved on since the id was made: the runKey and attempts parts of the filters.
Current(j) == jobIdFor(j.entry) = j

\* Mutant of Held: an id without the attempt.
HeldByRun(j) ==
  \E i \in waiting \cup {l[1] : l \in active} : i.entry = j.entry /\ i.runKey = j.runKey

\* BullMQ holds the id, so it ignores another add.
Held(j) == j \in waiting \/ \E s \in Slot : <<j, s>> \in active

Running(s, j) == slot[s].pc # "idle" /\ slot[s].job = j

Init ==
  /\ entry = [e \in Entry |-> [state |-> "NEW", runKey |-> 0, attempts |-> 0,
                               token |-> NoSlot, claimAged |-> FALSE,
                               notBefore |-> FALSE, cooling |-> FALSE, aged |-> FALSE]]
  /\ waiting = {} /\ active = {} /\ stalled = {} /\ paused = FALSE
  /\ pass = [t \in Thread |-> IdlePass]
  /\ slot = [s \in Slot |-> IdleSlot]
  /\ faults = 0

redis == <<waiting, active, stalled, paused>>

\* Something outside the code goes wrong; a behaviour holds at most MaxFaults of these.
Fault == faults < MaxFaults /\ faults' = faults + 1

-------------------------------------------------------------------------------
(* The API: enqueue and the Jobs page.                                         *)

\* enqueue(session, ...): the entry commits with the change it belongs to.
Enqueue(e) ==
  /\ entry[e].state = "NEW"
  /\ entry' = [entry EXCEPT ![e].state = "PENDING"]
  /\ UNCHANGED <<redis, pass, slot, faults>>

\* retryJob: a new run from the first attempt; the token of an old claim stays.
RetryJob(e) ==
  /\ entry[e].state = "FAILED"
  /\ entry[e].runKey < MaxRunKey
  /\ entry' = [entry EXCEPT ![e] =
       [@ EXCEPT !.state = "PENDING", !.attempts = 0, !.runKey = entry[e].runKey + 1,
                 !.notBefore = FALSE, !.aged = FALSE]]
  /\ UNCHANGED <<redis, pass, slot, faults>>

\* dismissJob, and enqueueClassification's updateMany, which dismisses replaced failures.
DismissJob(e) ==
  /\ entry[e].state = "FAILED"
  /\ entry' = [entry EXCEPT ![e].state = "DISMISSED"]
  /\ UNCHANGED <<redis, pass, slot, faults>>

\* The TTL indexes on doneAt and dismissedAt.
Expire(e) ==
  /\ entry[e].state \in {"DONE", "DISMISSED"}
  /\ entry' = [entry EXCEPT ![e].state = "GONE"]
  /\ UNCHANGED <<redis, pass, slot, faults>>

-------------------------------------------------------------------------------
(* The relay.  A pass reads the due entries, then adds and marks them one by   *)
(* one; entries move on between the three.                                     *)

Due(kind, e) ==
  \/ kind = "runOnce" /\ entry[e].state = "PENDING" /\ ~(entry[e].notBefore /\ entry[e].cooling)
  \/ kind = "reofferOnce" /\ entry[e].state = "QUEUED" /\ entry[e].aged

RelayRead(t) ==
  LET due == {jobIdFor(e) : e \in {f \in Entry : Due(t[2], f)}} IN
  /\ pass[t] = IdlePass
  /\ due # {}
  /\ pass' = [pass EXCEPT ![t].batch = due]
  /\ UNCHANGED <<entry, redis, slot, faults>>

\* offer(entry): BullMQ ignores an add whose job id it holds.
RelayOffer(t, j) ==
  /\ j \in pass[t].batch
  /\ pass[t].marking = NoJob
  /\ waiting' = IF Held(j) THEN waiting ELSE waiting \cup {j}
  /\ pass' = [pass EXCEPT ![t] = [batch |-> @.batch \ {j}, marking |-> j]]
  /\ UNCHANGED <<entry, active, stalled, paused, slot, faults>>

\* The filter of the update after an add, with the state the pass looks for.
MarkMatches(kind, j) ==
  /\ entry[j.entry].state = (IF kind = "runOnce" THEN "PENDING" ELSE "QUEUED")
  /\ Current(j)

Marked(kind, r) ==
  [r EXCEPT !.state = "QUEUED", !.aged = FALSE, !.notBefore = @ /\ kind # "runOnce"]

RelayMark(t) ==
  LET j == pass[t].marking IN
  /\ j # NoJob
  /\ entry' = IF MarkMatches(t[2], j) THEN [entry EXCEPT ![j.entry] = Marked(t[2], @)] ELSE entry
  /\ pass' = [pass EXCEPT ![t].marking = NoJob]
  /\ UNCHANGED <<redis, slot, faults>>

\* guarded: Redis or MongoDB fails a call, or the process dies; the rest of the pass is dropped.
RelayFails(t) ==
  /\ pass[t] # IdlePass
  /\ Fault
  /\ pass' = [pass EXCEPT ![t] = IdlePass]
  /\ UNCHANGED <<entry, redis, slot>>

-------------------------------------------------------------------------------
(* BullMQ, as the code uses it.                                                *)

Deliver(s, j) ==
  /\ ~paused
  /\ j \in waiting
  /\ slot[s].pc = "idle"
  /\ waiting' = waiting \ {j}
  /\ active' = active \cup {<<j, s>>}
  /\ slot' = [slot EXCEPT ![s] = [IdleSlot EXCEPT !.pc = "load", !.job = j, !.takeOver = j \in stalled]]
  /\ UNCHANGED <<entry, stalled, paused, pass, faults>>

\* A stalled check finds the lock expired: the job waits again once, and is removed the second time.
Stall(j, s) ==
  /\ <<j, s>> \in active
  /\ active' = active \ {<<j, s>>}
  /\ IF j \in stalled
     THEN stalled' = stalled \ {j} /\ UNCHANGED waiting
     ELSE stalled' = stalled \cup {j} /\ waiting' = waiting \cup {j}
  /\ UNCHANGED <<entry, paused, pass, slot>>

\* The worker that took the job is dead.
StallDead(j, s) == ~Running(s, j) /\ Stall(j, s) /\ UNCHANGED faults

\* The worker is alive but could not renew its lock in time (a blocked event loop, a slow link).
StallAlive(j, s) == Running(s, j) /\ Stall(j, s) /\ Fault

\* Redis loses its data.
Flush ==
  /\ Fault
  /\ waiting' = {} /\ active' = {} /\ stalled' = {} /\ paused' = FALSE
  /\ UNCHANGED <<entry, pass, slot>>

\* The limit set by queue.rateLimit(ms) runs out.
PauseLapses ==
  /\ paused
  /\ paused' = FALSE
  /\ UNCHANGED <<entry, waiting, active, stalled, pass, slot, faults>>

-------------------------------------------------------------------------------
(* A worker slot: executeEntry, one step per call it makes.                    *)

Goto(s, pc) == slot' = [slot EXCEPT ![s].pc = pc]

\* findById and the first early return.
Load(s) ==
  LET j == slot[s].job
      seen == entry[j.entry].state IN
  /\ slot[s].pc = "load"
  /\ IF seen \notin FINISHED \cup {"GONE"} /\ Current(j)
     THEN IF s \in OldSlot
          THEN slot' = [slot EXCEPT ![s] = [@ EXCEPT !.pc = "reject", !.seen = seen]]
          ELSE Goto(s, "claim")
     ELSE Goto(s, "ack")
  /\ UNCHANGED <<entry, redis, pass, faults>>

\* Mutant of UnknownType: the failure does not count as an attempt.
UnknownTypeUncounted(s) ==
  LET j == slot[s].job IN
  /\ slot[s].pc = "reject"
  /\ entry' = IF Current(j) /\ entry[j.entry].state = slot[s].seen
              THEN [entry EXCEPT ![j.entry].state = "FAILED"]
              ELSE entry
  /\ Goto(s, "ack")
  /\ UNCHANGED <<redis, pass, faults>>

\* No handler for the type: the entry fails, if it is still as it was read.
UnknownType(s) ==
  LET j == slot[s].job IN
  /\ slot[s].pc = "reject"
  /\ entry' = IF Current(j) /\ entry[j.entry].state = slot[s].seen
              THEN [entry EXCEPT ![j.entry] = [@ EXCEPT !.state = "FAILED", !.attempts = j.attempts + 1]]
              ELSE entry
  /\ Goto(s, "ack")
  /\ UNCHANGED <<redis, pass, faults>>

\* Mutant of Claimable: a claim never gets too old.
ClaimableForever(s, e) == slot[s].takeOver \/ entry[e].token = NoSlot

\* A claim another delivery holds may be taken over.
Claimable(s, e) == slot[s].takeOver \/ entry[e].token = NoSlot \/ entry[e].claimAged

Claim(s) ==
  LET j == slot[s].job IN
  /\ slot[s].pc = "claim"
  /\ IF Current(j) /\ entry[j.entry].state \in Open /\ Claimable(s, j.entry)
     THEN /\ entry' = [entry EXCEPT ![j.entry] = [@ EXCEPT !.token = s, !.claimAged = FALSE]]
          /\ Goto(s, "run")
     ELSE UNCHANGED entry /\ Goto(s, "ack")
  /\ UNCHANGED <<redis, pass, faults>>

HandlerSucceeds(s) ==
  /\ slot[s].pc = "run"
  /\ slot' = [slot EXCEPT ![s] = [@ EXCEPT !.pc = "record", !.outcome = "ok"]]
  /\ UNCHANGED <<entry, redis, pass, faults>>

\* Mutant of Final: attempt > maxAttempts.
FinalTooLate(j, retryable) == ~retryable \/ j.attempts + 1 > MaxAttempts

\* jobError.final: a permanent failure, or no attempt left.
Final(j, retryable) == ~retryable \/ j.attempts + 1 >= MaxAttempts

\* handler.run throws; onRateLimited is called first when the provider asked everyone to wait.
HandlerFails(s, retryable, limited) ==
  LET final == Final(slot[s].job, retryable) IN
  /\ slot[s].pc = "run"
  /\ limited => retryable
  /\ slot' = [slot EXCEPT ![s] = [@ EXCEPT !.pc = IF limited /\ ~final THEN "pause" ELSE "record",
                                           !.outcome = IF final THEN "final" ELSE "retry"]]
  /\ UNCHANGED <<entry, redis, pass, faults>>

\* queue.rateLimit(ms); a failure of it is only logged.
PauseQueue(s) ==
  /\ slot[s].pc = "pause"
  /\ paused' \in {TRUE, paused}
  /\ Goto(s, "record")
  /\ UNCHANGED <<entry, waiting, active, stalled, pass, faults>>

\* Mutant of Fenced: the filter names the run, not the attempt or the claim.
FencedByRun(s) == entry[slot[s].job.entry].runKey = slot[s].job.runKey

\* The filter of every terminal write: this run, this attempt, this claim.  It names no state.
Fenced(s) == Current(slot[s].job) /\ entry[slot[s].job.entry].token = s

\* The attempt is counted and the claim released; only a retry waits.
Recorded(r, outcome, state, attempt) ==
  [state |-> state, runKey |-> r.runKey, attempts |-> attempt,
   token |-> NoSlot, claimAged |-> FALSE,
   notBefore |-> outcome = "retry" \/ (outcome = "final" /\ r.notBefore),
   cooling |-> outcome = "retry", aged |-> r.aged]

Record(s, outcome, state) ==
  LET e == slot[s].job.entry IN
  /\ slot[s].pc = "record" /\ slot[s].outcome = outcome
  /\ Fenced(s)
  /\ entry' = [entry EXCEPT ![e] = Recorded(@, outcome, state, slot[s].job.attempts + 1)]
  /\ Goto(s, "ack")
  /\ UNCHANGED <<redis, pass, faults>>

RecordDone(s) == Record(s, "ok", "DONE")
RecordRetry(s) == Record(s, "retry", "PENDING")
RecordFailed(s) == Record(s, "final", "FAILED")

\* matchedCount is 0: the attempt was taken over or recorded by another delivery.
RecordStale(s) ==
  /\ slot[s].pc = "record"
  /\ ~Fenced(s)
  /\ Goto(s, "ack")
  /\ UNCHANGED <<entry, redis, pass, faults>>

\* The processor returned: BullMQ removes the job, if this delivery still holds its lock.
Ack(s) ==
  LET j == slot[s].job IN
  /\ slot[s].pc = "ack"
  /\ active' = active \ {<<j, s>>}
  /\ stalled' = IF <<j, s>> \in active THEN stalled \ {j} ELSE stalled
  /\ slot' = [slot EXCEPT ![s] = IdleSlot]
  /\ UNCHANGED <<entry, waiting, paused, pass, faults>>

\* MongoDB fails a call: the processor throws, and BullMQ removes the failed job.
RunError(s) ==
  /\ slot[s].pc \in {"load", "reject", "claim", "record"}
  /\ Fault
  /\ Goto(s, "ack")
  /\ UNCHANGED <<entry, redis, pass>>

\* The process dies; its job stays active in Redis and its claim stays in MongoDB.
WorkerDies(s) ==
  /\ slot[s].pc # "idle"
  /\ Fault
  /\ slot' = [slot EXCEPT ![s] = IdleSlot]
  /\ UNCHANGED <<entry, redis, pass>>

-------------------------------------------------------------------------------
(* Time.                                                                       *)

CoolDown(e) ==
  /\ entry[e].cooling
  /\ entry' = [entry EXCEPT ![e].cooling = FALSE]
  /\ UNCHANGED <<redis, pass, slot, faults>>

AgeQueued(e) ==
  /\ entry[e].state = "QUEUED" /\ ~entry[e].aged
  /\ entry' = [entry EXCEPT ![e].aged = TRUE]
  /\ UNCHANGED <<redis, pass, slot, faults>>

AgeClaim(e) ==
  /\ entry[e].token # NoSlot /\ ~entry[e].claimAged
  /\ entry' = [entry EXCEPT ![e].claimAged = TRUE]
  /\ UNCHANGED <<redis, pass, slot, faults>>

-------------------------------------------------------------------------------
EntryNext(e) ==
  \/ Enqueue(e) \/ RetryJob(e) \/ DismissJob(e) \/ Expire(e)
  \/ CoolDown(e) \/ AgeQueued(e) \/ AgeClaim(e)

RelayNext(t) ==
  \/ RelayRead(t) \/ RelayMark(t) \/ RelayFails(t)
  \/ \E j \in pass[t].batch : RelayOffer(t, j)

QueueNext(s) ==
  \/ \E j \in waiting : Deliver(s, j)
  \/ \E l \in active : l[2] = s /\ (StallDead(l[1], s) \/ StallAlive(l[1], s))

SlotNext(s) ==
  \/ Load(s) \/ UnknownType(s) \/ Claim(s)
  \/ HandlerSucceeds(s)
  \/ \E retryable, limited \in BOOLEAN : HandlerFails(s, retryable, limited)
  \/ PauseQueue(s)
  \/ RecordDone(s) \/ RecordRetry(s) \/ RecordFailed(s) \/ RecordStale(s)
  \/ Ack(s) \/ RunError(s) \/ WorkerDies(s)

Next ==
  \/ \E e \in Entry : EntryNext(e)
  \/ \E t \in Thread : RelayNext(t)
  \/ \E s \in Slot : QueueNext(s) \/ SlotNext(s)
  \/ Flush
  \/ PauseLapses

Spec == Init /\ [][Next]_vars

\* What the timers, the event loop and the supervisor keep doing.  No fairness on administrators,
\* on new work or on failures.
RelayStep(t) == RelayRead(t) \/ RelayMark(t) \/ \E j \in pass[t].batch : RelayOffer(t, j)
SlotStep(s) == SlotNext(s) /\ UNCHANGED faults

Fairness ==
  /\ \A e \in Entry : WF_vars(CoolDown(e)) /\ WF_vars(AgeQueued(e)) /\ WF_vars(AgeClaim(e))
  /\ \A t \in Thread : WF_vars(RelayStep(t))
  /\ \A s \in Slot : WF_vars(SlotStep(s))
  /\ WF_vars(\E s \in Slot : \E j \in waiting : Deliver(s, j))
  /\ WF_vars(\E s \in Slot : \E l \in active : l[2] = s /\ StallDead(l[1], s))
  /\ WF_vars(PauseLapses)

FairSpec == Spec /\ Fairness

-------------------------------------------------------------------------------
(* Properties.                                                                 *)

RedisOK ==
  /\ waiting \in SUBSET JobId
  /\ active \in SUBSET (JobId \X Slot)
  /\ stalled \in SUBSET JobId
  /\ paused \in BOOLEAN

TypeOK ==
  /\ entry \in [Entry -> EntryRecord]
  /\ RedisOK
  /\ pass \in [Thread -> PassRecord]
  /\ slot \in [Slot -> SlotRecord]
  /\ \A s \in Slot : slot[s].pc # "idle" => slot[s].job # NoJob
  /\ faults \in Nat

\* The slot has claimed its attempt and not yet recorded it.
Claimed(s) == slot[s].pc \in {"run", "pause", "record"}

\* Terminal writes filter on run, attempt and claim but on no state.  This is what makes that safe:
\* while a write's filter would still match, nobody else has finished, dismissed or expired the
\* entry, so a slow delivery can never bring a finished job back to PENDING or redo its end.
FencedWritesFindOpenEntry == \A s \in Slot : Claimed(s) /\ Fenced(s) => entry[slot[s].job.entry].state \in Open

\* A retryable failure waits its time out (relay.js, the notBefore filter and the attempt count in
\* the mark): until then Redis and the workers hold no job for the entry's next attempt, even though
\* the relay that offered the failed attempt may only now get to mark it.
BackoffRespected == \A e \in Entry :
  entry[e].cooling =>
    /\ entry[e].state = "PENDING"
    /\ ~Held(jobIdFor(e))
    /\ \A s \in Slot : ~Running(s, jobIdFor(e))

\* policy.attempts is a limit: an entry that may still run has an attempt left, across crashes,
\* takeovers and duplicate deliveries, and no delivery runs the handler past it.
AttemptBudget ==
  /\ \A e \in Entry : entry[e].state \in Open => entry[e].attempts < MaxAttempts
  /\ \A s \in Slot : Claimed(s) => slot[s].job.attempts < MaxAttempts

\* Retries keep to their policy in number and in time, on a state of the right types: a delivery counts
\* the attempt it was given (execute.js:69-75), and no mark of the relay undoes a wait (relay.js:60).
RetriesKept == TypeOK /\ AttemptBudget /\ BackoffRespected

\* Without failures of the environment, a QUEUED entry always has its job in Redis: the ten-minute
\* re-offer is for lost jobs only.  An id without the attempt breaks it: the retry is then added
\* while the finished attempt's job is still there, ignored, and marked QUEUED all the same.
QueuedIsHeld == \A e \in Entry : entry[e].state = "QUEUED" => Held(jobIdFor(e))

\* Without failures of the environment, no two slots run the handler of the same entry at once,
\* however many relays offer it and however old the claim gets.
OneRunner == \A r, s \in Slot : Claimed(r) /\ Claimed(s) /\ slot[r].job.entry = slot[s].job.entry => r = s

\* The stage of an entry as the callers of the job system see it.
StageOf(state) == CASE state = "NEW" -> "unborn"
                    [] state \in Open -> "waiting"
                    [] state = "DONE" -> "done"
                    [] state = "FAILED" -> "failed"
                    [] state = "DISMISSED" -> "dismissed"
                    [] state = "GONE" -> "gone"

JobOf(e) == [stage |-> StageOf(entry[e].state), attempts |-> entry[e].attempts, run |-> entry[e].runKey]

jobs == [e \in Entry |-> JobOf(e)]

Lifecycle == INSTANCE JobLifecycle WITH job <- jobs

\* The pipeline keeps the promise of JobLifecycle: each attempt is recorded once, in order, and a
\* job that has ended comes back only through an administrator's retry.
ImplementsLifecycle == Lifecycle!Spec

\* Every job that may run ends: no crash, lost job, flush or stuck claim leaves it waiting for ever.
EveryJobEnds == \A e \in Entry :
  (entry[e].state \in Open) ~> (entry[e].state \in FINISHED \cup {"GONE"})
===============================================================================
