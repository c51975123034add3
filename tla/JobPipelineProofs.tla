-------------------------- MODULE JobPipelineProofs ---------------------------
(* Proofs about JobPipeline, for every number of entries, relays, slots,       *)
(* attempts, retries and failures.                                             *)
EXTENDS MCJobPipeline, TLAPS

-------------------------------------------------------------------------------
(* Which steps touch the entries, and which touch a slot.                      *)

EntryWrite ==
  \/ \E e \in Entry : EntryNext(e)
  \/ \E t \in Thread : RelayMark(t)
  \/ \E s \in Slot : UnknownType(s) \/ Claim(s) \/ RecordDone(s) \/ RecordRetry(s) \/ RecordFailed(s)

\* Only the steps of EntryWrite change an entry.
LEMMA EntrySteps == [Next]_vars => EntryWrite \/ UNCHANGED entry
<1> SUFFICES ASSUME [Next]_vars, ~EntryWrite PROVE UNCHANGED entry
  OBVIOUS
<1>1. ASSUME NEW t \in Thread, RelayNext(t) PROVE UNCHANGED entry
  BY <1>1 DEF RelayNext, RelayRead, RelayFails, RelayOffer, EntryWrite
<1>2. ASSUME NEW s \in Slot, QueueNext(s) PROVE UNCHANGED entry
  BY <1>2 DEF QueueNext, Deliver, StallDead, StallAlive, Stall
<1>3. ASSUME NEW s \in Slot, SlotNext(s) PROVE UNCHANGED entry
  BY <1>3 DEF SlotNext, Load, HandlerSucceeds, HandlerFails, PauseQueue, RecordStale, Ack, RunError,
              WorkerDies, EntryWrite
<1>4. CASE Flush \/ PauseLapses \/ UNCHANGED vars
  BY <1>4 DEF Flush, PauseLapses, vars
<1> QED BY <1>1, <1>2, <1>3, <1>4 DEF Next, EntryWrite

\* Only a slot's own steps and deliveries change the slots.
LEMMA SlotSteps ==
  [Next]_vars => \/ \E s \in Slot : SlotNext(s)
                 \/ \E s \in Slot : \E j \in waiting : Deliver(s, j)
                 \/ UNCHANGED slot
<1> SUFFICES ASSUME [Next]_vars, \A s \in Slot : ~SlotNext(s), \A s \in Slot : \A j \in waiting : ~Deliver(s, j)
             PROVE UNCHANGED slot
  OBVIOUS
<1>1. ASSUME NEW e \in Entry, EntryNext(e) PROVE UNCHANGED slot
  BY <1>1 DEF EntryNext, Enqueue, RetryJob, DismissJob, Expire, CoolDown, AgeQueued, AgeClaim
<1>2. ASSUME NEW t \in Thread, RelayNext(t) PROVE UNCHANGED slot
  BY <1>2 DEF RelayNext, RelayRead, RelayMark, RelayFails, RelayOffer
<1>3. ASSUME NEW s \in Slot, QueueNext(s) PROVE UNCHANGED slot
  BY <1>3 DEF QueueNext, StallDead, StallAlive, Stall
<1>4. CASE Flush \/ PauseLapses \/ UNCHANGED vars
  BY <1>4 DEF Flush, PauseLapses, vars
<1> QED BY <1>1, <1>2, <1>3, <1>4 DEF Next

-------------------------------------------------------------------------------
(* Types.                                                                      *)

\* What the relay, a retry and a terminal write make of a well-formed entry is well-formed.
LEMMA MarkedType == \A r \in EntryRecord : \A kind : Marked(kind, r) \in EntryRecord
<1> SUFFICES ASSUME NEW r \in EntryRecord, NEW kind PROVE Marked(kind, r) \in EntryRecord
  OBVIOUS
<1> DEFINE later == r.notBefore /\ kind # "runOnce"
<1>1. later \in BOOLEAN
  OBVIOUS
<1>2. Marked(kind, r) = [r EXCEPT !.state = "QUEUED", !.aged = FALSE, !.notBefore = later]
  BY DEF Marked
<1> HIDE DEF later
<1> QED BY <1>1, <1>2 DEF EntryRecord, State

\* An administrator's retry leaves a well-formed entry.
LEMMA RetriedType ==
  ASSUME NEW r \in EntryRecord, NEW run \in Nat
  PROVE  [r EXCEPT !.state = "PENDING", !.attempts = 0, !.runKey = run,
                   !.notBefore = FALSE, !.aged = FALSE] \in EntryRecord
BY DEF EntryRecord, State

\* A terminal write leaves a well-formed entry.
LEMMA RecordedType ==
  ASSUME NEW r \in EntryRecord, NEW outcome, NEW state \in State, NEW attempt \in Nat
  PROVE  Recorded(r, outcome, state, attempt) \in EntryRecord
<1> DEFINE cool == outcome = "retry"
           later == cool \/ (outcome = "final" /\ r.notBefore)
<1>1. cool \in BOOLEAN /\ later \in BOOLEAN
  OBVIOUS
<1>2. Recorded(r, outcome, state, attempt) =
        [state |-> state, runKey |-> r.runKey, attempts |-> attempt, token |-> NoSlot,
         claimAged |-> FALSE, notBefore |-> later, cooling |-> cool, aged |-> r.aged]
  BY DEF Recorded
<1> HIDE DEF cool, later
<1> QED BY <1>1, <1>2 DEF EntryRecord

\* Every write to an outbox entry leaves a well-formed entry.
LEMMA EntryType == TypeOK /\ [Next]_vars => entry' \in [Entry -> EntryRecord]
<1> DEFINE Typed == entry' \in [Entry -> EntryRecord]
<1> SUFFICES ASSUME TypeOK, [Next]_vars PROVE Typed
  OBVIOUS
<1>0. entry \in [Entry -> EntryRecord]
  BY DEF TypeOK
<1>1. ASSUME NEW e \in Entry, NEW r \in EntryRecord, entry' = [entry EXCEPT ![e] = r] PROVE Typed
  BY <1>0, <1>1
<1>2. ASSUME NEW e \in Entry, EntryNext(e) PROVE Typed
  <2> USE <1>0 DEF EntryRecord
  <2>1. CASE Enqueue(e)     BY <2>1 DEF Enqueue, State
  <2>2. CASE RetryJob(e)
    <3> USE DEF EntryRecord
    <3>1. entry[e].runKey + 1 \in Nat
      OBVIOUS
    <3> QED BY <1>1, <2>2, <3>1, RetriedType, ZenonT(60) DEF RetryJob
  <2>3. CASE DismissJob(e)  BY <2>3 DEF DismissJob, State
  <2>4. CASE Expire(e)      BY <2>4 DEF Expire, State
  <2>5. CASE CoolDown(e)    BY <2>5 DEF CoolDown
  <2>6. CASE AgeQueued(e)   BY <2>6 DEF AgeQueued
  <2>7. CASE AgeClaim(e)    BY <2>7 DEF AgeClaim
  <2> QED BY <1>2, <2>1, <2>2, <2>3, <2>4, <2>5, <2>6, <2>7 DEF EntryNext
<1>3. ASSUME NEW t \in Thread, RelayMark(t) PROVE Typed
  <2>1. pass[t].marking.entry \in Entry
    BY <1>3 DEF TypeOK, RelayMark, PassRecord, JobId
  <2>2. Marked(t[2], entry[pass[t].marking.entry]) \in EntryRecord
    BY <1>0, <2>1, MarkedType
  <2> QED BY <1>0, <1>1, <1>3, <2>1, <2>2 DEF RelayMark
<1>4. ASSUME NEW s \in Slot, slot[s].pc # "idle"
      PROVE slot[s].job.entry \in Entry /\ slot[s].job.attempts + 1 \in Nat
  BY <1>4 DEF TypeOK, SlotRecord, JobId
<1>5. ASSUME NEW s \in Slot, UnknownType(s) PROVE Typed
  <2> DEFINE r == entry[slot[s].job.entry]
             n == slot[s].job.attempts + 1
  <2>1. n \in Nat /\ r \in EntryRecord
    BY <1>0, <1>4, <1>5 DEF UnknownType
  <2>2. [r EXCEPT !.state = "FAILED", !.attempts = n] \in EntryRecord
    <3> HIDE DEF r, n
    <3> QED BY <2>1 DEF EntryRecord, State
  <2> QED BY <1>0, <1>1, <1>4, <1>5, <2>2 DEF UnknownType
<1>6. ASSUME NEW s \in Slot, Claim(s) PROVE Typed
  <2> DEFINE r == entry[slot[s].job.entry]
  <2>1. [r EXCEPT !.token = s, !.claimAged = FALSE] \in EntryRecord
    <3>1. r \in EntryRecord
      BY <1>0, <1>4, <1>6 DEF Claim
    <3> HIDE DEF r
    <3> QED BY <3>1 DEF EntryRecord
  <2> QED BY <1>0, <1>1, <1>4, <1>6, <2>1 DEF Claim
<1>7. ASSUME NEW s \in Slot, NEW outcome, NEW state \in State, Record(s, outcome, state) PROVE Typed
  <2>1. Recorded(entry[slot[s].job.entry], outcome, state, slot[s].job.attempts + 1) \in EntryRecord
    BY <1>0, <1>4, <1>7, RecordedType DEF Record
  <2> QED BY <1>1, <1>4, <1>7, <2>1 DEF Record
<1>8. ASSUME NEW s \in Slot, RecordDone(s) \/ RecordRetry(s) \/ RecordFailed(s) PROVE Typed
  BY <1>7, <1>8 DEF RecordDone, RecordRetry, RecordFailed, State
<1> QED BY <1>0, EntrySteps, <1>2, <1>3, <1>5, <1>6, <1>8 DEF EntryWrite

\* A slot between deliveries is idle, and one in a delivery has its job.
SlotTyped ==
  /\ slot \in [Slot -> SlotRecord]
  /\ \A s \in Slot : slot[s].pc # "idle" => slot[s].job # NoJob

\* A slot stays well-typed, and one that is not idle has a job.
LEMMA SlotType == TypeOK /\ [Next]_vars => SlotTyped'
<1> SUFFICES ASSUME TypeOK, [Next]_vars PROVE SlotTyped'
  OBVIOUS
<1> USE DEF TypeOK, SlotTyped, SlotRecord
<1>1. ASSUME NEW s \in Slot, NEW pc \in Step, Goto(s, pc), slot[s].pc # "idle" PROVE SlotTyped'
  BY <1>1 DEF Goto
<1>2. ASSUME NEW s \in Slot, slot' = [slot EXCEPT ![s] = IdleSlot] PROVE SlotTyped'
  BY <1>2 DEF IdleSlot, Step, State, Outcome
<1>3. ASSUME NEW s \in Slot, NEW j \in waiting, Deliver(s, j) PROVE SlotTyped'
  <2> DEFINE late == j \in stalled
  <2>1. late \in BOOLEAN /\ j \in JobId
    BY DEF RedisOK
  <2>2. slot' = [slot EXCEPT ![s] = [IdleSlot EXCEPT !.pc = "load", !.job = j, !.takeOver = late]]
    BY <1>3 DEF Deliver
  <2> HIDE DEF late
  <2>3. [IdleSlot EXCEPT !.pc = "load", !.job = j, !.takeOver = late] \in SlotRecord
    BY <2>1 DEF IdleSlot, Step, State, Outcome
  <2> QED BY <2>1, <2>2, <2>3, NamesAssumption DEF IdleSlot
<1>4. ASSUME NEW s \in Slot, SlotNext(s) PROVE SlotTyped'
  <2>1. CASE Load(s)
    <3>1. entry[slot[s].job.entry].state \in State
      BY <2>1 DEF Load, EntryRecord, JobId
    <3>2. CASE Goto(s, "claim") \/ Goto(s, "ack")
      BY <1>1, <2>1, <3>2 DEF Load, Step
    <3>3. CASE slot' = [slot EXCEPT ![s] = [@ EXCEPT !.pc = "reject", !.seen = entry[slot[s].job.entry].state]]
      <4> DEFINE seen == entry[slot[s].job.entry].state
      <4>1. slot[s].pc # "idle"
        BY <2>1 DEF Load
      <4> HIDE DEF seen
      <4> QED BY <3>1, <3>3, <4>1 DEF Step, seen
    <3> QED BY <2>1, <3>2, <3>3 DEF Load
  <2>2. CASE HandlerSucceeds(s)
    BY <2>2 DEF HandlerSucceeds, Step, Outcome
  <2>3. ASSUME NEW retryable \in BOOLEAN, NEW limited \in BOOLEAN, HandlerFails(s, retryable, limited)
        PROVE SlotTyped'
    <3> DEFINE final == Final(slot[s].job, retryable)
               pc == IF limited /\ ~final THEN "pause" ELSE "record"
               outcome == IF final THEN "final" ELSE "retry"
    <3>1. pc \in Step \ {"idle"} /\ outcome \in Outcome
      BY DEF Step, Outcome
    <3>2. slot[s].pc # "idle" /\ slot' = [slot EXCEPT ![s] = [@ EXCEPT !.pc = pc, !.outcome = outcome]]
      BY <2>3 DEF HandlerFails
    <3> HIDE DEF pc, outcome
    <3> QED BY <3>1, <3>2
  <2>4. CASE UnknownType(s) \/ Claim(s) \/ PauseQueue(s) \/ RecordStale(s) \/ RunError(s)
    BY <1>1, <2>4 DEF UnknownType, Claim, PauseQueue, RecordStale, RunError, Step
  <2>5. CASE RecordDone(s) \/ RecordRetry(s) \/ RecordFailed(s)
    BY <1>1, <2>5 DEF RecordDone, RecordRetry, RecordFailed, Record, Step
  <2>6. CASE Ack(s) \/ WorkerDies(s)
    BY <1>2, <2>6 DEF Ack, WorkerDies
  <2> QED BY <1>4, <2>1, <2>2, <2>3, <2>4, <2>5, <2>6 DEF SlotNext
<1> QED BY SlotSteps, <1>3, <1>4

\* Redis holds ids and locks only, and the passes hold ids.
LEMMA RedisType == TypeOK /\ [Next]_vars => RedisOK' /\ faults' \in Nat
<1> SUFFICES ASSUME TypeOK, [Next]_vars PROVE RedisOK' /\ faults' \in Nat
  OBVIOUS
<1> USE DEF TypeOK, RedisOK
<1>1. ASSUME NEW e \in Entry, EntryNext(e) PROVE UNCHANGED <<redis, faults>>
  BY <1>1 DEF EntryNext, Enqueue, RetryJob, DismissJob, Expire, CoolDown, AgeQueued, AgeClaim
<1>2. ASSUME NEW t \in Thread, RelayRead(t) \/ RelayMark(t) PROVE UNCHANGED <<redis, faults>>
  BY <1>2 DEF RelayRead, RelayMark
<1>3. ASSUME NEW t \in Thread, RelayFails(t) PROVE UNCHANGED redis /\ faults' \in Nat
  BY <1>3 DEF RelayFails, Fault
<1>4. ASSUME NEW t \in Thread, NEW j \in pass[t].batch, RelayOffer(t, j)
      PROVE RedisOK' /\ faults' \in Nat
  <2>1. j \in JobId
    BY DEF PassRecord
  <2> QED BY <1>4, <2>1 DEF RelayOffer
<1>5. ASSUME NEW s \in Slot, NEW j \in waiting, Deliver(s, j) PROVE RedisOK' /\ faults' \in Nat
  BY <1>5 DEF Deliver
<1>6. ASSUME NEW s \in Slot, NEW l \in active, l[2] = s, StallDead(l[1], s) \/ StallAlive(l[1], s)
      PROVE RedisOK' /\ faults' \in Nat
  <2>1. Stall(l[1], s) /\ faults' \in Nat
    BY <1>6 DEF StallDead, StallAlive, Fault
  <2> QED BY <2>1 DEF Stall
<1>7. ASSUME NEW s \in Slot, SlotNext(s) PROVE RedisOK' /\ faults' \in Nat
  <2>1. CASE PauseQueue(s)
    BY <2>1 DEF PauseQueue
  <2>2. CASE Ack(s)
    BY <2>2 DEF Ack
  <2>3. CASE RunError(s) \/ WorkerDies(s)
    <3>1. UNCHANGED redis /\ faults' \in Nat
      BY <2>3 DEF RunError, WorkerDies, Fault
    <3> QED BY <3>1 DEF redis
  <2>4. CASE UNCHANGED <<redis, faults>>
    BY <2>4 DEF redis
  <2> QED BY <1>7, <2>1, <2>2, <2>3, <2>4
          DEF SlotNext, Load, UnknownType, Claim, HandlerSucceeds, HandlerFails, Record, RecordDone,
              RecordRetry, RecordFailed, RecordStale
<1>8. CASE Flush
  <2>1. waiting' = {} /\ active' = {} /\ stalled' = {} /\ paused' \in BOOLEAN /\ faults' \in Nat
    <3>1. paused' \in BOOLEAN
      BY <1>8 DEF Flush
    <3>2. faults' \in Nat
      BY <1>8 DEF Flush, Fault
    <3> QED BY <1>8, <3>1, <3>2 DEF Flush
  <2> QED BY <2>1
<1>9. CASE PauseLapses
  BY <1>9 DEF PauseLapses
<1>10. CASE UNCHANGED vars
  BY <1>10 DEF vars
<1>11. CASE UNCHANGED redis /\ faults' \in Nat
  BY <1>11 DEF redis
<1> QED BY <1>1, <1>2, <1>3, <1>4, <1>5, <1>6, <1>7, <1>8, <1>9, <1>10, <1>11
        DEF Next, RelayNext, QueueNext

\* A relay's pass stays well-typed: it holds ids of entries that exist.
LEMMA PassType == TypeOK /\ [Next]_vars => pass' \in [Thread -> PassRecord]
<1> DEFINE Typed == pass' \in [Thread -> PassRecord]
<1> SUFFICES ASSUME TypeOK, [Next]_vars PROVE Typed
  OBVIOUS
<1>0. pass \in [Thread -> PassRecord]
  BY DEF TypeOK
<1>1. ASSUME NEW t \in Thread, RelayNext(t) PROVE Typed
  <2> USE <1>0
  <2>1. CASE RelayRead(t)
    <3> DEFINE due == {jobIdFor(e) : e \in {f \in Entry : Due(t[2], f)}}
    <3>1. due \in SUBSET JobId
      BY DEF TypeOK, jobIdFor, JobId, EntryRecord
    <3>2. pass' = [pass EXCEPT ![t].batch = due]
      BY <2>1 DEF RelayRead
    <3> HIDE DEF due
    <3> QED BY <3>1, <3>2 DEF PassRecord
  <2>2. ASSUME NEW j \in pass[t].batch, RelayOffer(t, j) PROVE Typed
    BY <2>2 DEF RelayOffer, PassRecord
  <2>3. CASE RelayMark(t)
    BY <2>3 DEF RelayMark, PassRecord
  <2>4. CASE RelayFails(t)
    BY <2>4 DEF RelayFails, PassRecord, IdlePass
  <2> QED BY <1>1, <2>1, <2>2, <2>3, <2>4 DEF RelayNext
<1>2. ASSUME NEW e \in Entry, EntryNext(e) PROVE UNCHANGED pass
  BY <1>2 DEF EntryNext, Enqueue, RetryJob, DismissJob, Expire, CoolDown, AgeQueued, AgeClaim
<1>3. ASSUME NEW s \in Slot, QueueNext(s) PROVE UNCHANGED pass
  BY <1>3 DEF QueueNext, Deliver, StallDead, StallAlive, Stall
<1>4. ASSUME NEW s \in Slot, SlotNext(s) PROVE UNCHANGED pass
  BY <1>4 DEF SlotNext, Load, UnknownType, Claim, HandlerSucceeds, HandlerFails, PauseQueue, Record,
              RecordDone, RecordRetry, RecordFailed, RecordStale, Ack, RunError, WorkerDies
<1>5. CASE Flush
  BY <1>0, <1>5 DEF Flush
<1>6. CASE PauseLapses
  BY <1>0, <1>6 DEF PauseLapses
<1>7. CASE UNCHANGED vars
  BY <1>0, <1>7 DEF vars
<1> QED BY <1>0, <1>1, <1>2, <1>3, <1>4, <1>5, <1>6, <1>7 DEF Next

\* The variables are well-typed at the start.
LEMMA InitType == Init => TypeOK
<1> SUFFICES ASSUME Init PROVE TypeOK
  OBVIOUS
<1> USE DEF Init
<1>1. entry \in [Entry -> EntryRecord]
  BY DEF EntryRecord, State
<1>2. pass \in [Thread -> PassRecord]
  BY DEF PassRecord, IdlePass
<1>3. slot \in [Slot -> SlotRecord] /\ \A s \in Slot : slot[s].pc = "idle"
  BY DEF SlotRecord, IdleSlot, Step, State, Outcome
<1>4. RedisOK
  BY DEF RedisOK
<1> QED BY <1>1, <1>2, <1>3, <1>4 DEF TypeOK

\* Each variable of the pipeline keeps its type (TypeOK), whatever fails and however deliveries,
\* relays and administrators interleave.
THEOREM TypeCorrect == Spec => []TypeOK
<1>1. TypeOK /\ [Next]_vars => TypeOK'
  BY EntryType, SlotType, RedisType, PassType DEF TypeOK, SlotTyped
<1> QED BY <1>1, InitType, PTL DEF Spec

-------------------------------------------------------------------------------
(* The inductive invariant.                                                    *)

\* Somebody still holds the id: Redis, a pass of a relay, or a delivery.
InFlight(j) ==
  \/ j \in waiting
  \/ \E s \in Slot : <<j, s>> \in active
  \/ \E t \in Thread : j \in pass[t].batch \/ j = pass[t].marking
  \/ \E s \in Slot : j = slot[s].job

\* The entry was written and has reached this run and this attempt.
Issued(j) ==
  /\ entry[j.entry].state # "NEW"
  /\ \/ j.runKey < entry[j.entry].runKey
     \/ j.runKey = entry[j.entry].runKey /\ j.attempts <= entry[j.entry].attempts

\* Ids are only ever behind their entries, so a write that moves an entry on leaves every id in
\* flight stale.
NoFutureJob == \A j \in JobId : InFlight(j) => Issued(j)

\* While a retry waits, nobody holds the id of its next attempt.
CoolingIsAlone == \A e \in Entry :
  entry[e].cooling => entry[e].state = "PENDING" /\ entry[e].notBefore /\ ~InFlight(jobIdFor(e))

\* AttemptBudget, with what keeps it: a retry is decided on only when another attempt is left.
BudgetKept ==
  /\ \A e \in Entry : entry[e].state \in Open \cup {"NEW"} => entry[e].attempts < MaxAttempts
  /\ \A s \in Slot : Claimed(s) => slot[s].job.attempts < MaxAttempts
  /\ \A s \in Slot : slot[s].pc \in {"pause", "record"} /\ slot[s].outcome = "retry"
                        => slot[s].job.attempts + 1 < MaxAttempts

\* A delivery without a handler goes on to fail only an entry it read as open.
SeenOpen == \A s \in Slot : slot[s].pc = "reject" => slot[s].seen \in Open

IInv == TypeOK /\ NoFutureJob /\ SeenOpen /\ CoolingIsAlone /\ BudgetKept /\ FencedWritesFindOpenEntry

-------------------------------------------------------------------------------
\* A job id comes into being only when a relay reads a due entry, and that step writes no entry.
LEMMA NewJobs ==
  ASSUME TypeOK, [Next]_vars, NEW j \in JobId, InFlight(j)'
  PROVE  InFlight(j) \/ (UNCHANGED entry /\ \E t \in Thread : Due(t[2], j.entry) /\ j = jobIdFor(j.entry))
<1> USE NamesAssumption
<1> DEFINE Goal == InFlight(j) \/ (UNCHANGED entry /\ \E t \in Thread : Due(t[2], j.entry) /\ j = jobIdFor(j.entry))
<1>1. ASSUME NEW e \in Entry, EntryNext(e) PROVE Goal
  BY <1>1 DEF EntryNext, Enqueue, RetryJob, DismissJob, Expire, CoolDown, AgeQueued, AgeClaim, redis, InFlight
<1>2. ASSUME NEW t \in Thread, RelayRead(t) PROVE Goal
  <2> DEFINE due == {jobIdFor(e) : e \in {f \in Entry : Due(t[2], f)}}
  <2>1. j \in due => Goal
    BY <1>2 DEF RelayRead, jobIdFor
  <2>2. pass' = [pass EXCEPT ![t].batch = due] /\ UNCHANGED <<redis, slot>>
    BY <1>2 DEF RelayRead
  <2> HIDE DEF due
  <2>3. j \in due \/ InFlight(j)
    BY <2>2 DEF TypeOK, PassRecord, InFlight, redis
  <2> QED BY <2>1, <2>3
<1>3. ASSUME NEW t \in Thread, NEW i \in pass[t].batch, RelayOffer(t, i) PROVE InFlight(j)
  BY <1>3 DEF RelayOffer, TypeOK, PassRecord, InFlight
<1>4. ASSUME NEW t \in Thread, RelayMark(t) PROVE InFlight(j)
  BY <1>4 DEF RelayMark, TypeOK, PassRecord, InFlight, redis
<1>5. ASSUME NEW t \in Thread, RelayFails(t) PROVE InFlight(j)
  BY <1>5 DEF RelayFails, IdlePass, TypeOK, PassRecord, InFlight, redis
<1>6. ASSUME NEW s \in Slot, NEW i \in waiting, Deliver(s, i) PROVE InFlight(j)
  <2>1. \A r \in Slot : slot'[r].job = slot[r].job \/ slot'[r].job = i
    BY <1>6 DEF Deliver, TypeOK, IdleSlot
  <2> QED BY <1>6, <2>1 DEF Deliver, InFlight
<1>7. ASSUME NEW s \in Slot, NEW l \in active, l[2] = s, Stall(l[1], s) PROVE InFlight(j)
  BY <1>7 DEF Stall, TypeOK, RedisOK, InFlight
<1>8. ASSUME NEW s \in Slot, SlotNext(s) PROVE InFlight(j)
  <2>1. \A r \in Slot : slot'[r].job = slot[r].job \/ slot'[r].job = NoJob
    <3> USE DEF TypeOK, SlotRecord
    <3>1. CASE Ack(s) \/ WorkerDies(s)
      BY <3>1 DEF Ack, WorkerDies, IdleSlot
    <3>2. CASE \E pc \in Step : Goto(s, pc)
      BY <3>2 DEF Goto
    <3>3. CASE Load(s)
      <4>1. CASE Goto(s, "claim") \/ Goto(s, "ack")
        BY <4>1 DEF Goto
      <4>2. CASE slot' = [slot EXCEPT ![s] = [@ EXCEPT !.pc = "reject", !.seen = entry[slot[s].job.entry].state]]
        BY <4>2
      <4> QED BY <3>3, <4>1, <4>2 DEF Load
    <3>4. CASE HandlerSucceeds(s)
      BY <3>4 DEF HandlerSucceeds
    <3>5. ASSUME NEW retryable \in BOOLEAN, NEW limited \in BOOLEAN, HandlerFails(s, retryable, limited)
          PROVE \A r \in Slot : slot'[r].job = slot[r].job
      BY <3>5 DEF HandlerFails
    <3> QED BY <1>8, <3>1, <3>2, <3>3, <3>4, <3>5
            DEF SlotNext, UnknownType, Claim, PauseQueue, RecordDone, RecordRetry, RecordFailed, Record,
                RecordStale, RunError, Step
  <2>2. UNCHANGED <<waiting, pass>> /\ active' \subseteq active
    BY <1>8 DEF SlotNext, Load, UnknownType, Claim, HandlerSucceeds, HandlerFails, PauseQueue, RecordDone,
                RecordRetry, RecordFailed, Record, RecordStale, Ack, RunError, WorkerDies, redis
  <2> QED BY <2>1, <2>2 DEF InFlight
<1>9. CASE Flush
  BY <1>9 DEF Flush, InFlight
<1>10. CASE PauseLapses
  BY <1>10 DEF PauseLapses, InFlight
<1>11. CASE UNCHANGED vars
  BY <1>11 DEF vars, InFlight
<1> QED BY <1>1, <1>2, <1>3, <1>4, <1>5, <1>6, <1>7, <1>8, <1>9, <1>10, <1>11
        DEF Next, RelayNext, QueueNext, StallDead, StallAlive

\* A claim writes the token of an entry and the time of the claim, and nothing else.
LEMMA ClaimKeeps ==
  ASSUME TypeOK, NEW s \in Slot, Claim(s), NEW f \in Entry
  PROVE  /\ entry'[f].state = entry[f].state /\ entry'[f].runKey = entry[f].runKey
         /\ entry'[f].attempts = entry[f].attempts
         /\ entry'[f].notBefore = entry[f].notBefore /\ entry'[f].cooling = entry[f].cooling
<1> DEFINE e == slot[s].job.entry
           r == [entry[e] EXCEPT !.token = s, !.claimAged = FALSE]
<1>1. entry \in [Entry -> EntryRecord] /\ e \in Entry
  BY DEF TypeOK, Claim, SlotRecord, JobId
<1>2. /\ r.state = entry[e].state /\ r.runKey = entry[e].runKey /\ r.attempts = entry[e].attempts
      /\ r.notBefore = entry[e].notBefore /\ r.cooling = entry[e].cooling
  BY <1>1 DEF EntryRecord
<1>3. entry' = entry \/ entry' = [entry EXCEPT ![e] = r]
  BY DEF Claim
<1> HIDE DEF e, r
<1> QED BY <1>1, <1>2, <1>3

\* An entry is written once, and its run and attempt counters only move on.
Advances(f) ==
  /\ entry[f].state # "NEW" => entry'[f].state # "NEW"
  /\ \/ entry[f].runKey < entry'[f].runKey
     \/ entry[f].runKey = entry'[f].runKey /\ entry[f].attempts <= entry'[f].attempts

LEMMA EntryAdvances == ASSUME TypeOK, [Next]_vars, NEW f \in Entry PROVE Advances(f)
<1> USE DEF TypeOK, EntryRecord, Advances
<1>1. ASSUME NEW e \in Entry, EntryNext(e) PROVE Advances(f)
  <2>1. CASE Enqueue(e)     BY <2>1 DEF Enqueue
  <2>2. CASE RetryJob(e)    BY <2>2 DEF RetryJob
  <2>3. CASE DismissJob(e)  BY <2>3 DEF DismissJob
  <2>4. CASE Expire(e)      BY <2>4 DEF Expire
  <2>5. CASE CoolDown(e)    BY <2>5 DEF CoolDown
  <2>6. CASE AgeQueued(e)   BY <2>6 DEF AgeQueued
  <2>7. CASE AgeClaim(e)    BY <2>7 DEF AgeClaim
  <2> QED BY <1>1, <2>1, <2>2, <2>3, <2>4, <2>5, <2>6, <2>7 DEF EntryNext
<1>2. ASSUME NEW t \in Thread, RelayMark(t) PROVE Advances(f)
  BY <1>2 DEF RelayMark, Marked, PassRecord, JobId
<1>3. ASSUME NEW s \in Slot, slot[s].pc # "idle" PROVE slot[s].job \in JobId
  BY <1>3 DEF SlotRecord
<1>4. ASSUME NEW s \in Slot, UnknownType(s) \/ Claim(s) PROVE Advances(f)
  <2>1. CASE UnknownType(s)
    BY <1>3, <2>1 DEF UnknownType, Current, jobIdFor, JobId
  <2>2. CASE Claim(s)
    BY <2>2, ClaimKeeps
  <2> QED BY <1>4, <2>1, <2>2
<1>5. ASSUME NEW s \in Slot, NEW outcome, NEW state \in State \ {"NEW"}, Record(s, outcome, state)
      PROVE Advances(f)
  BY <1>3, <1>5 DEF Record, Recorded, Fenced, Current, jobIdFor, JobId
<1>6. ASSUME NEW s \in Slot, RecordDone(s) \/ RecordRetry(s) \/ RecordFailed(s) PROVE Advances(f)
  BY <1>5, <1>6 DEF RecordDone, RecordRetry, RecordFailed, State
<1>7. CASE UNCHANGED entry
  BY <1>7
<1> QED BY EntrySteps, <1>1, <1>2, <1>4, <1>6, <1>7 DEF EntryWrite

\* NoFutureJob is kept: new ids are current, and entries only move on.
LEMMA NoFutureJobStep == IInv /\ [Next]_vars => NoFutureJob'
<1> SUFFICES ASSUME IInv, [Next]_vars, NEW j \in JobId, InFlight(j)' PROVE Issued(j)'
  BY DEF NoFutureJob
<1> DEFINE f == j.entry
<1>1. TypeOK /\ f \in Entry /\ j.runKey \in Nat /\ j.attempts \in Nat
  BY DEF IInv, JobId
<1>2. Advances(f)
  BY <1>1, EntryAdvances
<1>3. entry \in [Entry -> EntryRecord] /\ entry' \in [Entry -> EntryRecord]
  BY <1>1, EntryType DEF TypeOK
<1>4. InFlight(j) \/ (UNCHANGED entry /\ \E t \in Thread : Due(t[2], f) /\ j = jobIdFor(f))
  BY <1>1, NewJobs
<1>5. CASE InFlight(j)
  <2>1. Issued(j)
    BY <1>5 DEF IInv, NoFutureJob
  <2> QED BY <1>1, <1>2, <1>3, <2>1 DEF Issued, Advances, EntryRecord
<1>6. CASE UNCHANGED entry /\ \E t \in Thread : Due(t[2], f) /\ j = jobIdFor(f)
  BY <1>1, <1>3, <1>6 DEF Issued, Due, jobIdFor, EntryRecord
<1> QED BY <1>4, <1>5, <1>6

\* The job of a slot in a delivery is in flight.
LEMMA SlotJob ==
  ASSUME TypeOK, NEW s \in Slot, slot[s].pc # "idle"
  PROVE  /\ slot[s].job \in JobId /\ slot[s].job.entry \in Entry
         /\ slot[s].job.runKey \in Nat /\ slot[s].job.attempts \in Nat
         /\ InFlight(slot[s].job)
BY DEF TypeOK, SlotRecord, JobId, InFlight

\* CoolingIsAlone is kept: the failure that starts a wait makes every id in flight stale.
LEMMA CoolingStep == IInv /\ [Next]_vars => CoolingIsAlone'
<1> SUFFICES ASSUME IInv, [Next]_vars, NEW f \in Entry, entry'[f].cooling
             PROVE  entry'[f].state = "PENDING" /\ entry'[f].notBefore /\ ~InFlight(jobIdFor(f))'
  BY DEF CoolingIsAlone
<1> DEFINE Goal == entry'[f].state = "PENDING" /\ entry'[f].notBefore /\ jobIdFor(f)' = jobIdFor(f)
                     /\ entry[f].cooling
<1>0. TypeOK /\ entry \in [Entry -> EntryRecord] /\ entry' \in [Entry -> EntryRecord] /\ jobIdFor(f)' \in JobId
  BY EntryType DEF IInv, TypeOK, jobIdFor, JobId, EntryRecord
<1>1. entry[f].cooling => entry[f].state = "PENDING" /\ entry[f].notBefore /\ ~InFlight(jobIdFor(f))
  BY DEF IInv, CoolingIsAlone
<1>2. ASSUME NEW e \in Entry, EntryNext(e) PROVE Goal
  <2> USE <1>0, <1>1 DEF EntryRecord, jobIdFor
  <2>1. CASE Enqueue(e)     BY <2>1 DEF Enqueue
  <2>2. CASE RetryJob(e)    BY <2>2 DEF RetryJob
  <2>3. CASE DismissJob(e)  BY <2>3 DEF DismissJob
  <2>4. CASE Expire(e)      BY <2>4 DEF Expire
  <2>5. CASE CoolDown(e)    BY <2>5 DEF CoolDown
  <2>6. CASE AgeQueued(e)   BY <2>6 DEF AgeQueued
  <2>7. CASE AgeClaim(e)    BY <2>7 DEF AgeClaim
  <2> QED BY <1>2, <2>1, <2>2, <2>3, <2>4, <2>5, <2>6, <2>7 DEF EntryNext
<1>3. ASSUME NEW t \in Thread, RelayMark(t) PROVE Goal
  <2> DEFINE j == pass[t].marking
  <2>1. j \in JobId /\ j.entry \in Entry /\ InFlight(j)
    BY <1>0, <1>3 DEF RelayMark, TypeOK, PassRecord, JobId, InFlight
  <2>2. j.entry = f /\ MarkMatches(t[2], j) => ~entry[f].cooling
    BY <1>1, <2>1 DEF MarkMatches, Current
  <2> QED BY <1>0, <1>1, <1>3, <2>1, <2>2 DEF RelayMark, Marked, EntryRecord, jobIdFor
<1>4. ASSUME NEW s \in Slot, UnknownType(s) PROVE Goal
  <2>1. slot[s].job.entry = f /\ Current(slot[s].job) => ~entry[f].cooling
    BY <1>0, <1>1, <1>4, SlotJob DEF UnknownType, Current
  <2> QED BY <1>0, <1>1, <1>4, <2>1, SlotJob DEF UnknownType, EntryRecord, jobIdFor
<1>5. ASSUME NEW s \in Slot, Claim(s) PROVE Goal
  BY <1>0, <1>1, <1>5, ClaimKeeps DEF jobIdFor
<1>6. ASSUME NEW s \in Slot, RecordDone(s) \/ RecordRetry(s) \/ RecordFailed(s), slot[s].job.entry # f
      PROVE Goal
  BY <1>0, <1>1, <1>6, SlotJob DEF RecordDone, RecordRetry, RecordFailed, Record, jobIdFor
<1>7. ASSUME NEW s \in Slot, RecordDone(s) \/ RecordFailed(s), slot[s].job.entry = f PROVE FALSE
  <2>1. CASE RecordDone(s)
    BY <1>0, <1>7, <2>1 DEF RecordDone, Record, Recorded
  <2>2. CASE RecordFailed(s)
    BY <1>0, <1>7, <2>2 DEF RecordFailed, Record, Recorded
  <2> QED BY <1>7, <2>1, <2>2
<1>8. ASSUME NEW s \in Slot, RecordRetry(s), slot[s].job.entry = f
      PROVE entry'[f].state = "PENDING" /\ entry'[f].notBefore /\ ~InFlight(jobIdFor(f))'
  <2>1. entry' = [entry EXCEPT ![f] = Recorded(entry[f], "retry", "PENDING", slot[s].job.attempts + 1)]
    BY <1>8 DEF RecordRetry, Record
  <2>2. jobIdFor(f) = slot[s].job /\ slot[s].job.attempts \in Nat
    BY <1>0, <1>8, SlotJob DEF RecordRetry, Record, Fenced, Current
  <2>3. jobIdFor(f)' = [entry |-> f, runKey |-> entry[f].runKey, attempts |-> entry[f].attempts + 1]
    BY <1>0, <2>1, <2>2 DEF Recorded, jobIdFor
  <2>4. ~Issued(jobIdFor(f)')
    BY <1>0, <2>3 DEF Issued, EntryRecord
  <2>5. ~InFlight(jobIdFor(f)')
    BY <1>0, <2>4 DEF IInv, NoFutureJob
  <2>6. entry' # entry
    BY <1>0, <2>3 DEF jobIdFor, EntryRecord
  <2>7. ~InFlight(jobIdFor(f))'
    BY <1>0, <2>5, <2>6, NewJobs DEF InFlight
  <2> QED BY <1>0, <2>1, <2>7 DEF Recorded
<1>9. ASSUME UNCHANGED entry PROVE Goal
  <2>1. entry'[f] = entry[f]
    BY <1>9
  <2>2. entry[f].cooling /\ jobIdFor(f)' = jobIdFor(f)
    BY <2>1 DEF jobIdFor
  <2> QED BY <1>1, <2>1, <2>2
<1>10. ASSUME Goal PROVE ~InFlight(jobIdFor(f))'
  <2>1. ~InFlight(jobIdFor(f)) /\ jobIdFor(f).entry = f
    BY <1>1, <1>10 DEF jobIdFor
  <2>2. ~(UNCHANGED entry /\ \E t \in Thread : Due(t[2], f))
    BY <1>1, <1>10 DEF Due
  <2> QED BY <1>0, <1>10, <2>1, <2>2, NewJobs DEF InFlight
<1> QED BY EntrySteps, <1>2, <1>3, <1>4, <1>5, <1>6, <1>7, <1>8, <1>9, <1>10 DEF EntryWrite

\* The attempt budget is kept: only a failure with an attempt left reopens an entry.
LEMMA EntryBudgetStep ==
  IInv /\ [Next]_vars =>
    \A f \in Entry : entry'[f].state \in Open \cup {"NEW"} => entry'[f].attempts < MaxAttempts
<1> SUFFICES ASSUME IInv, [Next]_vars, NEW f \in Entry, entry'[f].state \in Open \cup {"NEW"}
             PROVE  entry'[f].attempts < MaxAttempts
  OBVIOUS
<1> DEFINE Goal == entry'[f].attempts < MaxAttempts
<1>0. TypeOK /\ entry \in [Entry -> EntryRecord] /\ MaxAttempts \in Nat \ {0}
  BY BoundsAssumption DEF IInv, TypeOK
<1>1. entry[f].state \in Open \cup {"NEW"} => entry[f].attempts < MaxAttempts
  BY DEF IInv, BudgetKept
<1>2. ASSUME NEW e \in Entry, EntryNext(e) PROVE Goal
  <2> USE <1>0, <1>1 DEF EntryRecord, Open
  <2>1. CASE Enqueue(e)     BY <2>1 DEF Enqueue
  <2>2. CASE RetryJob(e)    BY <2>2 DEF RetryJob
  <2>3. CASE DismissJob(e)  BY <2>3 DEF DismissJob
  <2>4. CASE Expire(e)      BY <2>4 DEF Expire
  <2>5. CASE CoolDown(e)    BY <2>5 DEF CoolDown
  <2>6. CASE AgeQueued(e)   BY <2>6 DEF AgeQueued
  <2>7. CASE AgeClaim(e)    BY <2>7 DEF AgeClaim
  <2> QED BY <1>2, <2>1, <2>2, <2>3, <2>4, <2>5, <2>6, <2>7 DEF EntryNext
<1>3. ASSUME NEW t \in Thread, RelayMark(t) PROVE Goal
  <2>1. pass[t].marking.entry \in Entry
    BY <1>0, <1>3 DEF RelayMark, TypeOK, PassRecord, JobId
  <2>2. MarkMatches(t[2], pass[t].marking) => entry[pass[t].marking.entry].state \in Open
    BY DEF MarkMatches, Open
  <2> QED BY <1>0, <1>1, <1>3, <2>1, <2>2 DEF RelayMark, Marked, EntryRecord
<1>4. ASSUME NEW s \in Slot, UnknownType(s) PROVE Goal
  BY <1>0, <1>1, <1>4, SlotJob DEF UnknownType, Open, EntryRecord
<1>5. ASSUME NEW s \in Slot, Claim(s) PROVE Goal
  BY <1>0, <1>1, <1>5, ClaimKeeps
<1>6. ASSUME NEW s \in Slot, RecordDone(s) \/ RecordFailed(s) PROVE Goal
  <2>1. CASE RecordDone(s)
    BY <1>0, <1>1, <2>1, SlotJob DEF RecordDone, Record, Recorded, Open
  <2>2. CASE RecordFailed(s)
    BY <1>0, <1>1, <2>2, SlotJob DEF RecordFailed, Record, Recorded, Open
  <2> QED BY <1>6, <2>1, <2>2
<1>7. ASSUME NEW s \in Slot, RecordRetry(s) PROVE Goal
  <2>1. slot[s].job.attempts + 1 < MaxAttempts
    BY <1>7 DEF IInv, BudgetKept, RecordRetry, Record
  <2> QED BY <1>0, <1>1, <1>7, <2>1, SlotJob DEF RecordRetry, Record, Recorded
<1>8. CASE UNCHANGED entry
  BY <1>1, <1>8
<1> QED BY EntrySteps, <1>2, <1>3, <1>4, <1>5, <1>6, <1>7, <1>8 DEF EntryWrite

\* What a step does to a slot other than its own: nothing.
LEMMA OtherSlots ==
  ASSUME TypeOK, NEW s \in Slot, SlotNext(s) \/ \E j \in waiting : Deliver(s, j), NEW r \in Slot, r # s
  PROVE  slot'[r] = slot[r]
<1> USE DEF TypeOK
<1>1. CASE \E j \in waiting : Deliver(s, j)
  BY <1>1 DEF Deliver
<1>2. CASE Load(s)
  BY <1>2 DEF Load, Goto
<1>3. CASE SlotNext(s) /\ ~Load(s)
  BY <1>3 DEF SlotNext, UnknownType, Claim, HandlerSucceeds, HandlerFails, PauseQueue, RecordDone,
              RecordRetry, RecordFailed, Record, RecordStale, Ack, RunError, WorkerDies, Goto
<1> QED BY <1>1, <1>2, <1>3

SlotBudget(r) ==
  /\ Claimed(r) => slot[r].job.attempts < MaxAttempts
  /\ slot[r].pc \in {"pause", "record"} /\ slot[r].outcome = "retry" => slot[r].job.attempts + 1 < MaxAttempts

\* A delivery that passes the claim is within the budget, and decides on a retry only if one is left.
LEMMA SlotBudgetStep == IInv /\ [Next]_vars => \A r \in Slot : SlotBudget(r)'
<1> SUFFICES ASSUME IInv, [Next]_vars, NEW r \in Slot PROVE SlotBudget(r)'
  OBVIOUS
<1>0. TypeOK /\ slot \in [Slot -> SlotRecord] /\ MaxAttempts \in Nat \ {0}
  BY BoundsAssumption DEF IInv, TypeOK
<1>1. SlotBudget(r)
  BY DEF IInv, BudgetKept, SlotBudget
<1>2. CASE slot'[r] = slot[r]
  BY <1>1, <1>2 DEF SlotBudget, Claimed
<1>3. ASSUME NEW j \in waiting, Deliver(r, j) PROVE SlotBudget(r)'
  BY <1>0, <1>3 DEF Deliver, IdleSlot, SlotBudget, Claimed
<1>4. ASSUME SlotNext(r) PROVE SlotBudget(r)'
  <2> USE <1>0 DEF SlotBudget, Claimed, SlotRecord
  <2>1. CASE Load(r)
    <3>1. slot'[r].pc \in {"claim", "ack", "reject"}
      BY <2>1 DEF Load, Goto
    <3> QED BY <3>1
  <2>2. CASE UnknownType(r) \/ RecordStale(r) \/ RunError(r)
    <3>1. slot'[r].pc = "ack"
      BY <2>2 DEF UnknownType, RecordStale, RunError, Goto
    <3> QED BY <3>1
  <2>3. CASE RecordDone(r) \/ RecordRetry(r) \/ RecordFailed(r)
    <3>1. slot'[r].pc = "ack"
      BY <2>3 DEF RecordDone, RecordRetry, RecordFailed, Record, Goto
    <3> QED BY <3>1
  <2>4. CASE Ack(r) \/ WorkerDies(r)
    <3>1. slot'[r].pc = "idle"
      BY <2>4 DEF Ack, WorkerDies, IdleSlot
    <3> QED BY <3>1
  <2>5. CASE Claim(r)
    <3>1. CASE Goto(r, "ack")
      BY <3>1 DEF Goto
    <3>2. CASE Goto(r, "run") /\ Current(slot[r].job) /\ entry[slot[r].job.entry].state \in Open
      <4>1. slot[r].job.attempts < MaxAttempts
        BY <2>5, <3>2, SlotJob DEF IInv, BudgetKept, Claim, Current, jobIdFor
      <4> QED BY <3>2, <4>1 DEF Goto
    <3> QED BY <2>5, <3>1, <3>2 DEF Claim
  <2>6. CASE HandlerSucceeds(r)
    BY <1>1, <2>6 DEF HandlerSucceeds
  <2>7. ASSUME NEW retryable \in BOOLEAN, NEW limited \in BOOLEAN, HandlerFails(r, retryable, limited)
        PROVE SlotBudget(r)'
    <3>1. slot'[r].job = slot[r].job /\ slot'[r].pc \in {"pause", "record"}
      BY <2>7 DEF HandlerFails
    <3>2. slot'[r].outcome = "retry" => ~Final(slot[r].job, retryable)
      BY <2>7 DEF HandlerFails
    <3>3. slot[r].job.attempts < MaxAttempts /\ slot[r].job.attempts \in Nat
      BY <1>1, <2>7, SlotJob DEF HandlerFails
    <3> QED BY <3>1, <3>2, <3>3 DEF Final
  <2>8. CASE PauseQueue(r)
    BY <1>1, <2>8 DEF PauseQueue, Goto
  <2> QED BY <1>4, <2>1, <2>2, <2>3, <2>4, <2>5, <2>6, <2>7, <2>8 DEF SlotNext
<1> QED BY <1>0, SlotSteps, OtherSlots, <1>2, <1>3, <1>4

\* An id that has been issued and is current after a step was current before it: the step left the
\* run and the attempts of its entry alone.
LEMMA CurrentBefore ==
  ASSUME IInv, [Next]_vars, NEW j \in JobId, Issued(j), Current(j)'
  PROVE  /\ Current(j)
         /\ entry'[j.entry].runKey = entry[j.entry].runKey
         /\ entry'[j.entry].attempts = entry[j.entry].attempts
<1>1. TypeOK /\ j.entry \in Entry /\ j.runKey \in Nat /\ j.attempts \in Nat
  BY DEF IInv, JobId
<1>2. Advances(j.entry)
  BY <1>1, EntryAdvances
<1>3. entry \in [Entry -> EntryRecord] /\ entry' \in [Entry -> EntryRecord]
  BY <1>1, EntryType DEF TypeOK
<1>4. j.runKey = entry'[j.entry].runKey /\ j.attempts = entry'[j.entry].attempts
  BY DEF Current, jobIdFor
<1>5. /\ entry[j.entry].runKey \in Nat /\ entry'[j.entry].runKey \in Nat
      /\ entry[j.entry].attempts \in Nat /\ entry'[j.entry].attempts \in Nat
  BY <1>1, <1>3 DEF EntryRecord
<1>6. entry'[j.entry].runKey = entry[j.entry].runKey
  BY <1>1, <1>2, <1>4, <1>5 DEF Issued, Advances
<1>7. entry'[j.entry].attempts = entry[j.entry].attempts
  BY <1>1, <1>2, <1>4, <1>5, <1>6 DEF Issued, Advances
<1> QED BY <1>6, <1>7 DEF Current, jobIdFor

\* No step but a delivery's own record, or one that moves the run or the attempts on, closes an entry.
LEMMA OpenStaysOpen ==
  ASSUME IInv, [Next]_vars, NEW f \in Entry, entry[f].state \in Open,
         entry'[f].runKey = entry[f].runKey, entry'[f].attempts = entry[f].attempts
  PROVE  entry'[f].state \in Open
<1> DEFINE Goal == entry'[f].state \in Open
<1>0. TypeOK /\ entry \in [Entry -> EntryRecord]
  BY DEF IInv, TypeOK
<1>1. ASSUME NEW e \in Entry, EntryNext(e) PROVE Goal
  <2> USE <1>0 DEF EntryRecord, Open
  <2>1. CASE Enqueue(e)     BY <2>1 DEF Enqueue
  <2>2. CASE RetryJob(e)    BY <2>2 DEF RetryJob
  <2>3. CASE DismissJob(e)  BY <2>3 DEF DismissJob
  <2>4. CASE Expire(e)      BY <2>4 DEF Expire
  <2>5. CASE CoolDown(e)    BY <2>5 DEF CoolDown
  <2>6. CASE AgeQueued(e)   BY <2>6 DEF AgeQueued
  <2>7. CASE AgeClaim(e)    BY <2>7 DEF AgeClaim
  <2> QED BY <1>1, <2>1, <2>2, <2>3, <2>4, <2>5, <2>6, <2>7 DEF EntryNext
<1>2. ASSUME NEW t \in Thread, RelayMark(t) PROVE Goal
  BY <1>0, <1>2 DEF RelayMark, Marked, TypeOK, PassRecord, JobId, Open, EntryRecord
<1>3. ASSUME NEW s \in Slot, UnknownType(s) PROVE Goal
  BY <1>0, <1>3, SlotJob DEF UnknownType, Current, jobIdFor, EntryRecord
<1>4. ASSUME NEW s \in Slot, Claim(s) PROVE Goal
  BY <1>0, <1>4, ClaimKeeps
<1>5. ASSUME NEW s \in Slot, NEW outcome, NEW state, Record(s, outcome, state) PROVE Goal
  BY <1>0, <1>5, SlotJob DEF Record, Recorded, Fenced, Current, jobIdFor
<1>6. CASE UNCHANGED entry
  BY <1>6
<1> QED BY EntrySteps, <1>1, <1>2, <1>3, <1>4, <1>5, <1>6 DEF EntryWrite, RecordDone, RecordRetry, RecordFailed

\* Only a slot's own claim gives it an entry's token.
LEMMA TokenBefore ==
  ASSUME TypeOK, [Next]_vars, NEW r \in Slot, ~Claim(r), NEW f \in Entry, entry'[f].token = r
  PROVE  entry[f].token = r
<1>0. entry \in [Entry -> EntryRecord]
  BY DEF TypeOK
<1>1. ASSUME NEW e \in Entry, EntryNext(e) PROVE entry[f].token = r
  <2> USE <1>0 DEF EntryRecord
  <2>1. CASE Enqueue(e)     BY <2>1 DEF Enqueue
  <2>2. CASE RetryJob(e)    BY <2>2 DEF RetryJob
  <2>3. CASE DismissJob(e)  BY <2>3 DEF DismissJob
  <2>4. CASE Expire(e)      BY <2>4 DEF Expire
  <2>5. CASE CoolDown(e)    BY <2>5 DEF CoolDown
  <2>6. CASE AgeQueued(e)   BY <2>6 DEF AgeQueued
  <2>7. CASE AgeClaim(e)    BY <2>7 DEF AgeClaim
  <2> QED BY <1>1, <2>1, <2>2, <2>3, <2>4, <2>5, <2>6, <2>7 DEF EntryNext
<1>2. ASSUME NEW t \in Thread, RelayMark(t) PROVE entry[f].token = r
  BY <1>0, <1>2 DEF RelayMark, Marked, EntryRecord
<1>3. ASSUME NEW s \in Slot, UnknownType(s) PROVE entry[f].token = r
  BY <1>0, <1>3 DEF UnknownType, EntryRecord
<1>4. ASSUME NEW s \in Slot, Claim(s) PROVE entry[f].token = r
  BY <1>0, <1>4 DEF Claim, EntryRecord
<1>5. ASSUME NEW s \in Slot, NEW outcome, NEW state, Record(s, outcome, state) PROVE entry[f].token = r
  BY <1>0, <1>5, NamesAssumption DEF Record, Recorded
<1>6. CASE UNCHANGED entry
  BY <1>6
<1> QED BY EntrySteps, <1>1, <1>2, <1>3, <1>4, <1>5, <1>6 DEF EntryWrite, RecordDone, RecordRetry, RecordFailed

\* FencedWritesFindOpenEntry is kept.
LEMMA FencedStep == IInv /\ [Next]_vars => FencedWritesFindOpenEntry'
<1> SUFFICES ASSUME IInv, [Next]_vars, NEW r \in Slot, Claimed(r)', Fenced(r)'
             PROVE  (entry[slot[r].job.entry].state \in Open)'
  BY DEF FencedWritesFindOpenEntry
<1>0. TypeOK /\ slot \in [Slot -> SlotRecord]
  BY DEF IInv, TypeOK
<1>1. CASE Claim(r)
  <2>1. slot'[r].pc # "ack" /\ slot'[r].job = slot[r].job
    BY <1>0, <1>1 DEF Claim, Goto, Claimed, SlotRecord
  <2>2. entry[slot[r].job.entry].state \in Open
    BY <1>0, <1>1, <2>1 DEF Claim, Goto, SlotRecord
  <2>3. slot[r].job.entry \in Entry
    BY <1>0, <1>1, SlotJob DEF Claim
  <2> QED BY <1>0, <1>1, <2>1, <2>2, <2>3, ClaimKeeps
<1>2. ASSUME ~Claim(r), Claimed(r), slot'[r].job = slot[r].job
      PROVE  (entry[slot[r].job.entry].state \in Open)'
  <2>0. slot[r].pc # "idle"
    BY <1>2 DEF Claimed
  <2> PICK j \in JobId : j = slot[r].job
    BY <1>0, <2>0, SlotJob
  <2>1. j.entry \in Entry /\ Issued(j)
    BY <1>0, <2>0, SlotJob DEF IInv, NoFutureJob
  <2>2. Current(j)' /\ entry'[j.entry].token = r
    BY <1>2 DEF Fenced, Current, jobIdFor
  <2>3. Current(j) /\ entry'[j.entry].runKey = entry[j.entry].runKey
                   /\ entry'[j.entry].attempts = entry[j.entry].attempts
    BY <2>1, <2>2, CurrentBefore
  <2>4. entry[j.entry].token = r
    BY <1>0, <1>2, <2>1, <2>2, TokenBefore
  <2>5. entry[j.entry].state \in Open
    BY <1>2, <2>3, <2>4 DEF IInv, FencedWritesFindOpenEntry, Fenced
  <2> QED BY <1>2, <2>1, <2>3, <2>5, OpenStaysOpen
<1>3. CASE slot'[r] = slot[r]
  BY <1>1, <1>2, <1>3 DEF Claimed
<1>4. ASSUME NEW j \in waiting, Deliver(r, j) PROVE FALSE
  BY <1>0, <1>4 DEF Deliver, IdleSlot, Claimed
<1>5. ASSUME SlotNext(r), ~Claim(r) PROVE Claimed(r) /\ slot'[r].job = slot[r].job
  <2> USE <1>0 DEF Claimed, SlotRecord
  <2>1. CASE Load(r)
    <3>1. slot'[r].pc \in {"claim", "ack", "reject"}
      BY <2>1 DEF Load, Goto
    <3> QED BY <3>1
  <2>2. CASE UnknownType(r) \/ RecordStale(r) \/ RunError(r)
    <3>1. slot'[r].pc = "ack"
      BY <2>2 DEF UnknownType, RecordStale, RunError, Goto
    <3> QED BY <3>1
  <2>3. CASE RecordDone(r) \/ RecordRetry(r) \/ RecordFailed(r)
    <3>1. slot'[r].pc = "ack"
      BY <2>3 DEF RecordDone, RecordRetry, RecordFailed, Record, Goto
    <3> QED BY <3>1
  <2>4. CASE Ack(r) \/ WorkerDies(r)
    <3>1. slot'[r].pc = "idle"
      BY <2>4 DEF Ack, WorkerDies, IdleSlot
    <3> QED BY <3>1
  <2>5. CASE HandlerSucceeds(r)
    BY <2>5 DEF HandlerSucceeds
  <2>6. ASSUME NEW retryable \in BOOLEAN, NEW limited \in BOOLEAN, HandlerFails(r, retryable, limited)
        PROVE Claimed(r) /\ slot'[r].job = slot[r].job
    BY <2>6 DEF HandlerFails
  <2>7. CASE PauseQueue(r)
    BY <2>7 DEF PauseQueue, Goto
  <2> QED BY <1>5, <2>1, <2>2, <2>3, <2>4, <2>5, <2>6, <2>7 DEF SlotNext
<1> QED BY <1>0, SlotSteps, OtherSlots, <1>1, <1>2, <1>3, <1>4, <1>5

\* SeenOpen is kept: a delivery reads only written entries, since their ids are issued.
LEMMA SeenOpenStep == IInv /\ [Next]_vars => SeenOpen'
<1> SUFFICES ASSUME IInv, [Next]_vars, NEW r \in Slot, slot'[r].pc = "reject" PROVE slot'[r].seen \in Open
  BY DEF SeenOpen
<1>0. TypeOK /\ slot \in [Slot -> SlotRecord] /\ entry \in [Entry -> EntryRecord]
  BY DEF IInv, TypeOK
<1>1. CASE slot'[r] = slot[r]
  BY <1>1 DEF IInv, SeenOpen
<1>2. ASSUME NEW j \in waiting, Deliver(r, j) PROVE FALSE
  BY <1>0, <1>2 DEF Deliver, IdleSlot
<1>3. ASSUME SlotNext(r) PROVE slot'[r].seen \in Open
  <2> USE <1>0 DEF SlotRecord
  <2>1. CASE Load(r)
    <3> DEFINE seen == entry[slot[r].job.entry].state
    <3>1. slot[r].job.entry \in Entry /\ Issued(slot[r].job)
      BY <2>1, SlotJob DEF Load, IInv, NoFutureJob
    <3>2. CASE Goto(r, "claim") \/ Goto(r, "ack")
      BY <3>2 DEF Goto
    <3>3. CASE slot' = [slot EXCEPT ![r] = [@ EXCEPT !.pc = "reject", !.seen = seen]]
               /\ seen \notin FINISHED \cup {"GONE"}
      <4>1. seen \in Open
        BY <3>1, <3>3 DEF Issued, EntryRecord, State, Open, FINISHED
      <4> HIDE DEF seen
      <4> QED BY <3>3, <4>1
    <3> QED BY <2>1, <3>2, <3>3 DEF Load
  <2>2. CASE UnknownType(r) \/ RecordStale(r) \/ RunError(r)
    <3>1. slot'[r].pc = "ack"
      BY <2>2 DEF UnknownType, RecordStale, RunError, Goto
    <3> QED BY <3>1
  <2>3. CASE RecordDone(r) \/ RecordRetry(r) \/ RecordFailed(r)
    <3>1. slot'[r].pc = "ack"
      BY <2>3 DEF RecordDone, RecordRetry, RecordFailed, Record, Goto
    <3> QED BY <3>1
  <2>4. CASE Ack(r) \/ WorkerDies(r)
    <3>1. slot'[r].pc = "idle"
      BY <2>4 DEF Ack, WorkerDies, IdleSlot
    <3> QED BY <3>1
  <2>5. CASE Claim(r)
    <3>1. slot'[r].pc \in {"run", "ack"}
      BY <2>5 DEF Claim, Goto
    <3> QED BY <3>1
  <2>6. CASE HandlerSucceeds(r) \/ \E retryable, limited \in BOOLEAN : HandlerFails(r, retryable, limited)
    <3>1. slot'[r].pc \in {"record", "pause"}
      BY <2>6 DEF HandlerSucceeds, HandlerFails
    <3> QED BY <3>1
  <2>7. CASE PauseQueue(r)
    BY <2>7 DEF PauseQueue, Goto
  <2> QED BY <1>3, <2>1, <2>2, <2>3, <2>4, <2>5, <2>6, <2>7 DEF SlotNext
<1> QED BY <1>0, SlotSteps, OtherSlots, <1>1, <1>2, <1>3

-------------------------------------------------------------------------------
\* The inductive invariant holds before anything is enqueued.
LEMMA InitIInv == Init => IInv
<1> SUFFICES ASSUME Init PROVE IInv
  OBVIOUS
<1>1. TypeOK
  BY InitType
<1>2. \A s \in Slot : slot[s] = IdleSlot
  BY DEF Init
<1>3. \A t \in Thread : pass[t] = IdlePass
  BY DEF Init
<1>4. NoFutureJob
  BY <1>2, <1>3, NamesAssumption DEF Init, NoFutureJob, InFlight, IdleSlot, IdlePass
<1>5. CoolingIsAlone
  BY DEF Init, CoolingIsAlone
<1>6. BudgetKept
  BY <1>2, BoundsAssumption DEF Init, BudgetKept, Claimed, IdleSlot
<1>7. FencedWritesFindOpenEntry
  BY <1>2 DEF FencedWritesFindOpenEntry, Claimed, IdleSlot
<1>8. SeenOpen
  BY <1>2 DEF SeenOpen, IdleSlot
<1> QED BY <1>1, <1>4, <1>5, <1>6, <1>7, <1>8 DEF IInv

\* Every step keeps the inductive invariant.
LEMMA NextIInv == IInv /\ [Next]_vars => IInv'
<1> SUFFICES ASSUME IInv, [Next]_vars PROVE IInv'
  OBVIOUS
<1>1. TypeOK'
  BY EntryType, SlotType, RedisType, PassType DEF IInv, TypeOK, SlotTyped
<1>2. BudgetKept'
  <2>1. \A f \in Entry : entry'[f].state \in Open \cup {"NEW"} => entry'[f].attempts < MaxAttempts
    BY EntryBudgetStep
  <2>2. \A r \in Slot : SlotBudget(r)'
    BY SlotBudgetStep
  <2> QED BY <2>1, <2>2 DEF BudgetKept, SlotBudget
<1> QED BY <1>1, <1>2, NoFutureJobStep, SeenOpenStep, CoolingStep, FencedStep DEF IInv

\* The inductive invariant holds in every state of every behaviour.
LEMMA Invariant == Spec => []IInv
<1> QED BY InitIInv, NextIInv, PTL DEF Spec

\* Terminal writes, which filter on run, attempt and claim but on no state, only ever find an entry
\* that is still open (execute.js): a slow delivery never brings a finished job back.
THEOREM FencedWritesSafe == Spec => []FencedWritesFindOpenEntry
<1>1. IInv => FencedWritesFindOpenEntry
  BY DEF IInv
<1> QED BY <1>1, Invariant, PTL

\* A retryable failure waits its time out before anybody holds the next attempt's job (relay.js).
THEOREM BackoffIsRespected == Spec => []BackoffRespected
<1>1. IInv => BackoffRespected
  BY DEF IInv, CoolingIsAlone, BackoffRespected, InFlight, Held, Running
<1> QED BY <1>1, Invariant, PTL

\* No entry is run more often than its policy allows between two administrator retries (execute.js).
THEOREM AttemptBudgetHolds == Spec => []AttemptBudget
<1>1. IInv => AttemptBudget
  BY DEF IInv, BudgetKept, AttemptBudget
<1> QED BY <1>1, Invariant, PTL

-------------------------------------------------------------------------------
(* The pipeline implements JobLifecycle.                                       *)

\* The stage of each state of an entry.
LEMMA Stages ==
  /\ StageOf("NEW") = "unborn" /\ StageOf("PENDING") = "waiting" /\ StageOf("QUEUED") = "waiting"
  /\ StageOf("DONE") = "done" /\ StageOf("FAILED") = "failed"
  /\ StageOf("DISMISSED") = "dismissed" /\ StageOf("GONE") = "gone"
BY DEF StageOf, Open

\* A write to one entry changes one job of the abstract state.
LEMMA OneJob ==
  ASSUME NEW e \in Entry, NEW stage, NEW attempts, NEW run,
         StageOf(entry'[e].state) = stage, entry'[e].attempts = attempts, entry'[e].runKey = run,
         \A f \in Entry \ {e} : entry'[f] = entry[f]
  PROVE  jobs' = [jobs EXCEPT ![e] = [stage |-> stage, attempts |-> attempts, run |-> run]]
<1>1. \A f \in Entry : jobs'[f] = IF f = e THEN [stage |-> stage, attempts |-> attempts, run |-> run] ELSE jobs[f]
  BY DEF jobs, JobOf
<1> QED BY <1>1 DEF jobs

\* A job that takes its last attempt, or another one.
LEMMA Counted ==
  ASSUME NEW e \in Entry, NEW stage,
         jobs' = [jobs EXCEPT ![e] = [stage |-> stage, attempts |-> jobs[e].attempts + 1, run |-> jobs[e].run]]
  PROVE  /\ jobs' = [jobs EXCEPT ![e].stage = stage, ![e].attempts = @ + 1]
         /\ jobs[e].stage = stage => jobs' = [jobs EXCEPT ![e].attempts = @ + 1]
BY DEF jobs, JobOf

\* A record that keeps its state, run and attempts is a stuttering step of the abstract job.
LEMMA SameJob ==
  ASSUME \A f \in Entry : /\ StageOf(entry'[f].state) = StageOf(entry[f].state)
                          /\ entry'[f].attempts = entry[f].attempts
                          /\ entry'[f].runKey = entry[f].runKey
  PROVE  UNCHANGED jobs
BY DEF jobs, JobOf

\* The pipeline starts where JobLifecycle starts.
LEMMA LifecycleInit == Init => Lifecycle!Init
BY Stages DEF Init, Lifecycle!Init, jobs, JobOf

\* Every step of the pipeline is a step of JobLifecycle or leaves the abstract jobs alone.
LEMMA LifecycleStep == IInv /\ [Next]_vars => [Lifecycle!Next]_jobs
<1> SUFFICES ASSUME IInv, [Next]_vars PROVE [Lifecycle!Next]_jobs
  OBVIOUS
<1>0. TypeOK /\ entry \in [Entry -> EntryRecord]
  BY DEF IInv, TypeOK
<1>1. ASSUME NEW e \in Entry
      PROVE  /\ jobs[e].stage = StageOf(entry[e].state)
             /\ jobs[e].attempts = entry[e].attempts
             /\ jobs[e].run = entry[e].runKey
             /\ jobs[e] = [stage |-> StageOf(entry[e].state), attempts |-> entry[e].attempts, run |-> entry[e].runKey]
  BY DEF jobs, JobOf
<1>2. ASSUME NEW e \in Entry, EntryNext(e) PROVE [Lifecycle!Next]_jobs
  <2>1. CASE Enqueue(e)
    <3>1. jobs' = [jobs EXCEPT ![e] = [stage |-> "waiting", attempts |-> entry[e].attempts, run |-> entry[e].runKey]]
      <4>1. /\ entry'[e].state = "PENDING" /\ entry'[e].attempts = entry[e].attempts /\ entry'[e].runKey = entry[e].runKey
            /\ \A f \in Entry \ {e} : entry'[f] = entry[f]
        BY <1>0, <2>1 DEF Enqueue, EntryRecord
      <4> QED BY <4>1, OneJob, Stages
    <3>2. Lifecycle!Submit(e)
      BY <1>1, <2>1, <3>1, Stages DEF Enqueue, Lifecycle!Submit
    <3> QED BY <3>2 DEF Lifecycle!Next
  <2>2. CASE RetryJob(e)
    <3>1. jobs' = [jobs EXCEPT ![e] = [stage |-> "waiting", attempts |-> 0, run |-> entry[e].runKey + 1]]
      <4>1. /\ entry'[e].state = "PENDING" /\ entry'[e].attempts = 0 /\ entry'[e].runKey = entry[e].runKey + 1
            /\ \A f \in Entry \ {e} : entry'[f] = entry[f]
        BY <1>0, <2>2 DEF RetryJob, EntryRecord
      <4> QED BY <4>1, OneJob, Stages
    <3>2. Lifecycle!Retry(e)
      BY <1>1, <2>2, <3>1, Stages DEF RetryJob, Lifecycle!Retry
    <3> QED BY <3>2 DEF Lifecycle!Next
  <2>3. CASE DismissJob(e)
    <3>1. jobs' = [jobs EXCEPT ![e] = [stage |-> "dismissed", attempts |-> entry[e].attempts, run |-> entry[e].runKey]]
      <4>1. /\ entry'[e].state = "DISMISSED" /\ entry'[e].attempts = entry[e].attempts /\ entry'[e].runKey = entry[e].runKey
            /\ \A f \in Entry \ {e} : entry'[f] = entry[f]
        BY <1>0, <2>3 DEF DismissJob, EntryRecord
      <4> QED BY <4>1, OneJob, Stages
    <3>2. Lifecycle!Dismiss(e)
      BY <1>1, <2>3, <3>1, Stages DEF DismissJob, Lifecycle!Dismiss
    <3> QED BY <3>2 DEF Lifecycle!Next
  <2>4. CASE Expire(e)
    <3>1. jobs' = [jobs EXCEPT ![e] = [stage |-> "gone", attempts |-> entry[e].attempts, run |-> entry[e].runKey]]
      <4>1. /\ entry'[e].state = "GONE" /\ entry'[e].attempts = entry[e].attempts /\ entry'[e].runKey = entry[e].runKey
            /\ \A f \in Entry \ {e} : entry'[f] = entry[f]
        BY <1>0, <2>4 DEF Expire, EntryRecord
      <4> QED BY <4>1, OneJob, Stages
    <3>2. Lifecycle!Forget(e)
      BY <1>1, <2>4, <3>1, Stages DEF Expire, Lifecycle!Forget
    <3> QED BY <3>2 DEF Lifecycle!Next
  <2>5. CASE CoolDown(e) \/ AgeQueued(e) \/ AgeClaim(e)
    <3>1. \A f \in Entry : /\ entry'[f].state = entry[f].state
                           /\ entry'[f].attempts = entry[f].attempts /\ entry'[f].runKey = entry[f].runKey
      BY <1>0, <2>5 DEF CoolDown, AgeQueued, AgeClaim, EntryRecord
    <3> QED BY <3>1, SameJob
  <2> QED BY <1>2, <2>1, <2>2, <2>3, <2>4, <2>5 DEF EntryNext
<1>3. ASSUME NEW t \in Thread, RelayMark(t) PROVE [Lifecycle!Next]_jobs
  <2>1. \A f \in Entry : /\ entry'[f].state = entry[f].state \/ (entry[f].state \in Open /\ entry'[f].state = "QUEUED")
                         /\ entry'[f].attempts = entry[f].attempts /\ entry'[f].runKey = entry[f].runKey
    BY <1>0, <1>3 DEF RelayMark, MarkMatches, Marked, EntryRecord, TypeOK, PassRecord, JobId, Open
  <2>2. \A f \in Entry : StageOf(entry'[f].state) = StageOf(entry[f].state)
    BY <2>1, Stages DEF Open
  <2> QED BY <2>1, <2>2, SameJob
<1>4. ASSUME NEW s \in Slot, UnknownType(s) PROVE [Lifecycle!Next]_jobs
  <2> DEFINE e == slot[s].job.entry
  <2>1. e \in Entry /\ InFlight(slot[s].job) /\ slot[s].job \in JobId
    BY <1>0, <1>4, SlotJob DEF UnknownType
  <2>2. CASE UNCHANGED entry
    BY <2>2, SameJob
  <2>3. CASE ~UNCHANGED entry
    <3>1. Current(slot[s].job) /\ entry[e].state = slot[s].seen /\ slot[s].seen \in Open
      BY <1>4, <2>3 DEF UnknownType, IInv, SeenOpen
    <3>2. slot[s].job.attempts = entry[e].attempts
      BY <3>1 DEF Current, jobIdFor
    <3>3. entry' = [entry EXCEPT ![e] = [entry[e] EXCEPT !.state = "FAILED", !.attempts = entry[e].attempts + 1]]
      BY <1>4, <3>1, <3>2 DEF UnknownType
    <3>4. jobs' = [jobs EXCEPT ![e] = [stage |-> "failed", attempts |-> entry[e].attempts + 1, run |-> entry[e].runKey]]
      <4>1. /\ entry'[e].state = "FAILED" /\ entry'[e].attempts = entry[e].attempts + 1
            /\ entry'[e].runKey = entry[e].runKey /\ \A f \in Entry \ {e} : entry'[f] = entry[f]
        BY <1>0, <2>1, <3>3 DEF EntryRecord
      <4> QED BY <2>1, <4>1, OneJob, Stages
    <3>5. Lifecycle!Finish(e, "failed")
      BY <1>1, <2>1, <3>1, <3>4, Stages DEF Lifecycle!Finish, Open
    <3> QED BY <2>1, <3>5 DEF Lifecycle!Next
  <2> QED BY <2>2, <2>3
<1>5. ASSUME NEW s \in Slot, Claim(s) PROVE [Lifecycle!Next]_jobs
  BY <1>0, <1>5, ClaimKeeps, SameJob
<1>6. ASSUME NEW s \in Slot, NEW outcome, NEW state \in State, Record(s, outcome, state)
      PROVE  /\ slot[s].job.entry \in Entry
             /\ jobs[slot[s].job.entry].stage = "waiting"
             /\ jobs' = [jobs EXCEPT ![slot[s].job.entry] =
                  [stage |-> StageOf(state), attempts |-> jobs[slot[s].job.entry].attempts + 1,
                   run |-> jobs[slot[s].job.entry].run]]
             /\ slot[s].job.attempts = jobs[slot[s].job.entry].attempts
  <2> DEFINE e == slot[s].job.entry
  <2>1. e \in Entry
    BY <1>0, <1>6, SlotJob DEF Record
  <2>2. entry[e].state \in Open
    BY <1>6 DEF IInv, FencedWritesFindOpenEntry, Record, Claimed
  <2>3. slot[s].job.attempts = entry[e].attempts
    BY <1>6 DEF Record, Fenced, Current, jobIdFor
  <2>4. entry' = [entry EXCEPT ![e] = Recorded(entry[e], outcome, state, entry[e].attempts + 1)]
    BY <1>6, <2>3 DEF Record
  <2>5. jobs' = [jobs EXCEPT ![e] = [stage |-> StageOf(state), attempts |-> entry[e].attempts + 1, run |-> entry[e].runKey]]
    <3>1. /\ entry'[e].state = state /\ entry'[e].attempts = entry[e].attempts + 1
          /\ entry'[e].runKey = entry[e].runKey /\ \A f \in Entry \ {e} : entry'[f] = entry[f]
      BY <1>0, <2>1, <2>4 DEF Recorded
    <3> QED BY <2>1, <3>1, OneJob
  <2> QED BY <1>1, <2>1, <2>2, <2>3, <2>5, Stages DEF Open
<1>7. ASSUME NEW s \in Slot, RecordDone(s) \/ RecordFailed(s) PROVE [Lifecycle!Next]_jobs
  <2> PICK e \in Entry : e = slot[s].job.entry
    BY <1>0, <1>7, SlotJob DEF RecordDone, RecordFailed, Record
  <2>1. CASE RecordDone(s)
    <3>1. Record(s, "ok", "DONE")
      BY <2>1 DEF RecordDone
    <3>2. /\ jobs[e].stage = "waiting"
          /\ jobs' = [jobs EXCEPT ![e] = [stage |-> "done", attempts |-> jobs[e].attempts + 1, run |-> jobs[e].run]]
      BY <1>6, <3>1, Stages DEF State
    <3>3. jobs' = [jobs EXCEPT ![e].stage = "done", ![e].attempts = @ + 1]
      BY <3>2, Counted
    <3>4. Lifecycle!Finish(e, "done")
      BY <3>2, <3>3 DEF Lifecycle!Finish
    <3> QED BY <3>4 DEF Lifecycle!Next
  <2>2. CASE RecordFailed(s)
    <3>1. Record(s, "final", "FAILED")
      BY <2>2 DEF RecordFailed
    <3>2. /\ jobs[e].stage = "waiting"
          /\ jobs' = [jobs EXCEPT ![e] = [stage |-> "failed", attempts |-> jobs[e].attempts + 1, run |-> jobs[e].run]]
      BY <1>6, <3>1, Stages DEF State
    <3>3. jobs' = [jobs EXCEPT ![e].stage = "failed", ![e].attempts = @ + 1]
      BY <3>2, Counted
    <3>4. Lifecycle!Finish(e, "failed")
      BY <3>2, <3>3 DEF Lifecycle!Finish
    <3> QED BY <3>4 DEF Lifecycle!Next
  <2> QED BY <1>7, <2>1, <2>2
<1>8. ASSUME NEW s \in Slot, RecordRetry(s) PROVE [Lifecycle!Next]_jobs
  <2> PICK e \in Entry : e = slot[s].job.entry
    BY <1>0, <1>8, SlotJob DEF RecordRetry, Record
  <2>1. slot[s].job.attempts + 1 < MaxAttempts
    BY <1>8 DEF IInv, BudgetKept, RecordRetry, Record
  <2>2. Record(s, "retry", "PENDING")
    BY <1>8 DEF RecordRetry
  <2>3. /\ jobs[e].stage = "waiting" /\ slot[s].job.attempts = jobs[e].attempts
        /\ jobs' = [jobs EXCEPT ![e] = [stage |-> "waiting", attempts |-> jobs[e].attempts + 1, run |-> jobs[e].run]]
    BY <1>6, <2>2, Stages DEF State
  <2>4. jobs' = [jobs EXCEPT ![e].attempts = @ + 1]
    BY <2>3, Counted
  <2>5. Lifecycle!FailAttempt(e)
    BY <2>1, <2>3, <2>4 DEF Lifecycle!FailAttempt
  <2> QED BY <2>5 DEF Lifecycle!Next
<1>9. CASE UNCHANGED entry
  BY <1>9, SameJob
<1> QED BY EntrySteps, <1>2, <1>3, <1>4, <1>5, <1>7, <1>8, <1>9 DEF EntryWrite

\* Each attempt is recorded once and in order, and a job that has ended comes back only through an
\* administrator's retry: the pipeline, with every crash, takeover, flush and duplicate delivery,
\* implements JobLifecycle.
THEOREM PipelineImplementsLifecycle == Spec => ImplementsLifecycle
<1> QED BY LifecycleInit, LifecycleStep, Invariant, PTL DEF Spec, ImplementsLifecycle, Lifecycle!Spec

\* No entry gets an attempt too many or too early, whatever fails (execute.js:69-75, relay.js:60).
THEOREM RetriesAreKept == Spec => []RetriesKept
<1>1. TypeOK /\ AttemptBudget /\ BackoffRespected => RetriesKept
  BY DEF RetriesKept
<1> QED
  BY <1>1, TypeCorrect, AttemptBudgetHolds, BackoffIsRespected, PTL

-------------------------------------------------------------------------------
(* While nothing fails.                                                        *)

\* Nothing has failed, and no slot of another version runs a delivery.
Quiet == faults = 0 /\ \A s \in OldSlot : slot[s].pc = "idle"

\* A worker that finds the id has something to do.
Wanted(j) == Current(j) /\ entry[j.entry].state \in Open

\* Redis and the workers agree: each delivery holds its lock, each lock is a delivery's, and an id is in
\* one place only.
Delivered ==
  /\ \A s \in Slot : slot[s].pc # "idle" => <<slot[s].job, s>> \in active
  /\ \A j \in JobId : \A s \in Slot : <<j, s>> \in active => Running(s, j) /\ j \notin waiting
  /\ \A r, s \in Slot : slot[r].pc # "idle" /\ slot[s].pc # "idle" /\ slot[r].job = slot[s].job => r = s

\* A delivery that has claimed an attempt keeps it until it records it, and no claim is left behind.
ClaimHeld ==
  /\ \A s \in Slot : Claimed(s) => Fenced(s) /\ entry[slot[s].job.entry].state \in Open
  /\ \A e \in Entry : \A s \in Slot : entry[e].token = s => Claimed(s) /\ slot[s].job.entry = e

\* A delivery ends only when its id is wanted no more.
EndsUnwanted == \A s \in Slot : slot[s].pc # "reject" /\ (slot[s].pc = "ack" => ~Wanted(slot[s].job))

\* A relay that is about to mark an entry still has its job in Redis.
MarksHeld == \A t \in Thread : pass[t].marking # NoJob /\ Wanted(pass[t].marking) => Held(pass[t].marking)

QuietInv == Delivered /\ ClaimHeld /\ EndsUnwanted /\ MarksHeld /\ QueuedIsHeld

\* What a slot may do while nothing fails.
Work(s) ==
  \/ Load(s) \/ Claim(s) \/ HandlerSucceeds(s) \/ PauseQueue(s) \/ Ack(s)
  \/ \E retryable, limited \in BOOLEAN : HandlerFails(s, retryable, limited)
  \/ RecordDone(s) \/ RecordRetry(s) \/ RecordFailed(s)

\* The steps that are taken while nothing fails: no lock expires, and every record finds its claim.
LEMMA QuietSteps ==
  ASSUME IInv, QuietInv, Quiet, Quiet', [Next]_vars
  PROVE  \/ \E e \in Entry : EntryNext(e)
         \/ \E t \in Thread : RelayRead(t) \/ RelayMark(t) \/ \E j \in pass[t].batch : RelayOffer(t, j)
         \/ \E s \in Slot : \E j \in waiting : Deliver(s, j)
         \/ \E s \in Slot : Work(s)
         \/ PauseLapses \/ UNCHANGED vars
<1>0. TypeOK /\ ~Fault
  BY DEF IInv, Quiet, Fault
<1>1. ASSUME NEW s \in Slot, NEW l \in active, l[2] = s, StallDead(l[1], s) \/ StallAlive(l[1], s) PROVE FALSE
  <2>1. l = <<l[1], l[2]>> /\ l[1] \in JobId
    BY <1>0 DEF TypeOK, RedisOK
  <2>2. Running(s, l[1])
    BY <1>1, <2>1 DEF QuietInv, Delivered
  <2> QED BY <1>0, <1>1, <2>2 DEF StallDead, StallAlive
<1>2. ASSUME NEW s \in Slot, SlotNext(s) PROVE Work(s)
  <2>1. ~UnknownType(s)
    BY DEF QuietInv, EndsUnwanted, UnknownType
  <2>2. ~RecordStale(s)
    BY DEF QuietInv, ClaimHeld, RecordStale, Claimed
  <2>3. ~RunError(s) /\ ~WorkerDies(s)
    BY <1>0 DEF RunError, WorkerDies
  <2> QED BY <1>2, <2>1, <2>2, <2>3 DEF SlotNext, Work
<1>3. \A t \in Thread : ~RelayFails(t)
  BY <1>0 DEF RelayFails
<1>4. ~Flush
  BY <1>0 DEF Flush
<1> QED BY <1>1, <1>2, <1>3, <1>4 DEF Next, RelayNext, QueueNext

\* A slot's own step leaves Redis' ids to themselves unless it ends the delivery.
LEMMA WorkKeeps ==
  ASSUME TypeOK, NEW s \in Slot, Work(s)
  PROVE  /\ slot[s].pc # "idle" /\ slot[s].job \in JobId
         /\ UNCHANGED <<waiting, pass>> /\ \A r \in Slot \ {s} : slot'[r] = slot[r]
         /\ \/ Ack(s) /\ slot'[s].pc = "idle" /\ active' = active \ {<<slot[s].job, s>>} /\ UNCHANGED entry
            \/ ~Ack(s) /\ slot'[s].pc # "idle" /\ slot'[s].job = slot[s].job /\ UNCHANGED active
<1> USE DEF TypeOK, SlotRecord
<1>1. CASE Load(s)
  <2>1. slot' = [slot EXCEPT ![s].pc = "claim"] \/ slot' = [slot EXCEPT ![s].pc = "ack"]
        \/ slot' = [slot EXCEPT ![s] = [@ EXCEPT !.pc = "reject", !.seen = entry[slot[s].job.entry].state]]
    BY <1>1 DEF Load, Goto
  <2>2. slot[s].pc = "load" /\ UNCHANGED <<entry, waiting, active, pass>>
    BY <1>1 DEF Load, redis
  <2> QED BY <2>1, <2>2 DEF Ack
<1>2. CASE Ack(s)
  BY <1>2 DEF Ack, IdleSlot
<1>3. ASSUME NEW retryable \in BOOLEAN, NEW limited \in BOOLEAN, HandlerFails(s, retryable, limited)
      PROVE  /\ slot[s].pc = "run" /\ UNCHANGED <<waiting, pass, active>>
             /\ \A r \in Slot \ {s} : slot'[r] = slot[r]
             /\ slot'[s].pc # "idle" /\ slot'[s].job = slot[s].job
  BY <1>3 DEF HandlerFails, redis
<1>4. CASE Claim(s) \/ HandlerSucceeds(s) \/ PauseQueue(s) \/ RecordDone(s) \/ RecordRetry(s) \/ RecordFailed(s)
  BY <1>4, ZenonT(60) DEF Claim, HandlerSucceeds, PauseQueue, RecordDone, RecordRetry, RecordFailed, Record, Goto, redis, Ack
<1> QED BY <1>1, <1>2, <1>3, <1>4 DEF Work, Ack

\* Redis and the workers go on agreeing.
LEMMA DeliveredStep == ASSUME IInv, QuietInv, Quiet, Quiet', [Next]_vars PROVE Delivered'
<1>0. TypeOK /\ Delivered
  BY DEF IInv, QuietInv
<1>1. ASSUME NEW e \in Entry, EntryNext(e) PROVE UNCHANGED <<waiting, active, slot>>
  BY <1>1 DEF EntryNext, Enqueue, RetryJob, DismissJob, Expire, CoolDown, AgeQueued, AgeClaim, redis
<1>2. ASSUME NEW t \in Thread, RelayRead(t) \/ RelayMark(t) PROVE UNCHANGED <<waiting, active, slot>>
  BY <1>2 DEF RelayRead, RelayMark, redis
<1>3. CASE UNCHANGED <<waiting, active, slot>>
  BY <1>0, <1>3 DEF Delivered, Running
<1>4. ASSUME NEW t \in Thread, NEW i \in pass[t].batch, RelayOffer(t, i) PROVE Delivered'
  BY <1>0, <1>4 DEF Delivered, Running, RelayOffer, Held
<1>5. ASSUME NEW s \in Slot, NEW i \in waiting, Deliver(s, i) PROVE Delivered'
  <2>1. /\ slot[s].pc = "idle" /\ i \in JobId /\ \A r \in Slot : <<i, r>> \notin active
        /\ waiting' = waiting \ {i} /\ active' = active \cup {<<i, s>>}
    BY <1>0, <1>5 DEF Deliver, Delivered, TypeOK, RedisOK
  <2>2. slot'[s].pc = "load" /\ slot'[s].job = i /\ \A r \in Slot \ {s} : slot'[r] = slot[r]
    BY <1>0, <1>5 DEF Deliver, TypeOK, IdleSlot
  <2>3. \A r \in Slot : slot'[r].pc # "idle" => <<slot'[r].job, r>> \in active'
    BY <1>0, <2>1, <2>2 DEF Delivered
  <2>4. ASSUME NEW j \in JobId, NEW r \in Slot, <<j, r>> \in active'
        PROVE  slot'[r].pc # "idle" /\ slot'[r].job = j /\ j \notin waiting'
    <3>1. CASE <<j, r>> \in active
      <4>1. slot[r].pc # "idle" /\ slot[r].job = j /\ j \notin waiting
        BY <1>0, <3>1 DEF Delivered, Running
      <4>2. r # s
        BY <2>1, <4>1
      <4> QED BY <2>1, <2>2, <4>1, <4>2
    <3>2. CASE <<j, r>> = <<i, s>>
      BY <2>1, <2>2, <3>2
    <3> QED BY <2>1, <2>4, <3>1, <3>2
  <2>5. \A q, r \in Slot : slot'[q].pc # "idle" /\ slot'[r].pc # "idle" /\ slot'[q].job = slot'[r].job => q = r
    BY <1>0, <2>1, <2>2, ZenonT(60) DEF Delivered
  <2> QED BY <2>3, <2>4, <2>5 DEF Delivered, Running
<1>6. ASSUME NEW s \in Slot, Work(s) PROVE Delivered'
  <2> USE <1>0, <1>6, WorkKeeps
  <2>1. CASE Ack(s)
    BY <2>1 DEF Delivered, Running
  <2>2. CASE ~Ack(s)
    BY <2>2 DEF Delivered, Running
  <2> QED BY <2>1, <2>2
<1>7. CASE PauseLapses \/ UNCHANGED vars
  BY <1>3, <1>7 DEF PauseLapses, vars
<1> QED BY QuietSteps, <1>1, <1>2, <1>3, <1>4, <1>5, <1>6, <1>7

\* Nobody else moves on or closes the entry of a claimed attempt.
LEMMA Undisturbed ==
  ASSUME IInv, QuietInv, Quiet, Quiet', [Next]_vars, NEW r \in Slot, Claimed(r),
         ~RecordDone(r), ~RecordRetry(r), ~RecordFailed(r)
  PROVE  LET e == slot[r].job.entry IN
           /\ entry'[e].runKey = entry[e].runKey /\ entry'[e].attempts = entry[e].attempts
           /\ entry'[e].token = r
<1> DEFINE f == slot[r].job.entry
           Same == /\ entry'[f].runKey = entry[f].runKey /\ entry'[f].attempts = entry[f].attempts
                   /\ entry'[f].token = entry[f].token
<1>0. TypeOK /\ entry \in [Entry -> EntryRecord] /\ f \in Entry /\ slot[r].pc # "idle"
  BY SlotJob DEF IInv, TypeOK, Claimed
<1>1. entry[f].token = r /\ entry[f].state \in Open /\ Current(slot[r].job)
  BY DEF QuietInv, ClaimHeld, Fenced
<1>2. ASSUME NEW e \in Entry, EntryNext(e) PROVE Same
  <2> USE <1>0, <1>1 DEF EntryRecord, Open
  <2>1. CASE Enqueue(e)     BY <2>1 DEF Enqueue
  <2>2. CASE RetryJob(e)    BY <2>2 DEF RetryJob
  <2>3. CASE DismissJob(e)  BY <2>3 DEF DismissJob
  <2>4. CASE Expire(e)      BY <2>4 DEF Expire
  <2>5. CASE CoolDown(e)    BY <2>5 DEF CoolDown
  <2>6. CASE AgeQueued(e)   BY <2>6 DEF AgeQueued
  <2>7. CASE AgeClaim(e)    BY <2>7 DEF AgeClaim
  <2> QED BY <1>2, <2>1, <2>2, <2>3, <2>4, <2>5, <2>6, <2>7 DEF EntryNext
<1>3. ASSUME NEW t \in Thread, RelayMark(t) PROVE Same
  BY <1>0, <1>3 DEF RelayMark, Marked, EntryRecord
<1>4. ASSUME NEW s \in Slot, Claim(s) PROVE Same
  <2>1. CASE slot[s].job.entry = f /\ Current(slot[s].job)
    <3>1. slot[s].job = slot[r].job
      BY <1>1, <2>1 DEF Current
    <3>2. s = r
      BY <1>0, <1>4, <3>1 DEF Claim, QuietInv, Delivered
    <3> QED BY <1>4, <3>2 DEF Claim, Claimed
  <2>2. CASE slot[s].job.entry # f \/ ~Current(slot[s].job)
    BY <1>0, <1>4, <2>2 DEF Claim, EntryRecord
  <2> QED BY <2>1, <2>2
<1>5. ASSUME NEW s \in Slot, NEW outcome, NEW state, Record(s, outcome, state), s # r PROVE Same
  BY <1>0, <1>1, <1>5 DEF Record, Fenced
<1>6. ASSUME NEW s \in Slot, Work(s) PROVE Same
  <2>1. CASE RecordDone(s) \/ RecordRetry(s) \/ RecordFailed(s)
    BY <1>5, <2>1 DEF RecordDone, RecordRetry, RecordFailed
  <2>2. CASE Claim(s)
    BY <1>4, <2>2
  <2>3. CASE UNCHANGED entry
    BY <2>3
  <2> QED BY <1>6, <2>1, <2>2, <2>3 DEF Work, Load, HandlerSucceeds, HandlerFails, PauseQueue, Ack
<1>7. UNCHANGED entry => Same
  OBVIOUS
<1>8. Same
  BY QuietSteps, <1>2, <1>3, <1>6, <1>7 DEF RelayRead, RelayOffer, Deliver, PauseLapses, vars
<1> QED BY <1>1, <1>8

\* A slot changes through a delivery to it or through its own step.
LEMMA OwnStep ==
  ASSUME IInv, QuietInv, Quiet, Quiet', [Next]_vars, NEW r \in Slot, slot'[r] # slot[r]
  PROVE  Work(r) \/ \E j \in waiting : Deliver(r, j)
<1>0. TypeOK
  BY DEF IInv
<1>1. ASSUME NEW e \in Entry, EntryNext(e) PROVE FALSE
  BY <1>1 DEF EntryNext, Enqueue, RetryJob, DismissJob, Expire, CoolDown, AgeQueued, AgeClaim
<1>2. ASSUME NEW t \in Thread, RelayRead(t) \/ RelayMark(t) \/ \E j \in pass[t].batch : RelayOffer(t, j) PROVE FALSE
  BY <1>2 DEF RelayRead, RelayMark, RelayOffer
<1>3. ASSUME NEW s \in Slot, Work(s) PROVE s = r
  BY <1>0, <1>3, WorkKeeps
<1>4. ASSUME NEW s \in Slot, NEW j \in waiting, Deliver(s, j) PROVE s = r
  BY <1>0, <1>4 DEF Deliver, TypeOK
<1> QED BY QuietSteps, <1>1, <1>2, <1>3, <1>4 DEF PauseLapses, vars

\* From its claim to its record, a delivery works on the same attempt.
LEMMA ClaimLasts ==
  ASSUME IInv, QuietInv, Quiet, Quiet', [Next]_vars, NEW r \in Slot, Claimed(r)
  PROVE  \/ RecordDone(r) \/ RecordRetry(r) \/ RecordFailed(r)
         \/ Claimed(r)' /\ slot'[r].job = slot[r].job
<1>0. TypeOK
  BY DEF IInv
<1>1. CASE slot'[r] = slot[r]
  BY <1>1 DEF Claimed
<1>2. CASE \E j \in waiting : Deliver(r, j)
  BY <1>2 DEF Deliver, Claimed
<1>3. CASE HandlerSucceeds(r) \/ PauseQueue(r)
  BY <1>0, <1>3 DEF HandlerSucceeds, PauseQueue, Goto, Claimed, TypeOK, SlotRecord
<1>4. ASSUME NEW retryable \in BOOLEAN, NEW limited \in BOOLEAN, HandlerFails(r, retryable, limited)
      PROVE  Claimed(r)' /\ slot'[r].job = slot[r].job
  BY <1>0, <1>4 DEF HandlerFails, Claimed, TypeOK
<1>5. CASE Load(r) \/ Claim(r) \/ Ack(r)
  BY <1>5 DEF Load, Claim, Ack, Claimed
<1> QED BY OwnStep, <1>1, <1>2, <1>3, <1>4, <1>5 DEF Work

\* Only a claim that matches begins one.
LEMMA ClaimBegins ==
  ASSUME IInv, QuietInv, Quiet, Quiet', [Next]_vars, NEW r \in Slot, ~Claimed(r), Claimed(r)'
  PROVE  /\ Claim(r) /\ Wanted(slot[r].job) /\ slot'[r].job = slot[r].job
         /\ entry' = [entry EXCEPT ![slot[r].job.entry] = [@ EXCEPT !.token = r, !.claimAged = FALSE]]
<1>0. TypeOK /\ slot'[r] # slot[r]
  BY DEF IInv, Claimed
<1>1. CASE \E j \in waiting : Deliver(r, j)
  BY <1>0, <1>1 DEF Deliver, Claimed, TypeOK
<1>2. CASE Load(r)
  <2>1. slot' = [slot EXCEPT ![r].pc = "claim"] \/ slot' = [slot EXCEPT ![r].pc = "ack"]
        \/ slot' = [slot EXCEPT ![r] = [@ EXCEPT !.pc = "reject", !.seen = entry[slot[r].job.entry].state]]
    BY <1>2 DEF Load, Goto
  <2> QED BY <1>0, <2>1, ZenonT(60) DEF Claimed, TypeOK, SlotRecord
<1>3. CASE Claim(r)
  BY <1>0, <1>3 DEF Claim, Claimed, Goto, TypeOK, SlotRecord, Wanted
<1>4. CASE Ack(r)
  BY <1>0, <1>4 DEF Ack, IdleSlot, Claimed, TypeOK
<1> QED BY <1>0, OwnStep, <1>1, <1>2, <1>3, <1>4
        DEF Work, HandlerSucceeds, HandlerFails, PauseQueue, RecordDone, RecordRetry, RecordFailed, Record, Claimed

\* Claims and claimed entries go on belonging to each other.
LEMMA ClaimHeldStep == ASSUME IInv, QuietInv, Quiet, Quiet', [Next]_vars PROVE ClaimHeld'
<1>0. TypeOK /\ entry \in [Entry -> EntryRecord] /\ ClaimHeld
  BY DEF IInv, TypeOK, QuietInv
<1>1. ASSUME NEW r \in Slot, Claimed(r)' PROVE Fenced(r)' /\ entry'[slot'[r].job.entry].state \in Open
  <2>1. CASE Claimed(r)
    <3> DEFINE e == slot[r].job.entry
    <3>1. ~RecordDone(r) /\ ~RecordRetry(r) /\ ~RecordFailed(r)
      BY <1>0, <1>1 DEF RecordDone, RecordRetry, RecordFailed, Record, Goto, Claimed, TypeOK, SlotRecord
    <3>2. slot'[r].job = slot[r].job
      BY <2>1, <3>1, ClaimLasts
    <3>3. e \in Entry /\ Fenced(r) /\ entry[e].state \in Open
      BY <1>0, <2>1, SlotJob DEF ClaimHeld, Claimed
    <3>4. entry'[e].runKey = entry[e].runKey /\ entry'[e].attempts = entry[e].attempts /\ entry'[e].token = r
      BY <2>1, <3>1, Undisturbed
    <3>5. entry'[e].state \in Open
      BY <3>3, <3>4, OpenStaysOpen
    <3> QED BY <3>2, <3>3, <3>4, <3>5 DEF Fenced, Current, jobIdFor
  <2>2. CASE ~Claimed(r)
    <3> DEFINE e == slot[r].job.entry
    <3>1. /\ Claim(r) /\ Wanted(slot[r].job) /\ slot'[r].job = slot[r].job
          /\ entry' = [entry EXCEPT ![e] = [@ EXCEPT !.token = r, !.claimAged = FALSE]]
      BY <1>1, <2>2, ClaimBegins
    <3>2. e \in Entry
      BY <1>0, <3>1, SlotJob DEF Claim
    <3>3. entry'[e].state = entry[e].state /\ entry'[e].runKey = entry[e].runKey
          /\ entry'[e].attempts = entry[e].attempts /\ entry'[e].token = r
      BY <1>0, <3>1, <3>2 DEF EntryRecord
    <3> QED BY <3>1, <3>3 DEF Wanted, Fenced, Current, jobIdFor
  <2> QED BY <2>1, <2>2
<1>2. ASSUME NEW e \in Entry, NEW r \in Slot, entry'[e].token = r PROVE Claimed(r)' /\ slot'[r].job.entry = e
  <2>1. CASE Claim(r)
    <3>1. ~Claimed(r) /\ entry[e].token # r
      BY <1>0, <2>1 DEF Claim, Claimed, ClaimHeld
    <3>2. slot[r].job.entry = e /\ slot' = [slot EXCEPT ![r].pc = "run"]
      BY <1>0, <1>2, <2>1, <3>1 DEF Claim, Goto, EntryRecord
    <3> QED BY <1>0, <3>2 DEF Claimed, TypeOK, SlotRecord
  <2>2. CASE ~Claim(r)
    <3>1. Claimed(r) /\ slot[r].job.entry = e /\ entry[e].token = r
      BY <1>0, <1>2, <2>2, TokenBefore DEF ClaimHeld
    <3>2. ~RecordDone(r) /\ ~RecordRetry(r) /\ ~RecordFailed(r)
      BY <1>0, <1>2, <3>1, NamesAssumption DEF RecordDone, RecordRetry, RecordFailed, Record, Recorded
    <3> QED BY <3>1, <3>2, ClaimLasts
  <2> QED BY <2>1, <2>2
<1> QED BY <1>1, <1>2 DEF ClaimHeld

\* No step opens an entry that is written and closed, unless it starts a new run.
LEMMA ClosedStays ==
  ASSUME IInv, [Next]_vars, NEW f \in Entry, entry[f].state \notin Open \cup {"NEW"},
         entry'[f].runKey = entry[f].runKey
  PROVE  entry'[f].state \notin Open
<1> DEFINE Goal == entry'[f].state \notin Open
<1>0. TypeOK /\ entry \in [Entry -> EntryRecord]
  BY DEF IInv, TypeOK
<1>1. ASSUME NEW e \in Entry, EntryNext(e) PROVE Goal
  <2> USE <1>0 DEF EntryRecord, Open
  <2>1. CASE Enqueue(e)     BY <2>1 DEF Enqueue
  <2>2. CASE RetryJob(e)    BY <2>2 DEF RetryJob
  <2>3. CASE DismissJob(e)  BY <2>3 DEF DismissJob
  <2>4. CASE Expire(e)      BY <2>4 DEF Expire
  <2>5. CASE CoolDown(e)    BY <2>5 DEF CoolDown
  <2>6. CASE AgeQueued(e)   BY <2>6 DEF AgeQueued
  <2>7. CASE AgeClaim(e)    BY <2>7 DEF AgeClaim
  <2> QED BY <1>1, <2>1, <2>2, <2>3, <2>4, <2>5, <2>6, <2>7 DEF EntryNext
<1>2. ASSUME NEW t \in Thread, RelayMark(t) PROVE Goal
  BY <1>0, <1>2 DEF RelayMark, MarkMatches, Marked, Open, EntryRecord
<1>3. ASSUME NEW s \in Slot, UnknownType(s) PROVE Goal
  BY <1>0, <1>3 DEF UnknownType, EntryRecord, Open
<1>4. ASSUME NEW s \in Slot, Claim(s) PROVE Goal
  BY <1>0, <1>4, ClaimKeeps
<1>5. ASSUME NEW s \in Slot, NEW outcome, NEW state, Record(s, outcome, state) PROVE Goal
  <2>1. slot[s].job.entry # f
    BY <1>5 DEF Record, IInv, FencedWritesFindOpenEntry, Claimed
  <2> QED BY <1>0, <1>5, <2>1 DEF Record
<1>6. CASE UNCHANGED entry
  BY <1>6
<1> QED BY EntrySteps, <1>1, <1>2, <1>3, <1>4, <1>5, <1>6 DEF EntryWrite, RecordDone, RecordRetry, RecordFailed

\* An id in flight that is wanted after a step was wanted before it.
LEMMA WantedBefore ==
  ASSUME IInv, [Next]_vars, NEW j \in JobId, InFlight(j), Wanted(j)'
  PROVE  Wanted(j)
<1>1. Issued(j) /\ j.entry \in Entry
  BY DEF IInv, NoFutureJob, JobId
<1>2. Current(j) /\ entry'[j.entry].runKey = entry[j.entry].runKey
  BY <1>1, CurrentBefore DEF Wanted
<1> QED BY <1>1, <1>2, ClosedStays DEF Wanted, Issued

\* Redis does not lose the job of an id that is wanted.
LEMMA HeldStays ==
  ASSUME IInv, QuietInv, Quiet, Quiet', [Next]_vars, NEW j \in JobId, Wanted(j), Held(j)
  PROVE  Held(j)'
<1>0. TypeOK
  BY DEF IInv
<1>1. ASSUME NEW e \in Entry, EntryNext(e) PROVE UNCHANGED <<waiting, active>>
  BY <1>1 DEF EntryNext, Enqueue, RetryJob, DismissJob, Expire, CoolDown, AgeQueued, AgeClaim, redis
<1>2. ASSUME NEW t \in Thread, RelayRead(t) \/ RelayMark(t) \/ \E i \in pass[t].batch : RelayOffer(t, i)
      PROVE  waiting \subseteq waiting' /\ UNCHANGED active
  BY <1>2 DEF RelayRead, RelayMark, RelayOffer, redis
<1>3. ASSUME NEW s \in Slot, NEW i \in waiting, Deliver(s, i) PROVE Held(j)'
  BY <1>3 DEF Deliver, Held
<1>4. ASSUME NEW s \in Slot, Work(s) PROVE Held(j)'
  <2>1. Ack(s) => slot[s].job # j
    BY DEF Ack, QuietInv, EndsUnwanted
  <2>2. UNCHANGED waiting /\ \A r \in Slot : <<j, r>> \in active => <<j, r>> \in active'
    BY <1>0, <1>4, <2>1, WorkKeeps
  <2> QED BY <2>2 DEF Held
<1> QED BY QuietSteps, <1>1, <1>2, <1>3, <1>4 DEF Held, PauseLapses, vars

\* A delivery goes on to end only an attempt that is over.
LEMMA EndsUnwantedStep == ASSUME IInv, QuietInv, Quiet, Quiet', [Next]_vars PROVE EndsUnwanted'
<1> SUFFICES ASSUME NEW r \in Slot PROVE slot'[r].pc # "reject" /\ (slot'[r].pc = "ack" => ~Wanted(slot[r].job)')
  BY DEF EndsUnwanted
<1>j. PICK j : j = slot[r].job
  OBVIOUS
<1>w. slot'[r].job = j => (Wanted(slot[r].job)' <=> Wanted(j)')
  BY DEF Wanted, Current, jobIdFor
<1>0. TypeOK /\ entry \in [Entry -> EntryRecord] /\ slot \in [Slot -> SlotRecord]
  BY DEF IInv, TypeOK
<1>1. CASE slot'[r] = slot[r]
  <2>1. slot[r].pc # "reject" /\ (slot[r].pc = "ack" => ~Wanted(j))
    BY <1>j DEF QuietInv, EndsUnwanted
  <2>2. slot[r].pc = "ack" => ~Wanted(j)'
    BY <1>0, <1>j, <2>1, SlotJob, WantedBefore
  <2> QED BY <1>1, <1>j, <1>w, <2>1, <2>2
<1>2. CASE \E i \in waiting : Deliver(r, i)
  BY <1>0, <1>2 DEF Deliver
<1>3. ASSUME slot[r].pc # "idle", slot'[r].job = j, UNCHANGED entry, ~Wanted(j) PROVE ~Wanted(slot[r].job)'
  BY <1>3, <1>w DEF Wanted, Current, jobIdFor
<1>4. CASE Load(r)
  <2>1. r \notin OldSlot /\ slot[r].pc = "load" /\ UNCHANGED entry
    BY <1>4 DEF Quiet, Load
  <2>2. Issued(j)
    BY <1>0, <1>j, <2>1, SlotJob DEF IInv, NoFutureJob
  <2>3. \/ slot' = [slot EXCEPT ![r].pc = "claim"]
        \/ slot' = [slot EXCEPT ![r].pc = "ack"] /\ ~(entry[j.entry].state \notin FINISHED \cup {"GONE"} /\ Current(j))
    BY <1>4, <1>j, <2>1 DEF Load, Goto
  <2>4. CASE slot' = [slot EXCEPT ![r].pc = "claim"]
    BY <1>0, <2>4 DEF SlotRecord
  <2>5. CASE slot' = [slot EXCEPT ![r].pc = "ack"] /\ ~(entry[j.entry].state \notin FINISHED \cup {"GONE"} /\ Current(j))
    <3>1. ~Wanted(j)
      BY <2>5 DEF Wanted, FINISHED, Open
    <3>2. slot'[r].pc = "ack" /\ slot'[r].job = j
      BY <1>0, <1>j, <2>5 DEF SlotRecord
    <3> QED BY <1>3, <2>1, <3>1, <3>2
  <2> QED BY <2>3, <2>4, <2>5
<1>5. CASE Claim(r)
  <2>1. slot[r].pc = "claim" /\ j \in JobId /\ j.entry \in Entry
    BY <1>0, <1>5, <1>j, SlotJob DEF Claim
  <2>2. CASE slot' = [slot EXCEPT ![r].pc = "run"]
    BY <1>0, <2>2 DEF SlotRecord
  <2>3. CASE slot' = [slot EXCEPT ![r].pc = "ack"] /\ ~(Wanted(j) /\ Claimable(r, j.entry)) /\ UNCHANGED entry
    <3>1. ~Wanted(j)
      <4> SUFFICES ASSUME Wanted(j) PROVE FALSE
        OBVIOUS
      <4>1. entry[j.entry].token # NoSlot /\ entry[j.entry].token \in Slot
        BY <1>0, <2>1, <2>3 DEF Claimable, EntryRecord
      <4>2. PICK s \in Slot : entry[j.entry].token = s
        BY <4>1
      <4>3. Claimed(s) /\ slot[s].job.entry = j.entry /\ Current(slot[s].job)
        BY <2>1, <4>2 DEF QuietInv, ClaimHeld, Fenced
      <4>4. slot[s].job = j
        BY <4>3 DEF Wanted, Current
      <4>5. s = r
        BY <1>j, <2>1, <4>3, <4>4 DEF QuietInv, Delivered, Claimed
      <4> QED BY <2>1, <4>3, <4>5 DEF Claimed
    <3>2. slot'[r].pc = "ack" /\ slot'[r].job = j
      BY <1>0, <1>j, <2>3 DEF SlotRecord
    <3> QED BY <1>3, <2>1, <2>3, <3>1, <3>2
  <2> QED BY <1>5, <1>j, <2>2, <2>3 DEF Claim, Goto, Wanted
<1>6. ASSUME NEW outcome, NEW state, Record(r, outcome, state) PROVE slot'[r].pc = "ack" /\ ~Wanted(slot[r].job)'
  <2>1. slot[r].pc # "idle" /\ j \in JobId /\ j.entry \in Entry /\ j.attempts \in Nat
    BY <1>0, <1>6, <1>j, SlotJob DEF Record
  <2>2. slot'[r].pc = "ack" /\ slot'[r].job = j
    BY <1>0, <1>6, <1>j DEF Record, Goto, SlotRecord
  <2>3. entry'[j.entry].attempts = j.attempts + 1
    BY <1>0, <1>6, <1>j, <2>1 DEF Record, Recorded
  <2>4. entry'[j.entry].attempts # j.attempts
    BY <2>1, <2>3
  <2>5. ~Wanted(j)'
    BY <2>4 DEF Wanted, Current, jobIdFor
  <2> QED BY <1>w, <2>2, <2>5
<1>7. CASE RecordDone(r) \/ RecordRetry(r) \/ RecordFailed(r)
  BY <1>6, <1>7 DEF RecordDone, RecordRetry, RecordFailed
<1>8. CASE HandlerSucceeds(r) \/ PauseQueue(r)
  BY <1>0, <1>8 DEF HandlerSucceeds, PauseQueue, Goto, SlotRecord
<1>9. ASSUME NEW retryable \in BOOLEAN, NEW limited \in BOOLEAN, HandlerFails(r, retryable, limited)
      PROVE  slot'[r].pc # "reject" /\ slot'[r].pc # "ack"
  BY <1>0, <1>9 DEF HandlerFails, SlotRecord
<1>10. CASE Ack(r)
  BY <1>0, <1>10 DEF Ack, IdleSlot
<1> QED BY OwnStep, <1>1, <1>2, <1>4, <1>5, <1>7, <1>8, <1>9, <1>10 DEF Work

\* Between its offer and its mark, a relay's wanted job stays in Redis.
LEMMA MarksHeldStep == ASSUME IInv, QuietInv, Quiet, Quiet', [Next]_vars PROVE MarksHeld'
<1> SUFFICES ASSUME NEW t \in Thread, pass'[t].marking # NoJob, Wanted(pass[t].marking)' PROVE Held(pass[t].marking)'
  BY DEF MarksHeld
<1>j. PICK j : j = pass'[t].marking
  OBVIOUS
<1>w. Wanted(j)' /\ (Held(j)' => Held(pass[t].marking)')
  BY <1>j DEF Wanted, Current, jobIdFor, Held
<1>0. TypeOK
  BY DEF IInv
<1>1. CASE pass'[t].marking = pass[t].marking
  <2>1. j = pass[t].marking /\ j \in JobId /\ InFlight(j)
    BY <1>0, <1>1, <1>j DEF TypeOK, PassRecord, InFlight
  <2>2. Wanted(j)
    BY <1>w, <2>1, WantedBefore
  <2>3. Held(j)
    BY <1>1, <2>1, <2>2 DEF QuietInv, MarksHeld
  <2> QED BY <1>w, <2>1, <2>2, <2>3, HeldStays
<1>2. ASSUME NEW i \in pass[t].batch, RelayOffer(t, i) PROVE Held(pass[t].marking)'
  <2>1. i = j
    BY <1>0, <1>2, <1>j DEF RelayOffer, TypeOK, PassRecord
  <2>2. waiting' = (IF Held(i) THEN waiting ELSE waiting \cup {i}) /\ UNCHANGED active
    BY <1>2 DEF RelayOffer
  <2> QED BY <1>w, <2>1, <2>2 DEF Held
<1>3. ASSUME NEW u \in Thread, RelayRead(u) \/ RelayMark(u) \/ \E i \in pass[u].batch : RelayOffer(u, i),
             u # t \/ ~\E i \in pass[t].batch : RelayOffer(t, i)
      PROVE  pass'[t].marking = pass[t].marking
  BY <1>0, <1>3 DEF RelayRead, RelayMark, RelayOffer, TypeOK, PassRecord
<1>4. ASSUME NEW s \in Slot, Work(s) PROVE UNCHANGED pass
  BY <1>0, <1>4, WorkKeeps
<1>5. ASSUME NEW e \in Entry, EntryNext(e) PROVE UNCHANGED pass
  BY <1>5 DEF EntryNext, Enqueue, RetryJob, DismissJob, Expire, CoolDown, AgeQueued, AgeClaim
<1>6. ASSUME NEW s \in Slot, NEW i \in waiting, Deliver(s, i) PROVE UNCHANGED pass
  BY <1>6 DEF Deliver
<1> QED BY QuietSteps, <1>1, <1>2, <1>3, <1>4, <1>5, <1>6 DEF PauseLapses, vars

\* An entry is QUEUED because it was, with the same id, or because a relay marks it now.
LEMMA QueuedBefore ==
  ASSUME IInv, QuietInv, Quiet, Quiet', [Next]_vars, NEW f \in Entry, entry'[f].state = "QUEUED"
  PROVE  \/ /\ entry[f].state = "QUEUED" /\ entry'[f].runKey = entry[f].runKey
            /\ entry'[f].attempts = entry[f].attempts
         \/ \E t \in Thread : /\ RelayMark(t) /\ pass[t].marking # NoJob /\ Wanted(pass[t].marking)
                              /\ pass[t].marking = jobIdFor(f) /\ entry'[f].runKey = entry[f].runKey
                              /\ entry'[f].attempts = entry[f].attempts
<1> DEFINE Was == /\ entry[f].state = "QUEUED" /\ entry'[f].runKey = entry[f].runKey
                  /\ entry'[f].attempts = entry[f].attempts
<1>0. TypeOK /\ entry \in [Entry -> EntryRecord]
  BY DEF IInv, TypeOK
<1>1. ASSUME NEW e \in Entry, EntryNext(e) PROVE Was
  <2> USE <1>0 DEF EntryRecord
  <2>1. CASE Enqueue(e)     BY <2>1 DEF Enqueue
  <2>2. CASE RetryJob(e)    BY <2>2 DEF RetryJob
  <2>3. CASE DismissJob(e)  BY <2>3 DEF DismissJob
  <2>4. CASE Expire(e)      BY <2>4 DEF Expire
  <2>5. CASE CoolDown(e)    BY <2>5 DEF CoolDown
  <2>6. CASE AgeQueued(e)   BY <2>6 DEF AgeQueued
  <2>7. CASE AgeClaim(e)    BY <2>7 DEF AgeClaim
  <2> QED BY <1>1, <2>1, <2>2, <2>3, <2>4, <2>5, <2>6, <2>7 DEF EntryNext
<1>2. ASSUME NEW t \in Thread, RelayMark(t)
      PROVE  \/ Was
             \/ /\ RelayMark(t) /\ pass[t].marking # NoJob /\ Wanted(pass[t].marking)
                /\ pass[t].marking = jobIdFor(f) /\ entry'[f].runKey = entry[f].runKey
                /\ entry'[f].attempts = entry[f].attempts
  <2>1. pass[t].marking # NoJob
    BY <1>2 DEF RelayMark
  <2>2. CASE pass[t].marking.entry = f /\ MarkMatches(t[2], pass[t].marking)
    <3>1. Wanted(pass[t].marking) /\ pass[t].marking = jobIdFor(f)
      BY <2>2 DEF MarkMatches, Wanted, Current, Open
    <3>2. entry'[f].runKey = entry[f].runKey /\ entry'[f].attempts = entry[f].attempts
      BY <1>0, <1>2, <2>2 DEF RelayMark, Marked, EntryRecord
    <3> QED BY <1>2, <2>1, <3>1, <3>2
  <2>3. CASE pass[t].marking.entry # f \/ ~MarkMatches(t[2], pass[t].marking)
    BY <1>0, <1>2, <2>3 DEF RelayMark
  <2> QED BY <2>2, <2>3
<1>3. ASSUME NEW s \in Slot, Claim(s) PROVE Was
  BY <1>0, <1>3, ClaimKeeps
<1>4. ASSUME NEW s \in Slot, NEW outcome, NEW state \in State \ {"QUEUED"}, Record(s, outcome, state) PROVE Was
  BY <1>0, <1>4 DEF Record, Recorded
<1>5. ASSUME NEW s \in Slot, Work(s) PROVE Was
  <2>1. CASE RecordDone(s) \/ RecordRetry(s) \/ RecordFailed(s)
    BY <1>4, <2>1 DEF RecordDone, RecordRetry, RecordFailed, State
  <2>2. CASE Claim(s)
    BY <1>3, <2>2
  <2>3. UNCHANGED entry => Was
    OBVIOUS
  <2> QED BY <1>5, <2>1, <2>2, <2>3 DEF Work, Load, HandlerSucceeds, HandlerFails, PauseQueue, Ack
<1>6. UNCHANGED entry => Was
  OBVIOUS
<1> QED BY QuietSteps, <1>1, <1>2, <1>5, <1>6 DEF RelayRead, RelayOffer, Deliver, PauseLapses, vars

\* A queued entry goes on having its job in Redis.
LEMMA QueuedStep == ASSUME IInv, QuietInv, Quiet, Quiet', [Next]_vars PROVE QueuedIsHeld'
<1> SUFFICES ASSUME NEW f \in Entry, entry'[f].state = "QUEUED" PROVE Held(jobIdFor(f))'
  BY DEF QueuedIsHeld
<1>0. TypeOK
  BY DEF IInv
<1>1. PICK j \in JobId : j = jobIdFor(f)
  BY <1>0 DEF TypeOK, jobIdFor, JobId, EntryRecord
<1>2. /\ entry'[f].runKey = entry[f].runKey /\ entry'[f].attempts = entry[f].attempts
      /\ Wanted(j) /\ Held(j)
  <2>1. CASE /\ entry[f].state = "QUEUED" /\ entry'[f].runKey = entry[f].runKey
             /\ entry'[f].attempts = entry[f].attempts
    <3>1. j.entry = f /\ Held(j)
      BY <1>1, <2>1 DEF QuietInv, QueuedIsHeld, jobIdFor
    <3> QED BY <1>1, <2>1, <3>1 DEF Wanted, Current, Open
  <2>2. ASSUME NEW t \in Thread, pass[t].marking # NoJob, Wanted(pass[t].marking), pass[t].marking = jobIdFor(f)
        PROVE  Wanted(j) /\ Held(j)
    BY <1>1, <2>2 DEF QuietInv, MarksHeld
  <2> QED BY QueuedBefore, <2>1, <2>2
<1>3. Held(j)'
  BY <1>2, HeldStays
<1>4. j = jobIdFor(f)'
  BY <1>1, <1>2 DEF jobIdFor
<1> QED BY <1>3, <1>4 DEF Held

LEMMA QuietInit == Init => QuietInv
<1> SUFFICES ASSUME Init PROVE QuietInv
  OBVIOUS
<1>1. \A s \in Slot : slot[s].pc = "idle"
  BY DEF Init, IdleSlot
<1>2. \A e \in Entry : entry[e].state = "NEW" /\ entry[e].token = NoSlot
  BY DEF Init
<1>3. \A t \in Thread : pass[t].marking = NoJob
  BY DEF Init, IdlePass
<1>4. active = {}
  BY DEF Init
<1> QED BY <1>1, <1>2, <1>3, <1>4, NamesAssumption
        DEF QuietInv, Delivered, ClaimHeld, EndsUnwanted, MarksHeld, QueuedIsHeld, Claimed

LEMMA QuietStep == IInv /\ QuietInv /\ Quiet /\ Quiet' /\ [Next]_vars => QuietInv'
BY DeliveredStep, ClaimHeldStep, EndsUnwantedStep, MarksHeldStep, QueuedStep DEF QuietInv

\* Two slots that have claimed attempts of one entry run the same job, which is in one place only.
LEMMA OneClaim == QuietInv => QueuedIsHeld /\ OneRunner
<1> SUFFICES ASSUME QuietInv, NEW r \in Slot, NEW s \in Slot, Claimed(r), Claimed(s),
                    slot[r].job.entry = slot[s].job.entry
             PROVE  r = s
  BY DEF OneRunner, QuietInv
<1>1. Current(slot[r].job) /\ Current(slot[s].job)
  BY DEF QuietInv, ClaimHeld, Fenced
<1> QED BY <1>1 DEF Current, QuietInv, Delivered, Claimed

\* As long as nothing fails and no worker of another version takes a delivery, every QUEUED entry has its
\* job in Redis (the re-offer of relay.js is for lost jobs only) and the handler of an entry never
\* overlaps itself (execute.js, the claim), however many relays offer it, however old a claim gets and
\* however often an administrator retries it.
THEOREM RunsOnce == Spec => ([]Quiet => [](QueuedIsHeld /\ OneRunner))
<1> QED BY QuietInit, QuietStep, OneClaim, Invariant, PTL DEF Spec

\* The instance without failures that TLC checks is such a system, for any constants.
THEOREM PlainRunsEachOnce == MCSpec => []PlainRunsOnce
<1> DEFINE Calm == instance = Plain => Quiet /\ QuietInv
<1>1. MCInit => IInv /\ Calm
  BY InitIInv, QuietInit, NamesAssumption DEF MCInit, Quiet, Init, IdleSlot
<1>2. IInv /\ Calm /\ [MCNext]_<<vars, instance>> => IInv' /\ Calm'
  <2> SUFFICES ASSUME IInv, Calm, [MCNext]_<<vars, instance>> PROVE IInv' /\ Calm'
    OBVIOUS
  <2>1. [Next]_vars /\ UNCHANGED instance
    BY DEF MCNext
  <2>2. IInv'
    BY <2>1, NextIInv
  <2>3. ASSUME instance' = Plain PROVE Quiet' /\ QuietInv'
    <3>1. instance = Plain /\ Quiet /\ QuietInv
      BY <2>1, <2>3
    <3>2. faults' \in Nat /\ OldSlot \subseteq Slot
      BY <2>2, NamesAssumption DEF IInv, TypeOK
    <3>3. CASE MCNext
      <4>1. faults' <= 0 /\ \A s \in OldSlot : slot'[s] = slot[s]
        BY <3>1, <3>2, <3>3 DEF MCNext, Within, Plain
      <4>2. Quiet'
        BY <3>1, <3>2, <4>1 DEF Quiet
      <4> QED BY <2>1, <3>1, <4>2, QuietStep
    <3>4. CASE UNCHANGED <<vars, instance>>
      <4>1. Quiet'
        BY <3>1, <3>4 DEF Quiet, vars
      <4> QED BY <2>1, <3>1, <4>1, QuietStep
    <3> QED BY <3>3, <3>4
  <2> QED BY <2>2, <2>3 DEF Plain
<1>3. Calm => PlainRunsOnce
  BY OneClaim DEF PlainRunsOnce
<1> QED BY <1>1, <1>2, <1>3, PTL DEF MCSpec
===============================================================================
