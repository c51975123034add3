------------------------------ MODULE MCProcesses ------------------------------
(* Small instances of ProcessLife and of the modules of the database scripts,  *)
(* for TLC, in one run: one process is started from the command line, and the  *)
(* rest stays in its initial state.                                            *)
EXTENDS ProcessLife, TLC

CONSTANTS
  \* of PhaseOne and PhaseTwo
  Staff, Nobody, Category, Unset, MaxChanges, MaxRuns,
  \* of UniqueIndexes
  Value, MaxInserts, MaxFaults,
  \* of Backup
  Collection, Foreign, SelfExpiring, Attempts, MaxWrites, MaxStops

VARIABLES
  instance,
  assigned, import, reassigned,
  report, ai, job, plan, ghost, phaseBounds,
  index, held, script, inserts, faults,
  database, backup, kept, moment, target, restore, backupBounds

process == vars
phaseOne == <<assigned, import, reassigned>>
phaseTwo == <<report, ai, job, plan, ghost, phaseBounds>>
indexes == <<index, held, script, inserts, faults>>
copies == <<database, backup, kept, moment, target, restore, backupBounds>>
all == <<instance, process, phaseOne, phaseTwo, indexes, copies>>

-----------------------------------------------------------------------------
\* The process may be the API alone or the worker, too.
Api == INSTANCE ProcessLife WITH Kind <- "api"
Worker == INSTANCE ProcessLife WITH Kind <- "worker"

One == INSTANCE PhaseOne WITH report <- assigned, plan <- import, changes <- reassigned
Two == INSTANCE PhaseTwo WITH bounds <- phaseBounds
Unique == INSTANCE UniqueIndexes

\* No content comes back: documents hold the times they were changed at.
Copies == INSTANCE Backup WITH
  db <- database, bounds <- backupBounds, Returning <- {}, MaxFaults <- MaxStops

ASSUME PhaseOneAssumption == One!StaffAssumption /\ One!BoundAssumption
ASSUME PhaseTwoAssumption == Two!UnsetAssumption /\ Two!BoundAssumption
ASSUME IndexAssumption == Unique!BoundAssumption
ASSUME CopyAssumption == Copies!CollectionAssumption /\ Copies!BoundAssumption

-----------------------------------------------------------------------------
MCInit ==
  /\ instance \in {"both", "api", "worker", "phase one", "phase two", "indexes", "copies"}
  /\ Init /\ One!Init /\ Two!Init /\ Unique!Init /\ Copies!Init
  \* One initial state of each module that rests.
  /\ instance # "phase one" => assigned = CHOOSE r \in One!Fresh : TRUE
  /\ instance # "phase two" => report = Two!NoPlan.report /\ ai = Two!NoAi
  /\ instance # "indexes" => index = "none"
  /\ instance # "copies" => Copies!TargetIsEmpty

\* The operator resolves one value after another.
First == CHOOSE v \in Value : TRUE

\* Module m moves, and no other.
Only(m) ==
  /\ instance = m /\ UNCHANGED instance
  /\ m \notin {"both", "api", "worker"} => UNCHANGED process
  /\ m # "phase one" => UNCHANGED phaseOne
  /\ m # "phase two" => UNCHANGED phaseTwo
  /\ m # "indexes" => UNCHANGED indexes
  /\ m # "copies" => UNCHANGED copies

MCNext ==
  \/ Only("both") /\ Next
  \/ Only("api") /\ Api!Next
  \/ Only("worker") /\ Worker!Next
  \/ Only("phase one") /\ One!Next
  \/ Only("phase two") /\ Two!Next
  \/ Only("indexes") /\ Unique!Next
  \/ Only("copies") /\ Copies!Next

\* The fairness of each module, asked of the one that moves.
GoesOn ==
  \/ Only("both") /\ Starting
  \/ Only("api") /\ Api!Starting
  \/ Only("worker") /\ Worker!Starting
  \/ Only("phase one") /\ One!Analyze
  \/ Only("indexes") /\ Unique!Script
  \/ Only("copies") /\ Copies!BackupSteps
IsStopped ==
  \/ Only("both") /\ DeadlinePasses
  \/ Only("api") /\ Api!DeadlinePasses
  \/ Only("worker") /\ Worker!DeadlinePasses
  \/ Only("indexes") /\ Unique!Resolve(First)
  \/ Only("copies") /\ Copies!RestoreSteps
EndsAlone ==
  \/ Only("both") /\ RunsOut
  \/ Only("api") /\ Api!RunsOut
  \/ Only("worker") /\ Worker!RunsOut
  \/ Only("indexes") /\ \E v \in Value \ {First} : Unique!Resolve(v)

MCSpec ==
  /\ MCInit /\ [][MCNext]_all
  /\ WF_all(GoesOn) /\ WF_all(IsStopped) /\ WF_all(EndsAlone)
  /\ SF_all(Only("phase one") /\ One!Apply)

-----------------------------------------------------------------------------
(* The properties of the modules; those of ProcessLife are its own.            *)

\* A failed start ends the worker's process, whatever it had begun (worker.js:41-46).
WorkerStartEnds == (instance = "worker" /\ main = "failed") ~> exit # "no"

\* Phase 1 imports an assignment once (migratePhase1.js:64-65).
ImportedOnce == One!ImportedOnce

\* A report in use beside phase 1 ends verified (migratePhase1.js:79-96, 119-127).
EndsVerified == <>[](instance = "phase one" => One!Failures(assigned) = {})

\* Phase 2 keeps every entry of the timeline (migratePhase2.js:45-56, 140-141).
TimelineKept == Two!TimelineKept

\* Phase 2 keeps a priority the staff set meanwhile (migratePhase2.js:57-60).
StaffPriorityKept == Two!StaffPriorityKept

\* Phase 4c answers no classification that is under way (migratePhase4c.js:16, 65).
OnlyJobsAnswer == [][Two!AnswersByJob]_phaseTwo

\* No run takes an index away unless it is stopped itself (indexes.js:15-16).
IndexTakenOnlyByFault == [][Unique!PutsBack]_indexes

\* Run again until it reports nothing, the script makes the index unique (indexes.js:72-77).
BecomesUnique == <>[](instance = "indexes" => index = "unique" /\ ~Unique!Repeated)

\* A backup that is kept is the database at one moment (backup.js:12-15, 42-46).
OneMoment == Copies!OneMoment

\* A backup that is kept is restored in the end, exactly (restore.js:18-35).
EndsRestored == <>(instance = "copies" => restore.phase = "done" /\ Copies!Exact)

\* A process that is asked to stop, or cannot start, ends, whatever hangs (server.js:48-65,
\* worker.js:31-46).
ProcessEnds == SignalEnds /\ FailedStartEnds /\ WorkerStartEnds

\* The scripts, beside a program that goes on and stopped wherever it may be, take nothing away that
\* they found and answer for nobody (migratePhase1.js:64, migratePhase2.js:45-60, migratePhase4c.js:16,
\* indexes.js:15, backup.js:12-15).
ScriptsSpare ==
  [](ImportedOnce /\ TimelineKept /\ StaffPriorityKept /\ OneMoment) /\ OnlyJobsAnswer /\ IndexTakenOnlyByFault

\* Run again after every stop, the scripts end with what they promise (migratePhase1.js:79-127,
\* indexes.js:72-77, restore.js:18-35).
ScriptsFinish == EndsVerified /\ BecomesUnique /\ EndsRestored
================================================================================
