-------------------------------- MODULE Backup --------------------------------
(* db:backup of a database in use, and db:restore of what it kept into another *)
(* database.                                                                   *)
(* Sources: scripts/db/backup.js, scripts/db/restore.js, scripts/db/common.js. *)
(*                                                                             *)
(* The content of a collection is a number: most contents never come back,     *)
(* since documents hold the times they were changed at and deletions are       *)
(* recorded, but a collection of Returning may be written and be as it was.    *)
(* Collections that expire by themselves are changed by the database.  Empty   *)
(* is a collection without documents.  Nobody else writes the target.          *)
EXTENDS Naturals, FiniteSets

CONSTANTS
  Collection,     \* the collections of the program
  Foreign,        \* collections the target may hold beside them
  SelfExpiring,   \* collections with an expiry index
  Returning,      \* collections whose content may come back
  Attempts,       \* how often a dump is tried
  MaxWrites,      \* bound: writes to the database
  MaxFaults       \* bound: times a script is stopped

CollectionAssumption ==
  /\ SelfExpiring \subseteq Collection /\ Returning \subseteq Collection \ SelfExpiring
  /\ Foreign \cap Collection = {}
BoundAssumption == Attempts \in Nat \ {0} /\ MaxWrites \in Nat /\ MaxFaults \in Nat

VARIABLES
  db,         \* the database in use
  backup,     \* the run of db:backup: phase, collections to read, what was read
  kept,       \* the backup that was kept: archive and manifest
  moment,     \* the database when the dump began
  target,     \* the database restored into
  restore,    \* the run of db:restore: phase, collections to write, collections to drop
  bounds      \* writes to the database, scripts stopped

vars == <<db, backup, kept, moment, target, restore, bounds>>

Empty == 0
Content == 0..(MaxWrites + 1)
Fresh(content) == [c \in Collection |-> content]
Blank == Fresh(Empty)
Idle == [phase |-> "off", todo |-> {}, before |-> Blank, archive |-> Blank, after |-> Blank, attempt |-> 0]
NoBackup == [there |-> FALSE, archive |-> Blank, manifest |-> Blank, moment |-> Blank]
Resting == [phase |-> "off", todo |-> {}, drop |-> {}]
Space == Collection \cup Foreign
Compared == Collection \ SelfExpiring

TypeOK ==
  /\ db \in [Collection -> Content]
  /\ backup.phase \in {"off", "before", "dump", "after"} /\ backup.todo \subseteq Collection
  /\ backup.attempt \in 0..Attempts
  /\ kept.there \in BOOLEAN
  /\ target \in [Space -> Content]
  /\ restore.phase \in {"off", "write", "drop", "failed", "done"} /\ restore.todo \subseteq Collection

\* A target is empty, or holds something of its own.
Init ==
  /\ db = Fresh(1)
  /\ backup = Idle /\ kept = NoBackup /\ moment = Blank
  /\ target \in {[c \in Space |-> Empty], [c \in Space |-> MaxWrites + 1]}
  /\ restore = Resting
  /\ bounds = [writes |-> 0, faults |-> 0]

-----------------------------------------------------------------------------
(* The program *)

\* A write makes content that was not there before; a category made and removed again leaves
\* its collection as it was.
Write(c) ==
  /\ bounds.writes < MaxWrites
  /\ bounds' = [bounds EXCEPT !.writes = @ + 1]
  /\ \E to \in IF c \in Returning THEN {1, bounds.writes + 2} \ {db[c]} ELSE {bounds.writes + 2} :
       db' = [db EXCEPT ![c] = to]
  /\ UNCHANGED <<backup, kept, moment, target, restore>>

-----------------------------------------------------------------------------
(* Backup: a snapshot, the dump and a second snapshot, each collection at its own moment *)

Attempt(n) == [Idle EXCEPT !.phase = "before", !.todo = Collection, !.attempt = n]

BackUp ==
  /\ backup.phase = "off" /\ ~kept.there
  /\ backup' = Attempt(1)
  /\ UNCHANGED <<db, kept, moment, target, restore, bounds>>

Read(c) ==
  /\ c \in backup.todo
  /\ LET left == backup.todo \ {c} IN
     /\ backup' = CASE backup.phase = "before" ->
                         [backup EXCEPT !.before[c] = db[c], !.todo = IF left = {} THEN Collection ELSE left,
                                        !.phase = IF left = {} THEN "dump" ELSE @]
                    [] backup.phase = "dump" ->
                         [backup EXCEPT !.archive[c] = db[c], !.todo = IF left = {} THEN Collection ELSE left,
                                        !.phase = IF left = {} THEN "after" ELSE @]
                    [] OTHER -> [backup EXCEPT !.after[c] = db[c], !.todo = left]
     /\ moment' = IF backup.phase = "before" /\ left = {} THEN db ELSE moment
  /\ UNCHANGED <<db, kept, target, restore, bounds>>

ChangedCollections == {c \in Compared : backup.before[c] # backup.after[c]}

\* The manifest describes the first snapshot.  A database that changed is dumped again, and the
\* last attempt keeps nothing.
Decide ==
  /\ backup.phase = "after" /\ backup.todo = {}
  /\ IF ChangedCollections = {}
     THEN /\ kept' = [there |-> TRUE, archive |-> backup.archive, manifest |-> backup.before, moment |-> moment]
          /\ backup' = Idle
     ELSE /\ kept' = kept
          /\ backup' = IF backup.attempt < Attempts THEN Attempt(backup.attempt + 1) ELSE Idle
  /\ UNCHANGED <<db, moment, target, restore, bounds>>

-----------------------------------------------------------------------------
(* Restore *)

TargetIsEmpty == \A c \in Space : target[c] = Empty

\* A target that is not empty is replaced only on confirmation.
Restore(confirmed) ==
  /\ kept.there /\ restore.phase \in {"off", "failed"}
  /\ TargetIsEmpty \/ confirmed
  /\ restore' = [phase |-> "write", todo |-> Collection, drop |-> {c \in Foreign : target[c] # Empty}]
  /\ UNCHANGED <<db, backup, kept, moment, target, bounds>>

RestoreOne(c) ==
  /\ restore.phase = "write" /\ c \in restore.todo
  /\ target' = [target EXCEPT ![c] = kept.archive[c]]
  /\ restore' = [restore EXCEPT !.todo = @ \ {c}, !.phase = IF restore.todo = {c} THEN "drop" ELSE @]
  /\ UNCHANGED <<db, backup, kept, moment, bounds>>

\* Mutant of ToDrop: the collections the backup does not have stay.
ToDropNone == {}
ToDrop == restore.drop
\* A mistake against the manifest fails the restore; collections that expire are not compared.
RestoreMismatches(copy) ==
  {c \in Compared : copy[c] # kept.manifest[c]} \cup {c \in Foreign : copy[c] # Empty}
DropAndCompare ==
  /\ restore.phase = "drop"
  /\ target' = [c \in Space |-> IF c \in ToDrop THEN Empty ELSE target[c]]
  /\ restore' = [Resting EXCEPT !.phase = IF RestoreMismatches(target') = {} THEN "done" ELSE "failed"]
  /\ UNCHANGED <<db, backup, kept, moment, bounds>>

\* The database removes what has expired.
Expire(c) ==
  /\ c \in SelfExpiring /\ target[c] # Empty /\ restore.phase \in {"done", "failed"}
  /\ target' = [target EXCEPT ![c] = Empty]
  /\ UNCHANGED <<db, backup, kept, moment, restore, bounds>>

\* A script is stopped: a dump without a manifest is no backup.
Fault ==
  /\ bounds.faults < MaxFaults /\ bounds' = [bounds EXCEPT !.faults = @ + 1]
  /\ \/ backup.phase # "off" /\ backup' = Idle /\ UNCHANGED restore
     \/ restore.phase \in {"write", "drop"} /\ restore' = [Resting EXCEPT !.phase = "failed"] /\ UNCHANGED backup
  /\ UNCHANGED <<db, kept, moment, target>>

-----------------------------------------------------------------------------
BackupSteps == BackUp \/ Decide \/ \E c \in Collection : Read(c)
RestoreSteps == Restore(TRUE) \/ DropAndCompare \/ \E c \in Collection : RestoreOne(c)
Next ==
  \/ BackupSteps \/ RestoreSteps \/ Restore(FALSE) \/ Fault
  \/ \E c \in Collection : Write(c) \/ Expire(c)
Spec == Init /\ [][Next]_vars
\* The operator backs up until a backup is kept, and restores it until it is.
FairSpec == Spec /\ WF_vars(BackupSteps) /\ WF_vars(RestoreSteps)
-----------------------------------------------------------------------------
(* Properties *)

(* A backup that is kept is the database at one moment, and not some           *)
(* collections from before a write and some from after it                      *)
(* (backup.js:12-15, 42-46); collections that expire aside.                    *)
OneMoment == kept.there => \A c \in Compared : kept.archive[c] = kept.moment[c]

Exact ==
  /\ \A c \in Compared : target[c] = kept.archive[c]
  /\ \A c \in Foreign : target[c] = Empty

(* A backup that is kept can be restored: whatever stopped the scripts, run    *)
(* again they end with an exact copy of a backup, also in a target that held   *)
(* something else (restore.js:18-35, README.md:211).                           *)
EndsRestored == <>(restore.phase = "done" /\ Exact)

(* "so its manifest always matches its archive" (README.md:207).               *)
\* Does not hold: README, section 6.
ManifestMatches == kept.there => \A c \in Compared : kept.manifest[c] = kept.archive[c]

=============================================================================
