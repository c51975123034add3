----------------------------- MODULE UniqueIndexes -----------------------------
(* db:indexes -- --apply on one collection whose index the models now declare  *)
(* unique, while the program writes to it: the old index is dropped, the unique *)
(* one built, and the old one put back when that fails.                        *)
(* Source: scripts/db/indexes.js.                                              *)
(*                                                                             *)
(* One key, and how many documents hold each of its values.  The database      *)
(* builds a unique index only over values that are unique, and keeps them so.  *)
EXTENDS Naturals

CONSTANTS
  Value,        \* values of the key
  MaxInserts,   \* bound: documents the program inserts
  MaxFaults     \* bound: times the script is stopped or loses the database

BoundAssumption == MaxInserts \in Nat /\ MaxFaults \in Nat

VARIABLES
  index,     \* the index on the key
  held,      \* how many documents hold a value
  script,    \* where the script is, and the index it read
  inserts,   \* documents inserted
  faults     \* times the script was stopped or lost the database

vars == <<index, held, script, inserts, faults>>

At == {"off", "checked", "dropped", "failed", "upgraded"}
Off == [at |-> "off", old |-> "none"]

TypeOK ==
  /\ index \in {"none", "plain", "unique"} /\ held \in [Value -> Nat]
  /\ script \in [at: At, old: {"none", "plain", "unique"}]
  /\ inserts \in 0..MaxInserts /\ faults \in 0..MaxFaults

\* A database of an earlier version, or a new one.
Init ==
  /\ index \in {"none", "plain"} /\ held = [v \in Value |-> 0]
  /\ script = Off /\ inserts = 0 /\ faults = 0

Repeated == \E v \in Value : held[v] > 1

-----------------------------------------------------------------------------
(* The program, and the operator who resolves what was reported *)

Insert(v) ==
  /\ inserts < MaxInserts
  /\ index = "unique" => held[v] = 0
  /\ held' = [held EXCEPT ![v] = @ + 1] /\ inserts' = inserts + 1
  /\ UNCHANGED <<index, script, faults>>

Resolve(v) ==
  /\ held[v] > 1 /\ held' = [held EXCEPT ![v] = 1]
  /\ UNCHANGED <<index, script, inserts, faults>>

-----------------------------------------------------------------------------
(* The script *)

Go(at) == script' = [script EXCEPT !.at = at]

\* The indexes are read and the values counted: without an old index there is nothing to upgrade,
\* and repeated values stop the run.
Check ==
  /\ script.at = "off" /\ index # "unique"
  /\ script' = IF index = "none" THEN [at |-> "upgraded", old |-> "none"]
               ELSE IF Repeated THEN script ELSE [at |-> "checked", old |-> index]
  /\ UNCHANGED <<index, held, inserts, faults>>

Drop == script.at = "checked" /\ index' = "none" /\ Go("dropped") /\ UNCHANGED <<held, inserts, faults>>

\* A value repeated since it was counted fails the build.
Build ==
  /\ script.at = "dropped"
  /\ IF Repeated THEN Go("failed") /\ UNCHANGED index
     ELSE index' = "unique" /\ Go("upgraded")
  /\ UNCHANGED <<held, inserts, faults>>

\* The old index is put back before the run stops.
PutBack == script.old
Restore ==
  /\ script.at = "failed"
  /\ index' = PutBack /\ script' = Off
  /\ UNCHANGED <<held, inserts, faults>>

MayCreate == TRUE
\* createIndexes builds an index that is missing.
Create ==
  /\ script.at = "upgraded"
  /\ index' = IF index = "none" /\ MayCreate /\ ~Repeated THEN "unique" ELSE index
  /\ script' = Off
  /\ UNCHANGED <<held, inserts, faults>>

\* The script is stopped between two steps, or the database does not put the index back.
Fault ==
  /\ script.at # "off" /\ faults < MaxFaults /\ faults' = faults + 1
  /\ script' = Off
  /\ UNCHANGED <<index, held, inserts>>

-----------------------------------------------------------------------------
Script == Check \/ Drop \/ Build \/ Restore \/ Create
Next == Script \/ Fault \/ \E v \in Value : Insert(v) \/ Resolve(v)
Spec == Init /\ [][Next]_vars
\* The operator resolves what is repeated and runs the script again until nothing is missing.
FairSpec == Spec /\ WF_vars(Script) /\ \A v \in Value : WF_vars(Resolve(v))
-----------------------------------------------------------------------------
(* Properties *)

(* "If the build still fails (a duplicate written in between), the old index   *)
(* is put back before stopping" (indexes.js:15-16): no run takes an index away *)
(* unless it is stopped itself.                                                *)
PutsBack ==
  script.old = "plain" /\ script.at # "off" /\ script'.at = "off" /\ faults' = faults => index' # "none"
IndexTakenOnlyByFault == [][PutsBack]_vars

(* Run again until it reports nothing, the script makes the index unique,      *)
(* whatever stopped the runs before: also when one was stopped with no index   *)
(* at all (indexes.js:72-77).                                                  *)
BecomesUnique == <>[](index = "unique" /\ ~Repeated)

=============================================================================
