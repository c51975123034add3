----------------------------- MODULE MCWorkflow -----------------------------
(* Small instances of Workflow for TLC.                                        *)
EXTENDS Workflow, TLC

CONSTANTS ada, rita,   \* the first administrator and the reporter
          Instances    \* where a run begins

\* All accounts are citizens, or have their roles already.
AllCitizens == [u \in User |-> "citizen"]
Staffed == [u \in User |-> CASE u = ada -> "admin" [] u = rita -> "citizen" [] OTHER -> "agency"]

-----------------------------------------------------------------------------
(* Several instances in one run: "accounts" is about accounts, from the first  *)
(* administrator on; "appointing" gives the accounts the roles of Staffed and  *)
(* goes on as "report", which is about the report; "all" is about both.        *)

VARIABLE instance

KindsOf == [accounts |-> {"bootstrap", "account", "leave", "assign"},
            appointing |-> {"bootstrap", "account"},
            report |-> {"staff", "reporter", "assign", "delete", "leave"},
            all |-> Kind]

AllIdle == \A r \in Request : request'[r] = Idle

\* One request after the other makes ada an administrator and the others agencies.
Appointing ==
  /\ \E r \in Request : \A s \in Request \ {r} : request'[s] = Idle
  /\ \A u \in User : user'[u].active /\ ~user'[u].retired /\ user'[u].role \in {"citizen", Staffed[u]}
  /\ UNCHANGED report

\* In "report", priorities and edits change in the first versions, assignees and statuses in all.
Within ==
  /\ \A r \in Request : request'[r].pc # "idle" => request'[r].kind \in KindsOf[instance]
  /\ instance = "accounts" => report'.version <= 1 /\ report'.priority = Default
  /\ instance = "appointing" => Appointing
  /\ instance = "report" /\ report.version >= 2 => UNCHANGED <<report.priority, report.prioritySource, report.edits>>

NextInstance ==
  instance' = IF instance = "appointing" /\ AllIdle /\ \A u \in User : user'[u].role = Staffed[u]
              THEN "report" ELSE instance

MCInit == Init /\ instance \in Instances
MCNext == Next /\ Within /\ NextInstance
MCSpec == MCInit /\ [][MCNext]_<<vars, instance>>

Interchangeable == Permutations(Request)
=============================================================================
