------------------------------- MODULE Roster -------------------------------
(* What the account lifecycle promises, whatever runs at the same time: each   *)
(* change of a role, a suspension or a retirement happens at one instant, with *)
(* the authority its rules ask for at that instant.  Workflow implements it    *)
(* with transactions that read the accounts first and write them later         *)
(* (accountRetirementService.js).                                              *)
CONSTANTS User, Proved, InitialRole

Role == {"citizen", "agency", "admin"}

VARIABLE user

Active(a) == a.active /\ ~a.retired
Administrator(a) == Active(a) /\ a.role = "admin"
Administrators(us) == {u \in User : Administrator(us[u])}

Init == user = [u \in User |-> [role |-> InitialRole[u], active |-> TRUE, retired |-> FALSE]]

\* The first administrator is created once, and never next to another one.
CreateFirst(t) ==
  /\ Administrators(user) = {}
  /\ Active(user[t]) /\ user[t].role = "citizen"
  /\ user' = [user EXCEPT ![t].role = "admin"]

\* An administrator gives an account a role and a standing.  Only another administrator, who
\* stays one, takes them from an administrator, and an address is proved before its owner joins
\* the staff.
Change(a, t, role, active) ==
  /\ Administrator(user[a]) /\ ~user[t].retired
  /\ role \in {"citizen", user[t].role} \/ t \in Proved
  /\ user[t].role = "admin" /\ ~(role = "admin" /\ active) => a # t
  /\ user' = [user EXCEPT ![t].role = role, ![t].active = active]

\* An account is retired by its owner, unless an administrator, or by another administrator.
Retire(a, t) ==
  /\ ~user[t].retired
  /\ IF a = t THEN user[t].role # "admin" ELSE Administrator(user[a])
  /\ user' = [user EXCEPT ![t].active = FALSE, ![t].retired = TRUE]

Next ==
  \E t \in User :
    \/ CreateFirst(t)
    \/ \E a \in User : Retire(a, t) \/ \E role \in Role, active \in BOOLEAN : Change(a, t, role, active)

Spec == Init /\ [][Next]_user
=============================================================================
