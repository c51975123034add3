---------------------------- MODULE MCEmailChange ----------------------------
(* Small instances of EmailChange for TLC, in one run: what is asked for and   *)
(* what fails differs, the properties are those of the module.                 *)
EXTENDS EmailChange, TLC

CONSTANT Second   \* the other address, where there are two

VARIABLE instance

\* Two changes with every job of theirs, and nothing is retried.
Moving == INSTANCE EmailChange WITH Requests <- {"change", "confirm"}, Faults <- {"slow"}

\* Two changes, of which one gets as far as its link, and a retry by an administrator.
Retried == INSTANCE EmailChange WITH Requests <- {"change", "confirm", "retry"}, Faults <- {"provider"}

\* Links of two kinds, and everything that takes links away.
Links == INSTANCE EmailChange WITH
  Requests <- {"change", "confirm", "password", "reset", "suspend", "retire"}, Faults <- {"slow"}

\* The address is verified, and may be taken by somebody else meanwhile.
Verified == INSTANCE EmailChange WITH
  Requests <- {"change", "confirm", "verify", "retire", "signup"}, Faults <- {"error", "crash"}

\* How far an instance goes: changes asked for, jobs queued, and addresses.
Within(changes, jobs, addresses) ==
  /\ \A c \in Change : c > changes => UNCHANGED change[c]
  /\ \A j \in Job : j > jobs => UNCHANGED job[j]
  /\ asking' \in addresses \cup {None} /\ taken' \subseteq addresses
  /\ \A j \in Job : job'[j].email \in addresses \cup {None}

MCInit == Init /\ instance \in {"moving", "retried", "links", "verified"}

MCNext ==
  /\ UNCHANGED instance
  /\ \/ instance = "moving" /\ Moving!Next /\ Within(2, 4, Address)
     \/ instance = "retried" /\ Retried!Next /\ Within(2, 3, {First, Second})
     \/ instance = "links" /\ Links!Next /\ Within(1, 2, {First, Second})
     \/ instance = "verified" /\ Verified!Next /\ Within(1, 2, {First, Second})

MCSpec == MCInit /\ [][MCNext]_<<vars, instance>>

\* The addresses the account may move to; only in "moving" do two of them occur.
OtherAddresses == Permutations(Address \ {First})
===============================================================================
