---------------------------- MODULE AddressChange ----------------------------
(* What an email change promises the holder of an account: at most one change  *)
(* is under way; the old address is told, then the new one gets a link, and    *)
(* only then may the address move, to the address that was asked for; a change *)
(* never goes back a stage; of the changes that failed only the latest can     *)
(* come back, and not once it was cancelled or confirmed.  EmailChange         *)
(* implements it with jobs that may run twice, late, or not at all.            *)
EXTENDS Naturals

CONSTANTS Address, None

VARIABLES address,   \* the address of the account
          asked,     \* how many changes were asked for
          wanted,    \* the address of the latest one, while it is under way or may come back
          change     \* the change under way

Stage == {"none", "asked", "told", "linked"}
NoChange == [id |-> 0, stage |-> "none", wanted |-> None]

Init == address \in Address /\ asked = 0 /\ wanted = None /\ change = NoChange

\* A change is asked for; it replaces one under way.
Ask(a) ==
  /\ asked' = asked + 1 /\ wanted' = a
  /\ change' = [id |-> asked + 1, stage |-> "asked", wanted |-> a]
  /\ UNCHANGED address

\* The old address has been told.
Tell ==
  /\ change.stage = "asked"
  /\ change' = [change EXCEPT !.stage = "told"]
  /\ UNCHANGED <<address, asked, wanted>>

\* The new address has its link.
Link ==
  /\ change.stage = "told"
  /\ change' = [change EXCEPT !.stage = "linked"]
  /\ UNCHANGED <<address, asked, wanted>>

\* The link is used: nothing but a change whose old address was told moves the address.
Move ==
  /\ change.stage \in {"told", "linked"}
  /\ address' = change.wanted
  /\ change' = NoChange /\ wanted' = None
  /\ UNCHANGED asked

\* The change fails, and may come back.
Fail == change' = NoChange /\ UNCHANGED <<address, asked, wanted>>

\* The change, under way or failed, is cancelled.
Cancel == change' = NoChange /\ wanted' = None /\ UNCHANGED <<address, asked>>

\* An administrator retries the job of the latest change, which had failed.
Resume(stage) ==
  /\ change = NoChange /\ wanted # None
  /\ change' = [id |-> asked, stage |-> stage, wanted |-> wanted]
  /\ UNCHANGED <<address, asked, wanted>>

\* The account is retired, and its address with it.
Retire ==
  /\ address' = None /\ change' = NoChange /\ wanted' = None
  /\ UNCHANGED asked

Next ==
  \/ \E a \in Address : Ask(a)
  \/ Tell \/ Link \/ Move \/ Fail \/ Cancel \/ Retire
  \/ \E stage \in {"asked", "told"} : Resume(stage)

vars == <<address, asked, wanted, change>>
Spec == Init /\ [][Next]_vars
==============================================================================
