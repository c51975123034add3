---------------------------- MODULE MCJobPipeline -----------------------------
(* Small instances of JobPipeline for TLC.                                     *)
EXTENDS JobPipeline, TLC

RelaysAndSlots == Permutations(Relay) \cup Permutations(Slot \ OldSlot)

-------------------------------------------------------------------------------
(* Three instances in one run: who takes part, and how much may go wrong.      *)

VARIABLE instance

\* Two relays and two slots, and nothing fails.
Plain == [relays |-> Relay, slots |-> Slot \ OldSlot, retries |-> 0, faults |-> 0]

\* A slot beside one of another version, and one failure.
Versions(r, s) == [relays |-> {r}, slots |-> {s} \cup OldSlot, retries |-> 1, faults |-> 1]

\* Two failures in one run of the job.
Faulty(r) == [relays |-> {r}, slots |-> Slot \ OldSlot, retries |-> 0, faults |-> 2]

Instances == {Plain} \cup {Faulty(r) : r \in Relay} \cup {Versions(r, s) : r \in Relay, s \in Slot \ OldSlot}

Within ==
  /\ \A t \in Thread : t[1] \notin instance.relays => UNCHANGED pass[t]
  /\ \A s \in Slot \ instance.slots : UNCHANGED slot[s]
  /\ \A e \in Entry : entry'[e].runKey <= instance.retries
  /\ faults' <= instance.faults

MCInit == Init /\ instance \in Instances
MCNext == Next /\ Within /\ UNCHANGED instance
MCSpec == MCInit /\ [][MCNext]_<<vars, instance>>

\* Everybody takes part, under fair scheduling.
Everybody == [relays |-> Relay, slots |-> Slot, retries |-> MaxRunKey, faults |-> MaxFaults]
FairInit == Init /\ instance = Everybody
MCFairSpec == FairInit /\ [][MCNext]_<<vars, instance>> /\ Fairness

\* While nothing fails, among workers of one version, no job is lost in the queue (outbox.js, the
\* re-offer after ten minutes is for lost jobs only), and the handler of an entry never overlaps
\* itself (execute.js, the claim), whichever relay and slot come first.
PlainRunsOnce == instance = Plain => QueuedIsHeld /\ OneRunner
===============================================================================
