------------------------------- MODULE Polling -------------------------------
(* A report page that waits for its classification: it asks again while the    *)
(* report is shown as pending, until a time limit.                             *)
(* Sources: useClassificationPolling.js, ReportDetailPage.jsx, complaintSlice. *)
(*                                                                             *)
(* Time goes in ticks, and no timer is passed over.  A request is answered at  *)
(* any time, or never.                                                         *)
EXTENDS Naturals, FiniteSets

CONSTANTS
  IntervalMs, LimitMs,  \* the pause between refreshes, and the time limit, in ticks
  MaxRequests,          \* bound: requests under way when the reader asks for another
  MaxChanges            \* bound: times the classification of the report begins or ends

TimeAssumption == IntervalMs \in Nat \ {0} /\ LimitMs \in Nat /\ IntervalMs < LimitMs
BoundAssumption == MaxRequests \in Nat /\ MaxChanges \in Nat

VARIABLES
  server,    \* whether the report is pending on the server, and how often that changed
  pending,   \* whether the report is shown as pending
  visible,   \* the page is on screen
  effect,    \* the running effect: its timer, its time, whether it awaits a refresh
  stalled,   \* the Refresh button is offered
  flight     \* requests under way, by number, and who asked: this effect, an older one, the reader

vars == <<server, pending, visible, effect, stalled, flight>>

Off == LimitMs + 1      \* no timer is set
Unread == "unread"
NoEffect == [timer |-> Off, spent |-> 0, inFlight |-> FALSE, stopped |-> TRUE]
Started == [timer |-> IntervalMs, spent |-> 0, inFlight |-> FALSE, stopped |-> FALSE]

TypeOK ==
  /\ server \in [pending: BOOLEAN, changes: 0..MaxChanges]
  /\ pending \in BOOLEAN /\ visible \in BOOLEAN /\ stalled \in BOOLEAN
  /\ effect \in [timer: 0..Off, spent: 0..LimitMs, inFlight: BOOLEAN, stopped: BOOLEAN]
  /\ \A n \in DOMAIN flight : flight[n].answer \in {Unread, "failed", "pending", "done"}

\* The page has been loaded.
Init ==
  /\ server = [pending |-> TRUE, changes |-> 0]
  /\ pending = TRUE /\ visible = TRUE
  /\ effect = Started
  /\ stalled = FALSE
  /\ flight = <<>>

-----------------------------------------------------------------------------
(* Requests *)

\* Numbers are used again once free.
Free == CHOOSE n \in 1..(Cardinality(DOMAIN flight) + 1) : n \notin DOMAIN flight
Ask(who) ==
  flight' = [n \in DOMAIN flight \cup {Free} |-> IF n = Free THEN [by |-> who, answer |-> Unread] ELSE flight[n]]

\* A new effect begins, or none: what the one before asked is older.
Replaced(requests) == [n \in DOMAIN requests |-> [requests[n] EXCEPT !.by = IF @ = "effect" THEN "older" ELSE @]]

Serve(n) ==
  /\ flight[n].answer = Unread
  /\ \E a \in {"failed", IF server.pending THEN "pending" ELSE "done"} : flight' = [flight EXCEPT ![n].answer = a]
  /\ UNCHANGED <<server, pending, visible, effect, stalled>>

\* schedule: a stopped effect sets no timer.
Schedule(e) == [e EXCEPT !.inFlight = FALSE, !.timer = IF e.stopped THEN Off ELSE IntervalMs]

OldStall(changed) == IF changed THEN FALSE ELSE stalled

\* A change of what is shown replaces the effect and clears the stall; then the await goes on.
Answered(n) ==
  LET a == flight[n].answer
      now == IF a = "failed" THEN pending ELSE a = "pending"
      changed == now # pending
      rest == [m \in DOMAIN flight \ {n} |-> flight[m]] IN
  /\ a # Unread
  /\ pending' = now
  /\ stalled' = OldStall(changed)
  /\ flight' = IF changed THEN Replaced(rest) ELSE rest
  /\ effect' = CASE changed -> IF now THEN Started ELSE NoEffect
                 [] ~changed /\ flight[n].by = "effect" -> Schedule(effect)
                 [] OTHER -> effect
  /\ UNCHANGED <<server, visible>>

-----------------------------------------------------------------------------
(* The effect *)

\* The timer of a refresh: asked only while the page is visible.  At the limit the deadline,
\* which was set before it, comes first.
TimerFires ==
  /\ effect.timer = 0 /\ effect.spent < LimitMs
  /\ IF visible THEN Ask("effect") /\ effect' = [effect EXCEPT !.timer = Off, !.inFlight = TRUE]
     ELSE effect' = Schedule(effect) /\ UNCHANGED flight
  /\ UNCHANGED <<server, pending, visible, stalled>>

Deadline == ~effect.stopped /\ effect.spent = LimitMs

\* The deadline stops the effect, whatever it awaits.
\* Mutant of LimitReached: only between two refreshes.
LimitReachedIdle == Deadline /\ ~effect.inFlight
LimitReached == Deadline
DeadlineFires ==
  /\ LimitReached
  /\ effect' = [effect EXCEPT !.stopped = TRUE, !.timer = Off]
  /\ stalled' = TRUE
  /\ UNCHANGED <<server, pending, visible, flight>>

Idle == effect.timer = Off /\ ~effect.stopped /\ ~effect.inFlight
OnVisible == IF Idle THEN [effect EXCEPT !.timer = IntervalMs] ELSE effect

\* The page is hidden or shown again; visibilitychange is listened to while pending.
TurnVisible ==
  /\ visible' = ~visible
  /\ effect' = IF visible' /\ pending THEN OnVisible ELSE effect
  /\ UNCHANGED <<server, pending, stalled, flight>>

\* A tick passes over no timer; an effect that ended counts no time.
Tick ==
  /\ ~effect.stopped /\ effect.timer # 0 /\ effect.spent < LimitMs
  /\ effect' = [effect EXCEPT !.spent = @ + 1, !.timer = IF @ = Off THEN Off ELSE @ - 1]
  /\ UNCHANGED <<server, pending, visible, stalled, flight>>

-----------------------------------------------------------------------------
(* The reader of the page, and the server *)

Room == Cardinality(DOMAIN flight) < MaxRequests

\* The Refresh button of a stalled page starts a new round and reloads at once.
Refresh ==
  /\ Room /\ stalled /\ pending
  /\ stalled' = FALSE /\ effect' = Started
  /\ flight' = [n \in DOMAIN flight \cup {Free} |->
                  IF n = Free THEN [by |-> "reader", answer |-> Unread] ELSE Replaced(flight)[n]]
  /\ UNCHANGED <<server, pending, visible>>

\* A panel reloads the page after its action.
Reload == Room /\ Ask("reader") /\ UNCHANGED <<server, pending, visible, effect, stalled>>

\* A worker classifies the report, or a new classification begins.
ServerChanges ==
  /\ server.changes < MaxChanges
  /\ server' = [pending |-> ~server.pending, changes |-> server.changes + 1]
  /\ UNCHANGED <<pending, visible, effect, stalled, flight>>

-----------------------------------------------------------------------------
Next ==
  \/ TimerFires \/ DeadlineFires \/ TurnVisible \/ Tick \/ Refresh \/ Reload \/ ServerChanges
  \/ \E n \in DOMAIN flight : Serve(n) \/ Answered(n)

Spec == Init /\ [][Next]_vars
\* Only time goes on: no request need ever be answered.
FairSpec == Spec /\ WF_vars(Tick \/ TimerFires \/ DeadlineFires)
-----------------------------------------------------------------------------
(* Properties *)

By(who) == {n \in DOMAIN flight : flight[n].by \in who}

(* An effect awaits one refresh at most, whatever the page is hidden and shown *)
(* between (useClassificationPolling.js:28-39).                                *)
OneRefreshPerRound == Cardinality(By({"effect"})) <= 1

(* After the time limit nothing is asked any more: no timer is left of it,     *)
(* also when a refresh under way is answered later                             *)
(* (useClassificationPolling.js:20-25, 33).                                    *)
StalledIsQuiet == stalled => effect.timer = Off

(* The Refresh button belongs to the classification shown: it is offered only  *)
(* when the report is still shown as pending and this round ran out            *)
(* (useClassificationPolling.js:8-11).                                         *)
StallOfThisRound == stalled => pending /\ effect.stopped /\ effect.spent = LimitMs

(* No page shows a report as being classified for ever without offering to     *)
(* look again, even if no request is ever answered                             *)
(* (useClassificationPolling.js:20-24).                                        *)
PendingEnds == pending ~> (~pending \/ stalled)

(* "Never overlap requests" (useClassificationPolling.js:3).                   *)
\* Does not hold: README, section 6.
NeverOverlap == Cardinality(By({"effect", "older"})) <= 1

=============================================================================
