----------------------------- MODULE ReportsList -----------------------------
(* The list of reports in one browser: its filters live in the address, its    *)
(* search box writes them after a pause, every change of the address asks for  *)
(* a list, and the answers may come late.                                      *)
(* Sources: ReportsListPage.jsx, complaintSlice.jsx, Pager.jsx and, on the     *)
(* server, complaintController.js.                                             *)
(*                                                                             *)
(* One filter stands for the status, the priority, the category, the order,    *)
(* the assignee, the AI state and "assigned to me".                            *)
EXTENDS Naturals, Sequences

CONSTANTS
  Filter, Text,   \* values of the filter and of the search box
  Unset,          \* the value that is not written into the address
  Pages,          \* pages of every list
  MaxMoves        \* bound: changes of the address

FilterAssumption == Unset \in Filter \cap Text
BoundAssumption == Pages \in Nat \ {0} /\ MaxMoves \in Nat

VARIABLES
  history,   \* the addresses visited, the current one last
  box,       \* the text in the search box
  timer,     \* the search that waits, and the address of the render it was typed in
  flight,    \* requests under way, by number
  asked,     \* the number of the newest request and the address it was sent for
  list,      \* listStatus, what is shown, and the number of its request
  order,     \* whether an older answer was shown after a newer one, or a request failed
  chosen     \* the filter as its control last set it

vars == <<history, box, timer, flight, asked, list, order, chosen>>

Address == [filter: Filter, search: Text, page: 1..Pages]
First == [filter |-> Unset, search |-> Unset, page |-> 1]
Current == history[Len(history)]
NoTimer == [on |-> FALSE, value |-> Unset, from |-> First]

TypeOK ==
  /\ history \in Seq(Address) /\ box \in Text
  /\ timer \in [on: BOOLEAN, value: Text, from: Address]
  /\ asked.of \in Address /\ list.of \in Address /\ list.status \in {"loading", "succeeded", "failed"}
  /\ order \in [overtaken: BOOLEAN, failed: BOOLEAN] /\ chosen \in Filter

\* The effect runs with the first render.
Init ==
  /\ history = <<First>> /\ box = Unset /\ timer = NoTimer
  /\ flight = [n \in {1} |-> [of |-> First, answer |-> "none"]]
  /\ asked = [number |-> 1, of |-> First]
  /\ list = [status |-> "loading", of |-> First, number |-> 0]
  /\ order = [overtaken |-> FALSE, failed |-> FALSE]
  /\ chosen = Unset

-----------------------------------------------------------------------------
(* The address *)

Depends(a) == a

\* Every change of what the effect depends on asks for the list of the new address.
Visit(a) ==
  IF Depends(a) = Depends(Current) THEN UNCHANGED <<flight, asked, list>>
  ELSE /\ asked' = [number |-> asked.number + 1, of |-> a]
       /\ flight' = [n \in DOMAIN flight \cup {asked.number + 1} |->
                       IF n = asked.number + 1 THEN [of |-> a, answer |-> "none"] ELSE flight[n]]
       /\ list' = [list EXCEPT !.status = "loading"]

SetSearchParams(a) == asked.number <= MaxMoves /\ a # Current /\ history' = Append(history, a) /\ Visit(a)

\* Any change to what is listed starts again from its first page.
WithoutPage(a) == [a EXCEPT !.page = 1]

SetFilter(value) ==
  /\ SetSearchParams([WithoutPage(Current) EXCEPT !.filter = value])
  /\ chosen' = value
  /\ UNCHANGED <<box, timer, order>>

SetPage(p) ==
  /\ list.status # "loading" /\ p \in {list.of.page - 1, list.of.page + 1} /\ p \in 1..Pages
  /\ SetSearchParams([Current EXCEPT !.page = p])
  /\ UNCHANGED <<box, timer, order, chosen>>

\* The callback of the timer works on the address of its own render.
HandleSearchChange(value) ==
  /\ value # box /\ box' = value
  /\ timer' = [on |-> TRUE, value |-> value, from |-> Current]
  /\ UNCHANGED <<history, flight, asked, list, order, chosen>>

TimerFires ==
  /\ timer.on /\ timer' = NoTimer
  /\ LET a == [WithoutPage(timer.from) EXCEPT !.search = timer.value]
     IN  IF a = Current THEN UNCHANGED <<history, flight, asked, list>> ELSE SetSearchParams(a)
  /\ UNCHANGED <<box, order, chosen>>

\* The back button; the search box keeps its text.
Back ==
  /\ Len(history) > 1 /\ asked.number <= MaxMoves
  /\ LET a == history[Len(history) - 1] IN Visit(a) /\ chosen' = a.filter
  /\ history' = SubSeq(history, 1, Len(history) - 1)
  /\ UNCHANGED <<box, timer, order>>

-----------------------------------------------------------------------------
(* The answers *)

Serve(n) ==
  /\ flight[n].answer = "none"
  /\ \E a \in {"ok", "failed"} : flight' = [flight EXCEPT ![n].answer = a]
  /\ UNCHANGED <<history, box, timer, asked, list, order, chosen>>

\* fetchComplaints.fulfilled and .rejected: whatever answer comes sets the list and its status.
Answered(n) ==
  /\ flight[n].answer # "none"
  /\ flight' = [m \in DOMAIN flight \ {n} |-> flight[m]]
  /\ IF flight[n].answer = "ok"
     THEN /\ list' = [status |-> "succeeded", of |-> flight[n].of, number |-> n]
          /\ order' = [order EXCEPT !.overtaken = @ \/ n < list.number]
     ELSE list' = [list EXCEPT !.status = "failed"] /\ order' = [order EXCEPT !.failed = TRUE]
  /\ UNCHANGED <<history, box, timer, asked, chosen>>

-----------------------------------------------------------------------------
Answers == \E n \in DOMAIN flight : Serve(n) \/ Answered(n)

Next ==
  \/ TimerFires \/ Back \/ Answers
  \/ \E value \in Filter : SetFilter(value)
  \/ \E value \in Text : HandleSearchChange(value)
  \/ \E p \in 1..Pages : SetPage(p)

Spec == Init /\ [][Next]_vars
\* Requests are answered, and timers fire.
FairSpec == Spec /\ WF_vars(Answers) /\ WF_vars(TimerFires)
-----------------------------------------------------------------------------
(* Properties *)

(* When all is answered, in order and without a failure, what is listed is     *)
(* what the address names, page included (ReportsListPage.jsx:61-73,           *)
(* complaintSlice.jsx:103-109).                                                *)
ListFollowsAddress ==
  (flight = <<>> /\ ~order.overtaken /\ ~order.failed) => list.of = Current

(* A page other than the first is never shown of filters it was not turned to  *)
(* in: any change to what is listed starts again from its first page           *)
(* (ReportsListPage.jsx:75-80).                                                *)
FiltersOf(a) == <<a.filter, a.search>>
TurnsWithinFilters ==
  \/ Len(history') < Len(history) \/ history' = history
  \/ FiltersOf(Current)' # FiltersOf(Current) => Current'.page = 1
PageBelongsToFilters == [][TurnsWithinFilters]_vars

(* The placeholder goes: every request is answered in the end                  *)
(* (ReportsListPage.jsx:201).                                                  *)
LoadingEnds == list.status = "loading" ~> list.status # "loading"

(* "Filters kept in the address" (ReportsListPage.jsx:24): a filter that was   *)
(* chosen stays there until its own control changes it, or the back button.    *)
\* Does not hold: README, section 6.
FilterKept == Current.filter = chosen

(* "... so a reload or the back button returns to the same list"               *)
(* (ReportsListPage.jsx:24): with nothing under way and no failure, a reload   *)
(* would show what is shown.                                                   *)
\* Does not hold: README, section 6.
SameList == (flight = <<>> /\ ~order.failed) => list.of = Current

=============================================================================
