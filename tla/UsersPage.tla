------------------------------ MODULE UsersPage ------------------------------
(* The administrator's list of accounts, in one browser: its search and role   *)
(* filters, its pages, its dialogs, and the answers that come late.            *)
(* Sources: UsersPage.jsx, ReasonDialog.jsx, Pager.jsx and, on the server,     *)
(* userController.js.                                                          *)
(*                                                                             *)
(* The accounts are one that stands for all that may be acted on; how the list *)
(* is cut into pages is left out, only that there are some.                    *)
EXTENDS Naturals, FiniteSets

CONSTANTS
  Text, Role,   \* what is searched for, and the role filter
  Everyone,     \* the filter that is empty, in both
  MaxLoads,     \* bound: loads
  MaxVersion,   \* bound: changes to the account
  Pages         \* how many pages the list has

FilterAssumption == Everyone \in Text \cap Role
BoundAssumption == {MaxLoads, MaxVersion, Pages} \subseteq Nat

VARIABLES
  account,   \* the account on the server: its state and how often it changed
  filters,   \* the search box and the role
  list,      \* the row shown, the page, and whether the list is loading
  timer,     \* the search that waits to run, with the filters it was set with; and whether the first
             \* load, which a timer of its own starts, is still due
  dialog,    \* the dialog that is open: edit, an action, or none; and the form it holds
  action,    \* an action on the account under way: where it is
  saving,    \* a save of the edit form under way
  flight,    \* loads under way, by number
  asked      \* what was asked for: loads, the filters of the newest one, actions not yet answered,
             \* the version the last own action made, whether a load failed, and whether the first load
             \* went out after the filters were changed and is the newest one

vars == <<account, filters, list, timer, dialog, action, saving, flight, asked>>

Kind == {"delete", "suspend", "reactivate"}
State == {"active", "suspended", "retired"}
Account == [state: State, version: 0..MaxVersion]
Filters == [search: Text, role: Role]
Unfiltered == [search |-> Everyone, role |-> Everyone]
NoTimer == [on |-> FALSE, search |-> Everyone, role |-> Everyone, first |-> FALSE]
NoAction == [pc |-> "idle", kind |-> "none", page |-> 1, load |-> 0, filters |-> Unfiltered]
Failure == [state |-> "failed", version |-> 0]
NoAnswer == [state |-> "none", version |-> 0]
NotSaving == [pc |-> "no", answer |-> NoAnswer]

TypeOK ==
  /\ account \in Account /\ filters \in Filters
  /\ list.row \in Account \cup {NoAnswer} /\ list.page \in 1..Pages /\ list.loading \in BOOLEAN
  /\ dialog \in Kind \cup {"none", "edit"}
  /\ action.pc \in {"idle", "sent", "done", "refused", "loading"} /\ saving.pc \in {"no", "sent", "answered"}
  /\ DOMAIN flight \subseteq 1..MaxLoads /\ asked.loads \in 0..MaxLoads

Init ==
  /\ account = [state |-> "active", version |-> 0]
  /\ filters = Unfiltered
  /\ list = [row |-> NoAnswer, page |-> 1, loading |-> TRUE]
  /\ timer = [NoTimer EXCEPT !.first = TRUE]
  /\ dialog = "none" /\ action = NoAction /\ saving = NotSaving
  /\ flight = <<>>
  /\ asked = [loads |-> 0, filters |-> filters, need |-> 0, sent |-> 0, failed |-> FALSE, overtaken |-> FALSE]

-----------------------------------------------------------------------------
(* Loading *)

\* A load of page p with filters f, which other filters have overtaken or not.
Ask(f, p, overtaken) ==
  /\ asked.loads < MaxLoads
  /\ flight' = [n \in DOMAIN flight \cup {asked.loads + 1} |->
                  IF n = asked.loads + 1 THEN [page |-> p, answer |-> NoAnswer] ELSE flight[n]]
  /\ asked' = [asked EXCEPT !.loads = @ + 1, !.filters = f, !.overtaken = overtaken]
  /\ list' = [list EXCEPT !.loading = TRUE]
LoadUsers(f, p) == Ask(f, p, FALSE)

\* The server reads the list, or the request fails.
Serve(n) ==
  /\ flight[n].answer = NoAnswer
  /\ \E a \in {account, Failure} : flight' = [flight EXCEPT ![n].answer = a]
  /\ UNCHANGED <<account, filters, list, timer, dialog, action, saving, asked>>

\* Whatever answer comes is shown; the action that waits for it goes on.
Answered(n) ==
  LET a == flight[n].answer IN
  /\ a # NoAnswer
  /\ flight' = [m \in DOMAIN flight \ {n} |-> flight[m]]
  /\ list' = IF a = Failure THEN [list EXCEPT !.loading = FALSE]
             ELSE [row |-> a, page |-> flight[n].page, loading |-> FALSE]
  /\ action' = IF action.pc = "loading" /\ action.load = n THEN NoAction ELSE action
  /\ asked' = [asked EXCEPT !.failed = @ \/ a = Failure]
  /\ UNCHANGED <<account, filters, timer, dialog, saving>>

\* The first load, a moment after the page is there, asks for everyone.
FirstLoads ==
  /\ timer.first /\ timer' = [timer EXCEPT !.first = FALSE]
  /\ Ask(Unfiltered, 1, filters # Unfiltered)
  /\ UNCHANGED <<account, filters, dialog, action, saving>>

\* No search waits to run; the first load is left as it is.
NoSearch == [NoTimer EXCEPT !.first = timer.first]

TimerFires ==
  /\ timer.on /\ timer' = NoSearch
  /\ LoadUsers([search |-> timer.search, role |-> timer.role], 1)
  /\ UNCHANGED <<account, filters, dialog, action, saving>>

-----------------------------------------------------------------------------
(* The filters; an open dialog covers them. *)

HandleSearchChange(value) ==
  /\ dialog = "none" /\ value # filters.search
  /\ filters' = [filters EXCEPT !.search = value]
  /\ timer' = [on |-> TRUE, search |-> value, role |-> filters.role, first |-> timer.first]
  /\ UNCHANGED <<account, list, dialog, action, saving, flight, asked>>

\* Mutant of Cleared: a search still waiting to run is left to run.
ClearedNot == timer
\* A search still waiting to run would reload the list without this role.
Cleared == NoSearch

HandleRoleChange(value) ==
  /\ dialog = "none" /\ value # filters.role
  /\ filters' = [filters EXCEPT !.role = value]
  /\ timer' = Cleared
  /\ LoadUsers(filters', 1)
  /\ UNCHANGED <<account, dialog, action, saving>>

GoToPage(p) ==
  /\ dialog = "none" /\ ~list.loading /\ p \in {list.page - 1, list.page + 1} /\ p \in 1..Pages
  /\ LoadUsers(filters, p)
  /\ UNCHANGED <<account, filters, timer, dialog, action, saving>>

-----------------------------------------------------------------------------
(* The dialogs *)

\* What a row offers; a retired account offers nothing.
Offered(d) ==
  CASE d = "edit" -> list.row.state \in {"active", "suspended"}
    [] d = "reactivate" -> list.row.state = "suspended"
    [] d = "suspend" -> list.row.state = "active"
    [] d = "delete" -> list.row.state \in {"active", "suspended"}

Open(d) ==
  /\ dialog = "none" /\ ~list.loading /\ Offered(d)
  /\ dialog' = d
  /\ UNCHANGED <<account, filters, list, timer, action, saving, flight, asked>>

\* While its action runs, the dialog of an action cannot be dismissed; the edit dialog can.
MayClose == dialog = "edit" \/ action.pc = "idle"

Close ==
  /\ dialog # "none" /\ MayClose
  /\ dialog' = "none"
  /\ UNCHANGED <<account, filters, list, timer, action, saving, flight, asked>>

MayConfirm == action.pc = "idle"

\* The filters and the page are those of the render the click came from.
HandleConfirmAction ==
  /\ dialog \in Kind /\ MayConfirm /\ asked.sent < 2
  /\ action' = [pc |-> "sent", kind |-> dialog, page |-> list.page, load |-> 0, filters |-> filters]
  /\ asked' = [asked EXCEPT !.sent = @ + 1]
  /\ UNCHANGED <<account, filters, list, timer, dialog, saving, flight>>

After(kind) == CASE kind = "delete" -> "retired" [] kind = "suspend" -> "suspended" [] kind = "reactivate" -> "active"

\* A retired account refuses everything; the answer may get lost.
ServeAction ==
  /\ action.pc = "sent"
  /\ \/ /\ account.state # "retired" /\ account.version < MaxVersion
        /\ account' = [state |-> After(action.kind), version |-> account.version + 1]
        /\ \E pc \in {"done", "refused"} : action' = [action EXCEPT !.pc = pc, !.load = account.version + 1]
     \/ action' = [action EXCEPT !.pc = "refused"] /\ UNCHANGED account
  /\ UNCHANGED <<filters, list, timer, dialog, saving, flight, asked>>

\* The last account of a page may have gone from it.
ActionDone ==
  /\ action.pc = "done" /\ asked.loads < MaxLoads
  /\ dialog' = "none"
  /\ \E p \in {action.page} \cup (IF action.kind = "delete" /\ action.page > 1 THEN {action.page - 1} ELSE {}) :
       flight' = [n \in DOMAIN flight \cup {asked.loads + 1} |->
                    IF n = asked.loads + 1 THEN [page |-> p, answer |-> NoAnswer] ELSE flight[n]]
  /\ asked' = [asked EXCEPT !.loads = @ + 1, !.filters = action.filters, !.need = action.load, !.sent = @ - 1, !.overtaken = FALSE]
  /\ list' = [list EXCEPT !.loading = TRUE]
  /\ action' = [action EXCEPT !.pc = "loading", !.load = asked.loads + 1]
  /\ UNCHANGED <<account, filters, timer, saving>>

\* The dialog stays for another try.
ActionRefused ==
  /\ action.pc = "refused" /\ action' = NoAction
  /\ asked' = [asked EXCEPT !.sent = @ - 1]
  /\ UNCHANGED <<account, filters, list, timer, dialog, saving, flight>>

\* The edit form is saved; what it changes is not told apart.
HandleSaveEdit ==
  /\ dialog = "edit" /\ saving.pc = "no" /\ saving' = [NotSaving EXCEPT !.pc = "sent"]
  /\ UNCHANGED <<account, filters, list, timer, dialog, action, flight, asked>>

ServeSave ==
  /\ saving.pc = "sent"
  /\ \/ /\ account.state # "retired" /\ account.version < MaxVersion
        /\ account' = [account EXCEPT !.version = @ + 1]
        /\ \E a \in {account', Failure} : saving' = [pc |-> "answered", answer |-> a]
     \/ saving' = [pc |-> "answered", answer |-> Failure] /\ UNCHANGED account
  /\ UNCHANGED <<filters, list, timer, dialog, action, flight, asked>>

\* The row becomes what the answer holds, and the edit dialog that is open, if one is, closes.
SaveAnswered ==
  /\ saving.pc = "answered" /\ saving' = NotSaving
  /\ IF saving.answer = Failure THEN UNCHANGED <<list, dialog>>
     ELSE /\ list' = IF list.row = NoAnswer THEN list ELSE [list EXCEPT !.row = saving.answer]
          /\ dialog' = IF dialog = "edit" THEN "none" ELSE dialog
  /\ UNCHANGED <<account, filters, timer, action, flight, asked>>

-----------------------------------------------------------------------------
Progress ==
  \/ FirstLoads \/ TimerFires \/ ServeAction \/ ActionDone \/ ActionRefused \/ ServeSave \/ SaveAnswered
  \/ \E n \in DOMAIN flight : Serve(n) \/ Answered(n)

Next ==
  \/ Progress \/ Close \/ HandleConfirmAction \/ HandleSaveEdit
  \/ \E value \in Text : HandleSearchChange(value)
  \/ \E value \in Role : HandleRoleChange(value)
  \/ \E p \in 1..Pages : GoToPage(p)
  \/ \E d \in Kind \cup {"edit"} : Open(d)

Spec == Init /\ [][Next]_vars
\* Requests are answered, and the browser goes on.
FairSpec == Spec /\ \A n \in 1..MaxLoads : WF_vars(n \in DOMAIN flight /\ (Serve(n) \/ Answered(n)))
                 /\ WF_vars(ServeAction \/ ActionRefused) /\ WF_vars(ActionDone)
-----------------------------------------------------------------------------
(* Properties *)

(* With no search waiting to run, the newest load was asked for with the       *)
(* filters on screen, however typing, filters, pages and actions follow one    *)
(* another (UsersPage.jsx:77, 131).  The exception is the first load, which no *)
(* handler clears: when the filters are changed before it goes out it asks for *)
(* everyone all the same (UsersPage.jsx:61-67).                                *)
LastLoadHasFilters == ~timer.on => asked.filters = filters \/ asked.overtaken

\* The same without the exception.  Does not hold: README, section 6.
LastLoadHasFiltersAlways == ~timer.on => asked.filters = filters

(* "One pending account action at a time" (UsersPage.jsx:42): a second one is  *)
(* never sent before the first has answered.                                   *)
OneActionAtATime == asked.sent <= 1

(* The list is hidden as loading only while a load is under way, or the first  *)
(* one is due (UsersPage.jsx:56-58, 162).                                      *)
LoadingIsLoading == list.loading => flight # <<>> \/ asked.loads = 0

(* An action comes to an end and its buttons come back, unless no number is    *)
(* left for the load it asks for (UsersPage.jsx:134-136).                      *)
Acting == action.pc # "idle" /\ ~(action.pc = "done" /\ asked.loads = MaxLoads)
ActionEnds == Acting ~> ~Acting

(* "Reload rather than change the row locally, so the page stays in step with  *)
(* the server" (UsersPage.jsx:129): when all has been answered, and nothing    *)
(* failed, the row is no older than the last action done here.                 *)
\* Does not hold: README, section 6.
InStep ==
  (flight = <<>> /\ action.pc = "idle" /\ ~list.loading /\ ~asked.failed) => list.row.version >= asked.need

=============================================================================
