------------------------------ MODULE ReportPage ------------------------------
(* One open report page: the report it shows, the panels that act on it with   *)
(* the version shown, and the answers that replace what is shown.              *)
(* Sources: ReportDetailPage.jsx, complaintSlice.jsx, OwnerActionsPanel.jsx,   *)
(* StaffActionsPanel.jsx, ResponsibilityPanel.jsx and, on the server,          *)
(* complaintEditService.js.                                                    *)
(*                                                                             *)
(* A report is its version and its description; a status, a priority and an    *)
(* assignee only make a new version.                                           *)
EXTENDS Naturals, FiniteSets

CONSTANTS
  Viewer,       \* "owner" or "staff"
  Text,         \* descriptions
  Staff,        \* who a report may be assigned to
  Nobody,       \* the empty choice
  MaxVersion,   \* bound: changes to the report
  MaxFlight     \* bound: requests at once

ViewerAssumption == Viewer \in {"owner", "staff"} /\ Nobody \notin Staff
BoundAssumption == MaxVersion \in Nat /\ MaxFlight \in Nat \ {0}

VARIABLES
  report,    \* the report on the server
  current,   \* the report shown
  flight,    \* requests under way, by number
  editor,    \* the owner's edit form, which keeps its text while it is closed
  draft,     \* the staff's update form: whether something is chosen, at which version
  target,    \* the assignee chosen in the form, and whether the choice was made with a request under way
  flags,     \* what went wrong for somebody: see the properties
  stale      \* a version refused for, until it or a later one is shown or a reload fails

vars == <<report, current, flight, editor, draft, target, flags, stale>>
panels == <<editor, draft, target>>

Version == 0..MaxVersion
Report == [version: Version, text: Text]
Closed(t) == [open |-> FALSE, text |-> t, touched |-> FALSE, located |-> FALSE, moved |-> FALSE]
NoDraft == [chosen |-> FALSE, at |-> 0]
NoTarget == [who |-> Nobody, late |-> FALSE]

TypeOK ==
  /\ report \in Report /\ current \in Report
  /\ \A n \in DOMAIN flight : flight[n].kind \in {"fetch", "edit", "status", "assign"}
  /\ editor \in [open: BOOLEAN, text: Text, touched: BOOLEAN, located: BOOLEAN, moved: BOOLEAN]
  /\ draft \in [chosen: BOOLEAN, at: Version] /\ target \in [who: Staff \cup {Nobody}, late: BOOLEAN]
  /\ flags \in [blind: BOOLEAN, reverted: BOOLEAN, wiped: BOOLEAN] /\ stale \in Version

\* The page after its first load.
Init ==
  /\ report \in {r \in Report : r.version = 0} /\ current = report
  /\ flight = <<>> /\ editor = Closed(report.text) /\ draft = NoDraft /\ target = NoTarget
  /\ flags = [blind |-> FALSE, reverted |-> FALSE, wiped |-> FALSE]
  /\ stale = 0

-----------------------------------------------------------------------------
(* Requests *)

Under(kind) == \E n \in DOMAIN flight : flight[n].kind = kind
\* A request; what its kind does not tell is left at a value of no meaning.
Blank == [version |-> 0, text |-> CHOOSE t \in Text : TRUE]
Expected(kind) == IF kind = "fetch" THEN Blank.version ELSE current.version
Request(kind) == [kind |-> kind, answer |-> "none", report |-> Blank, expected |-> Expected(kind), told |-> FALSE,
                  text |-> Blank.text, moved |-> FALSE, touched |-> TRUE, located |-> FALSE, at |-> Expected(kind), who |-> Nobody]
With(requests, r) ==
  LET n == CHOOSE k \in 1..(Cardinality(DOMAIN requests) + 1) : k \notin DOMAIN requests
  IN  [k \in DOMAIN requests \cup {n} |-> IF k = n THEN r ELSE requests[k]]
Send(r) == Cardinality(DOMAIN flight) < MaxFlight /\ flight' = With(flight, r)

\* The poll of a pending report, and the reload that follows an action of another panel.
Reload == Send(Request("fetch")) /\ UNCHANGED <<report, current, panels, flags, stale>>

\* Whether the request changes the report: an edit that changes nothing makes no version.
Changes(r) == r.kind = "edit" => r.located \/ (r.told /\ r.text # report.text)
\* What an accepted request leaves: the text it tells, or the one that was there.
Written(r) ==
  IF Changes(r) THEN [version |-> report.version + 1, text |-> IF r.told THEN r.text ELSE report.text]
  ELSE report

\* The server reads the report, or makes the change when the version is the expected one.
Serve(n) ==
  LET r == flight[n] IN
  /\ r.answer = "none"
  /\ \/ flight' = [flight EXCEPT ![n].answer = "failed"] /\ UNCHANGED <<report, flags>>
     \/ /\ r.kind = "fetch"
        /\ flight' = [flight EXCEPT ![n].answer = "ok", ![n].report = report] /\ UNCHANGED <<report, flags>>
     \/ /\ r.kind # "fetch" /\ r.expected # report.version
        /\ flight' = [flight EXCEPT ![n].answer = "stale", ![n].report = report] /\ UNCHANGED <<report, flags>>
     \/ /\ r.kind # "fetch" /\ r.expected = report.version /\ (Changes(r) => report.version < MaxVersion)
        /\ report' = Written(r)
        /\ flight' = [flight EXCEPT ![n].answer = "ok", ![n].report = report']
        /\ flags' = [flags EXCEPT !.blind = @ \/ (r.kind = "status" /\ r.at # r.expected),
                                  !.reverted = @ \/ (r.kind = "edit" /\ report'.text # report.text /\ ~r.touched /\ ~r.moved)]
  /\ UNCHANGED <<current, panels, stale>>

\* Somebody else, or the same person in another tab.
OthersChange ==
  /\ report.version < MaxVersion
  /\ \E t \in Text : report' = [version |-> report.version + 1, text |-> t]
  /\ UNCHANGED <<current, flight, panels, flags, stale>>

-----------------------------------------------------------------------------
(* What an answer does to the page *)

\* Mutant of Remounted: the staff panel keeps its form when another version is shown.
RemountedNot(now) == draft
\* key={current.version}: another version is another staff panel.
Remounted(now) == IF now.version = current.version THEN draft ELSE NoDraft

Show(now) ==
  /\ current' = now
  /\ draft' = Remounted(now)
  /\ stale' = IF now.version >= stale THEN 0 ELSE stale

\* The choice and the reason come back when the assignment failed.
TargetAfter(r) ==
  IF r.kind = "assign" /\ r.answer # "ok" THEN [who |-> r.who, late |-> FALSE] ELSE target

\* A change that was made and a conflict both reload the page.
Reloads(r) == r.kind # "fetch" /\ r.answer \in {"ok", "stale"}

\* fetchComplaint, editComplaint, updateComplaintStatus and assignComplaint all show what they
\* answer; an edit that was made closes the form.
Answered(n) ==
  LET r == flight[n]
      rest == [m \in DOMAIN flight \ {n} |-> flight[m]] IN
  /\ r.answer # "none"
  /\ IF r.answer = "ok" THEN Show(r.report)
     ELSE UNCHANGED <<current, draft>> /\ stale' = IF r.answer = "stale" THEN r.report.version
                                                   ELSE IF r.kind = "fetch" THEN 0 ELSE stale
  /\ flight' = IF Reloads(r) THEN With(rest, Request("fetch")) ELSE rest
  /\ editor' = IF r.kind = "edit" /\ r.answer = "ok" THEN Closed(editor.text)
               ELSE [editor EXCEPT !.moved = @ \/ (r.answer = "ok" /\ r.report.text # current.text)]
  /\ target' = TargetAfter(r)
  /\ flags' = [flags EXCEPT !.wiped = @ \/ (r.kind = "assign" /\ r.answer = "ok" /\ target.late /\ target' # target)]
  /\ UNCHANGED report

-----------------------------------------------------------------------------
(* The owner's panel *)

\* Each edit starts from the latest data shown.
Opened == [Closed(current.text) EXCEPT !.open = TRUE]
OpenEditor ==
  /\ Viewer = "owner" /\ ~editor.open
  /\ editor' = Opened
  /\ UNCHANGED <<report, current, flight, draft, target, flags, stale>>
CloseEditor ==
  /\ editor.open /\ editor' = Closed(editor.text)
  /\ UNCHANGED <<report, current, flight, draft, target, flags, stale>>
Write(t) ==
  /\ editor.open /\ t # editor.text /\ editor' = [editor EXCEPT !.text = t, !.touched = TRUE]
  /\ UNCHANGED <<report, current, flight, draft, target, flags, stale>>
Locate ==
  /\ editor.open /\ ~editor.located /\ editor' = [editor EXCEPT !.located = TRUE]
  /\ UNCHANGED <<report, current, flight, draft, target, flags, stale>>

\* The description is sent when it differs from the one shown now.
Tells == editor.text # current.text
Save ==
  /\ editor.open /\ ~Under("edit") /\ (Tells \/ editor.located)
  /\ Send([Request("edit") EXCEPT !.told = Tells, !.text = editor.text, !.touched = editor.touched, !.located = editor.located, !.moved = editor.moved])
  /\ UNCHANGED <<report, current, panels, flags, stale>>

-----------------------------------------------------------------------------
(* The staff's panels *)

Choose ==
  /\ Viewer = "staff" /\ ~draft.chosen /\ draft' = [chosen |-> TRUE, at |-> current.version]
  /\ UNCHANGED <<report, current, flight, editor, target, flags, stale>>

\* Each staff panel waits for its own request; the panel of another version is another panel.
Submit ==
  /\ draft.chosen /\ \A n \in DOMAIN flight : flight[n].kind = "status" => flight[n].at # draft.at
  /\ Send([Request("status") EXCEPT !.at = draft.at])
  /\ UNCHANGED <<report, current, panels, flags, stale>>

\* The choice may be made while a request is under way.
ChooseTarget(s) ==
  /\ Viewer = "staff" /\ target.who = Nobody
  /\ target' = [who |-> s, late |-> Under("assign")]
  /\ UNCHANGED <<report, current, flight, editor, draft, flags, stale>>

\* The inputs are cleared at submission, not after the response, whatever is sent.
SendTarget ==
  /\ ~Under("assign")
  /\ Send([Request("assign") EXCEPT !.who = target.who])
  /\ target' = NoTarget
  /\ UNCHANGED <<report, current, editor, draft, flags, stale>>

Assign == target.who # Nobody /\ SendTarget
\* The assignee, if the report has one, is taken off it, whatever is chosen in the form.
Unassign == Viewer = "staff" /\ SendTarget

-----------------------------------------------------------------------------
Answers == \E n \in DOMAIN flight : Serve(n) \/ Answered(n)

Next ==
  \/ Answers \/ Reload \/ OthersChange \/ OpenEditor \/ CloseEditor \/ Locate \/ Save \/ Choose \/ Submit
  \/ Assign \/ Unassign
  \/ \E t \in Text : Write(t)
  \/ \E s \in Staff : ChooseTarget(s)

Spec == Init /\ [][Next]_vars
\* Every request is answered.
FairSpec == Spec /\ \A n \in 1..MaxFlight : WF_vars(n \in DOMAIN flight /\ (Serve(n) \/ Answered(n)))
-----------------------------------------------------------------------------
(* Properties *)

(* A staff update the server accepts was chosen with the very version on       *)
(* screen that it replaces: a refresh under the form starts it anew            *)
(* (StaffActionsPanel.jsx:28-35, ReportDetailPage.jsx:109).                       *)
NotDecidedBlind == ~flags.blind

(* "a choice made in that window must not be wiped" (ResponsibilityPanel.jsx:37-38): *)
(* a choice made while an assignment was under way is there after it was made. *)
ChoiceKept == ~flags.wiped

(* An owner who did not touch the description changes it only when another     *)
(* description was shown under the open form (OwnerActionsPanel.jsx:26-31).    *)
UntouchedTextKept == ~flags.reverted

(* After a conflict the page shows the version it was refused for, or a later  *)
(* one, unless a reload fails (StaffActionsPanel.jsx:44-46,                     *)
(* OwnerActionsPanel.jsx:34-36).                                               *)
ConflictReloads == stale > 0 ~> stale = 0

(* "Edits send only what changed plus the loaded version"                      *)
(* (OwnerActionsPanel.jsx:10): an edit under way that tells a description was  *)
(* given one by the owner.                                                     *)
\* Does not hold: README, section 6.
SendsOnlyChanges == \A n \in DOMAIN flight : flight[n].kind = "edit" /\ flight[n].told => flight[n].touched

=============================================================================
