------------------------------ MODULE Categories ------------------------------
(* The report categories: how administrators make, rename, switch off and      *)
(* delete them, how start-up seeds the defaults, and how a report is filed in  *)
(* one or moved to one.  Sources: categoryController.js, models/Category.js,   *)
(* categoryName.js, seedCategories.js, complaintController.js (createComplaint)*)
(* and complaintRecategoriseService.js.                                        *)
(*                                                                             *)
(* Every handler reads a category and writes later, so each is a read step and *)
(* a write step.  A delete runs in a transaction: its reads are one snapshot,  *)
(* and its commit fails when the category was written in between.              *)
EXTENDS Naturals, FiniteSets, Sequences

CONSTANTS
  CategoryId,     \* bound: categories ever made
  Name,           \* the display names in use, cleaned of extra spaces
  KeyOf, SlugOf,  \* what normaliseCategoryName and categorySlug make of a name
  Other,          \* the name that filing looks the fallback up by
  Defaults,       \* the names of DEFAULT_CATEGORIES, in order
  Admin, Server,  \* requests of administrators, and processes that seed
  Report, Staff,  \* reports to be filed, and requests to move one
  Indexed,        \* whether the unique indexes exist from the start
  None

NamesAssumption ==
  /\ KeyOf \in [Name -> STRING] /\ SlugOf \in [Name -> STRING]
  /\ Defaults \in Seq(Name) /\ Other \in Name /\ \E i \in DOMAIN Defaults : Defaults[i] = Other
  /\ None \notin CategoryId \cup Report

VARIABLES
  category,   \* Category documents
  indexed,    \* the unique indexes of Category are built
  seeding,    \* what each process has left of seedDefaultCategories
  edit,       \* the administrators' requests under way
  report,     \* the category each report was filed in, None until it is
  pick        \* filing and staff requests: the category read, not yet written

vars == <<category, indexed, seeding, edit, report, pick>>

-----------------------------------------------------------------------------
(* Category rows *)

Category == [state: {"unmade", "live", "deleted"}, name: Name, key: {KeyOf[n] : n \in Name},
             slug: {SlugOf[n] : n \in Name}, isActive: BOOLEAN]
Named(name, active) == [state |-> "live", name |-> name, key |-> KeyOf[name], slug |-> SlugOf[name], isActive |-> active]

Live == {c \in CategoryId : category[c].state = "live"}
Unmade == {c \in CategoryId : category[c].state = "unmade"}
NextCategory == CHOOSE c \in Unmade : TRUE

\* The unique indexes on name, nameKey and slug accept row for the document c.
Accepts(c, row) == indexed => \A d \in Live \ {c} : 
  /\ category[d].name # row.name
  /\ category[d].key # row.key
  /\ category[d].slug # row.slug

isFallback(c) == KeyOf[category[c].name] = KeyOf[Other]

\* A request of an administrator: the document it read, and what it asks for.
\* since: for a delete, the reports put in the category after its reads.
EditRecord == [op: {"idle", "update", "delete"}, id: CategoryId \cup {None}, read: Category \cup {None},
               name: Name \cup {None}, isActive: BOOLEAN \cup {None}, since: SUBSET Report]
NoEdit == [op |-> "idle", id |-> None, read |-> None, name |-> None, isActive |-> None, since |-> {}]

\* A filing or staff request: the category it read, and the report it is for.
Pick == [id: CategoryId \cup {None}, report: Report \cup {None}, ready: BOOLEAN]
NoPick == [id |-> None, report |-> None, ready |-> FALSE]

\* The transactions that read category c before this write of it cannot commit; they start again.
Written(c, edits) == [a \in Admin |-> IF edits[a].op = "delete" /\ edits[a].id = c THEN NoEdit ELSE edits[a]]

-----------------------------------------------------------------------------
(* Administrators.  The API listens only once its process has seeded. *)

Serving == \E s \in Server : seeding[s].pc = "serving"

createCategory(name, active) ==
  /\ Serving /\ Unmade # {}
  /\ Accepts(NextCategory, Named(name, active))
  /\ category' = [category EXCEPT ![NextCategory] = Named(name, active)]
  /\ UNCHANGED <<indexed, seeding, edit, report, pick>>

\* Whether an update of the fallback is refused: it must keep its exact name and stay active.
\* None: the request leaves the field alone.
Protected(c, name, active) ==
  isFallback(c) /\ (name \notin {None, category[c].name} \/ active = FALSE)

ReadForUpdate(a, c, name, active) ==
  /\ Serving
  /\ edit[a].op = "idle"
  /\ c \in Live
  /\ ~Protected(c, name, active)
  /\ edit' = [edit EXCEPT ![a] = [op |-> "update", id |-> c, read |-> category[c], name |-> name,
                                  isActive |-> active, since |-> {}]]
  /\ UNCHANGED <<category, indexed, seeding, report, pick>>

\* save() sends the fields that differ from what was read, and only those.
Saved(a) ==
  LET now == category[edit[a].id]
      read == edit[a].read
      want == Named(IF edit[a].name = None THEN read.name ELSE edit[a].name,
                    IF edit[a].isActive = None THEN read.isActive ELSE edit[a].isActive)
  IN  [state |-> now.state,
       name |-> IF want.name # read.name THEN want.name ELSE now.name,
       key |-> IF want.key # read.key THEN want.key ELSE now.key,
       slug |-> IF want.slug # read.slug THEN want.slug ELSE now.slug,
       isActive |-> IF want.isActive # read.isActive THEN want.isActive ELSE now.isActive]

SaveUpdate(a) ==
  /\ edit[a].op = "update"
  /\ LET c == edit[a].id
         stored == c \in Live /\ Accepts(c, Saved(a))      \* else 404 or a name conflict
     IN  /\ category' = IF stored THEN [category EXCEPT ![c] = Saved(a)] ELSE category
         /\ edit' = [(IF stored THEN Written(c, edit) ELSE edit) EXCEPT ![a] = NoEdit]
  /\ UNCHANGED <<indexed, seeding, report, pick>>

Filed(c) == {r \in Report : report[r] = c}

\* The reads of the transaction: only an inactive category that no report is in.
Deletable(c) == ~isFallback(c) /\ ~category[c].isActive /\ Filed(c) = {}

ReadForDelete(a, c) ==
  /\ Serving
  /\ edit[a].op = "idle"
  /\ c \in Live
  /\ Deletable(c)
  /\ edit' = [edit EXCEPT ![a] = [op |-> "delete", id |-> c, read |-> None, name |-> None,
                                  isActive |-> None, since |-> {}]]
  /\ UNCHANGED <<category, indexed, seeding, report, pick>>

CommitDelete(a) ==
  /\ edit[a].op = "delete"
  /\ category' = [category EXCEPT ![edit[a].id].state = "deleted"]
  /\ edit' = [Written(edit[a].id, edit) EXCEPT ![a] = NoEdit]
  /\ UNCHANGED <<indexed, seeding, report, pick>>

-----------------------------------------------------------------------------
(* Seeding.  With the indexes missing, a process in production seeds nothing   *)
(* and serves all the same.                                                    *)

\* then: what the process does after seeding; the script that builds the indexes goes away.
Down == [pc |-> "down", left |-> <<>>, then |-> "down"]
Serves == [pc |-> "serving", left |-> <<>>, then |-> "serving"]

\* Mutant of ToSeed: every start ensures every default.
ToSeedAlways == Defaults
\* The defaults a start will ensure: all of them in an empty collection, else only the fallback.
ToSeed == IF Live = {} THEN Defaults ELSE <<Other>>

StartServer(s) ==
  /\ seeding[s].pc = "down"
  /\ seeding' = [seeding EXCEPT ![s] = IF indexed THEN [pc |-> "seeding", left |-> ToSeed, then |-> "serving"]
                                           ELSE Serves]
  /\ UNCHANGED <<category, indexed, edit, report, pick>>

\* A process stops or crashes; the requests under way end with the last one.
StopServer(s) ==
  /\ seeding[s].pc # "down"
  /\ seeding' = [seeding EXCEPT ![s] = Down]
  /\ IF \E t \in Server \ {s} : seeding[t].pc = "serving"
     THEN UNCHANGED <<edit, pick>>
     ELSE /\ edit' = [a \in Admin |-> NoEdit]
          /\ pick' = [w \in Report \cup Staff |-> NoPick]
  /\ UNCHANGED <<category, indexed, report>>

\* The rows a default's upsert takes for the default itself.
Matches(name) == {c \in Live : category[c].key = KeyOf[name] \/ category[c].name = name}

Upsert(name, rows) ==
  IF Matches(name) # {} THEN rows = category
  ELSE /\ Unmade # {} /\ Accepts(NextCategory, Named(name, TRUE))
       /\ rows = [category EXCEPT ![NextCategory] = Named(name, TRUE)]

\* One upsert; a row that holds the slug under another name fails the start.
SeedOne(s) ==
  /\ seeding[s].pc = "seeding"
  /\ \/ /\ seeding[s].left # <<>>
        /\ LET name == Head(seeding[s].left) IN
             \/ /\ Upsert(name, category')
                /\ seeding' = [seeding EXCEPT ![s] = [pc |-> "seeding", left |-> Tail(@.left), then |-> @.then]]
             \/ /\ Matches(name) = {}
                /\ Unmade # {} /\ ~Accepts(NextCategory, Named(name, TRUE))
                /\ seeding' = [seeding EXCEPT ![s] = Down]
                /\ UNCHANGED category
     \/ /\ seeding[s].left = <<>>
        /\ seeding' = [seeding EXCEPT ![s] = IF seeding[s].then = "serving" THEN Serves ELSE Down]
        /\ UNCHANGED category
  /\ UNCHANGED <<indexed, edit, report, pick>>

\* npm run db:indexes -- --apply: builds the indexes when no two rows stand against them, then seeds.
BuildIndexes(s) ==
  /\ ~indexed
  /\ seeding[s].pc = "down"
  /\ \A c, d \in Live : c # d => /\ category[c].name # category[d].name
                                  /\ category[c].key # category[d].key
                                  /\ category[c].slug # category[d].slug
  /\ indexed' = TRUE
  /\ seeding' = [seeding EXCEPT ![s] = [pc |-> "seeding", left |-> ToSeed, then |-> "down"]]
  /\ UNCHANGED <<category, edit, report, pick>>

-----------------------------------------------------------------------------
(* Reports.  The category is read first; the photos of a new report are        *)
(* uploaded, and the names a history entry needs are read, before it is written*)

Fallback == {c \in Live : category[c].name = Other /\ category[c].isActive}

\* createComplaint: the citizen's choice, if there is one, must be active.
ReadHint(r, c) ==
  /\ Serving
  /\ report[r] = None /\ pick[r] = NoPick
  /\ c = None \/ (c \in Live /\ category[c].isActive)
  /\ pick' = [pick EXCEPT ![r] = [id |-> c, report |-> r, ready |-> FALSE]]
  /\ UNCHANGED <<category, indexed, seeding, edit, report>>

\* The photos are inspected; then the fallback must exist, even when there is a choice.
ReadFallback(r) ==
  /\ pick[r].report = r /\ ~pick[r].ready
  /\ IF Fallback = {} THEN pick' = [pick EXCEPT ![r] = NoPick]
     ELSE \E f \in Fallback :
            pick' = [pick EXCEPT ![r] = [id |-> IF @.id = None THEN f ELSE @.id, report |-> r, ready |-> TRUE]]
  /\ UNCHANGED <<category, indexed, seeding, edit, report>>

\* recategorise: another active category for a report already filed.
PickToMove(s, r, c) ==
  /\ Serving
  /\ pick[s] = NoPick
  /\ report[r] \notin {None, c}
  /\ c \in Live /\ category[c].isActive
  /\ pick' = [pick EXCEPT ![s] = [id |-> c, report |-> r, ready |-> TRUE]]
  /\ UNCHANGED <<category, indexed, seeding, edit, report>>

\* The report is written; requests that read it before have a stale version and write nothing.
WritePick(w) ==
  /\ pick[w].ready
  /\ LET r == pick[w].report  c == pick[w].id IN
       /\ report' = [report EXCEPT ![r] = c]
       /\ pick' = [v \in Report \cup Staff |-> IF pick[v].report = r THEN NoPick ELSE pick[v]]
       /\ edit' = [a \in Admin |-> IF edit[a].op = "delete" /\ edit[a].id = c
                                   THEN [edit[a] EXCEPT !.since = @ \cup {r}] ELSE edit[a]]
  /\ UNCHANGED <<category, indexed, seeding>>

\* The request fails on the way: an upload, the insert, a withdrawn report.
DropPick(w) ==
  /\ pick[w] # NoPick
  /\ pick' = [pick EXCEPT ![w] = NoPick]
  /\ UNCHANGED <<category, indexed, seeding, edit, report>>

-----------------------------------------------------------------------------
Init ==
  /\ category \in [CategoryId -> {[Named(Other, FALSE) EXCEPT !.state = "unmade"]}]
  /\ indexed = Indexed
  /\ seeding = [s \in Server |-> Down]
  /\ edit = [a \in Admin |-> NoEdit]
  /\ report = [r \in Report |-> None]
  /\ pick = [w \in Report \cup Staff |-> NoPick]

Next ==
  \/ \E n \in Name, b \in BOOLEAN : createCategory(n, b)
  \/ \E a \in Admin, c \in CategoryId, n \in Name \cup {None}, b \in BOOLEAN \cup {None} : ReadForUpdate(a, c, n, b)
  \/ \E a \in Admin : SaveUpdate(a) \/ CommitDelete(a)
  \/ \E a \in Admin, c \in CategoryId : ReadForDelete(a, c)
  \/ \E s \in Server : StartServer(s) \/ StopServer(s) \/ SeedOne(s) \/ BuildIndexes(s)
  \/ \E r \in Report : ReadFallback(r) \/ \E c \in CategoryId \cup {None} : ReadHint(r, c)
  \/ \E s \in Staff, r \in Report, c \in CategoryId : PickToMove(s, r, c)
  \/ \E w \in Report \cup Staff : WritePick(w) \/ DropPick(w)

Spec == Init /\ [][Next]_vars

-----------------------------------------------------------------------------
(* Properties *)

(* Whatever administrators do at the same time, as long as the API answers,    *)
(* filing finds an active category named exactly Other: no stale save and no   *)
(* deletion takes it away (categoryController.js:59-64, 81).                   *)
FallbackKept == Serving => Fallback # {}

SparedByDelete ==
  \A c \in Live : category'[c].state = "deleted" =>
    /\ ~category[c].isActive
    /\ \E a \in Admin : edit[a].id = c /\ Filed(c) \subseteq edit[a].since

(* A category that is deleted is inactive at that moment, and every report in  *)
(* it was put there after the delete had looked for reports: the transaction   *)
(* never overlooks one, and never removes a category switched on again meanwhile*)
(* (categoryController.js:78-85).                                              *)
DeleteSpares == [][SparedByDelete]_vars

NoneRevived ==
  \A c \in Unmade : seeding' # seeding /\ category'[c].state = "live" /\ category'[c].name # Other =>
    \A d \in Live : \E i \in DOMAIN Defaults : Defaults[i] = category[d].name

(* Where one process at a time seeds or serves, seeding adds a default other   *)
(* than the fallback only while every category there is carries the name of a  *)
(* default: a default that an administrator has renamed does not return with a *)
(* restart, whatever the collection went through before                        *)
(* (seedCategories.js:34-36).  With two processes at once: README, section 6.  *)
NothingRevived == [][NoneRevived]_vars

(* Seeding leaves an active category named exactly Other, as seedCategories.js:34 *)
(* says it always does.                                                        *)
\* Does not hold: README, section 6.
FallbackEnsured == \A s \in Server : seeding[s].pc = "seeding" /\ seeding[s].left = <<>> => Fallback # {}

(* No two categories have names that differ in case or spaces only             *)
(* (categoryController.js:11-12, categoryName.js:1-2).                         *)
\* Does not hold: README, section 6.
NameOnce == \A c, d \in Live : c # d => KeyOf[category[c].name] # KeyOf[category[d].name]

(* The category of a filed report exists (categoryController.js:72-74).        *)
\* Does not hold: README, section 6.
FiledCategoryExists == \A r \in Report : report[r] # None => report[r] \in Live

=============================================================================
