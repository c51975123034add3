------------------------------ MODULE MCRequests ------------------------------
(* Small instances of SignIn, Categories, Readiness and DailySweep for TLC, in *)
(* one run: each moves while the others rest in their initial state.           *)
EXTENDS SignIn, TLC

CONSTANTS ann, g1,     \* the address and the Google identity of "sessions"
          CategoryId, Admin, Server, Report, Staff,
          Timeout, CacheMs,    \* of /health/ready
          Failing,             \* the reports of the sweep
          Day, Limit, MaxRequests, MaxErrors

VARIABLES
  instance,
  category, indexed, seeding, edit, report, pick,
  probe, checks, call,
  lease, age, process, classified, errors, undone

accounts == vars
categories == <<category, indexed, seeding, edit, report, pick>>
readiness == <<probe, checks, call>>
sweep == <<lease, age, process, classified, errors, undone>>
all == <<instance, accounts, categories, readiness, sweep>>

-----------------------------------------------------------------------------
(* Categories: names that differ in case only have one key, names that differ  *)
(* in a mark only have one slug.                                               *)

Keys(names) == [n \in names |-> CASE n = "OTHER" -> "other" [] n = "Other" -> "other" [] n = "Other!" -> "other!"
                                 [] n = "Roads" -> "roads" [] n = "Drains" -> "drains" [] n = "Drains!" -> "drains!"]
Slugs(names) == [n \in names |-> CASE n \in {"Other", "OTHER", "Other!"} -> "other" [] n = "Roads" -> "roads"
                                    [] n \in {"Drains", "Drains!"} -> "drains"]

\* Two administrators, with the indexes in place.
EditNames == {"Other", "OTHER", "Drains"}
Editing == INSTANCE Categories WITH
  Name <- EditNames, KeyOf <- Keys(EditNames), SlugOf <- Slugs(EditNames),
  Other <- "Other", Defaults <- <<"Drains", "Other">>, Indexed <- TRUE

\* One process, which is stopped and started again, one administrator and no reports, from a
\* database without indexes on.
SeedNames == {"Other", "Other!", "Roads", "Drains"}
One == CHOOSE a \in Admin : TRUE
First == CHOOSE s \in Server : TRUE
Seeding == INSTANCE Categories WITH
  Name <- SeedNames, KeyOf <- Keys(SeedNames), SlugOf <- Slugs(SeedNames),
  Admin <- {One}, Server <- {First}, Report <- {}, Staff <- {},
  Other <- "Other", Defaults <- <<"Drains", "Other">>, Indexed <- FALSE

ASSUME EditingAssumption == Editing!NamesAssumption
ASSUME SeedingAssumption == Seeding!NamesAssumption

-----------------------------------------------------------------------------
(* Readiness: as many calls at once as requests.                               *)
Ready == INSTANCE Readiness WITH Call <- Request

(* DailySweep: as many processes as requests.                                  *)
Sweep == INSTANCE DailySweep WITH Process <- Request, Report <- Failing, report <- classified

ASSUME ReadyAssumption == Ready!LimitsAssumption
ASSUME SweepAssumption == Sweep!BoundsAssumption

-----------------------------------------------------------------------------
(* SignIn: "identities" is everything that makes an account or moves its       *)
(* address, "sessions" everything that opens or ends a session.                *)

Identities ==
  /\ \A r \in Request : request[r].pc = "idle" => request'[r].pc \notin {"open", "auth"}
  /\ \A u \in Account : user'[u].password <= 1 /\ (user'[u].made => user'[u].isActive \/ user'[u].retired)

\* One account, of one address or Google identity, one Google sign-in and three sessions.
SingleAccount ==
  /\ Cardinality({u \in Account : user'[u].made}) <= 1
  /\ \A u \in Account : user'[u].email \in {ann, None} /\ user'[u].subject \in {g1, None}
  /\ \A r \in Request : request'[r].email \in {ann, None} /\ request'[r].subject \in {g1, None}
  /\ session'[MaxSessions] = session[MaxSessions] /\ oauth'[MaxStates] = oauth[MaxStates]

MCInit ==
  /\ instance \in {"identities", "sessions", "editing", "seeding", "readiness", "sweep"}
  /\ Init /\ Ready!Init /\ Sweep!Init
  /\ IF instance = "seeding" THEN Seeding!Init ELSE Editing!Init

\* The module of these instances moves, and no other.
Only(instances) ==
  /\ instance \in instances /\ UNCHANGED instance
  /\ instances # {"identities", "sessions"} => UNCHANGED accounts
  /\ instances # {"editing", "seeding"} => UNCHANGED categories
  /\ instances # {"readiness"} => UNCHANGED readiness
  /\ instances # {"sweep"} => UNCHANGED sweep

MCNext ==
  \/ /\ Only({"identities", "sessions"}) /\ Next
     /\ IF instance = "identities" THEN Identities ELSE SingleAccount
  \/ /\ Only({"editing", "seeding"})
     /\ IF instance = "editing" THEN Editing!Next /\ Editing!Unmade' # {} ELSE Seeding!Next   \* one row is never made
  \/ Only({"readiness"}) /\ Ready!Next
  \/ Only({"sweep"}) /\ Sweep!Next

MCSpec == MCInit /\ [][MCNext]_all

\* Requests are all alike.
Interchangeable == Permutations(Request)

-----------------------------------------------------------------------------
(* The properties of the modules; those of SignIn are its own.                 *)

\* Once the indexes exist, and whatever administrators do at the same time, filing finds an active
\* category named exactly Other as long as the API answers (categoryController.js:59-64, 81).
FallbackKept == instance = "editing" => Editing!FallbackKept

\* A deleted category is inactive at that moment, and no report that the delete looked for is in it
\* (categoryController.js:78-85).
DeleteSpares == [][instance = "editing" => Editing!SparedByDelete]_categories

\* With one process at a time, a default that was renamed does not return with a restart
\* (seedCategories.js:34-36).
NothingRevived == [][instance = "seeding" => Seeding!NoneRevived]_categories

\* Two sweeps never begin within a day (aiSweep.js:11-22).
OnceADay == [][Sweep!SweepsAfterADay]_sweep

\* A request that is under way is never asked for again (aiSweep.js:31-37).
NoDoubleRequest == [][Sweep!AsksForFailed]_sweep

\* Whatever administrators edit, delete and file at once, and however often the defaults are seeded,
\* the categories are those that people left and filing has its fallback (categoryController.js:59-85,
\* seedCategories.js:34-47).
CategoriesKept == []FallbackKept /\ DeleteSpares /\ NothingRevived

\* However many calls of /health/ready come together, and whatever hangs, an answer is recent, one
\* check of a kind runs at a time and it ends (readinessService.js:102-124).
ReadinessTrue == Ready!ReadinessTrue

\* Several processes with one lease sweep once a day, and ask for no report that is under way
\* (aiSweep.js:11-37).
SweepsOnce == OnceADay /\ NoDoubleRequest
==============================================================================
