------------------------------- MODULE Readiness -------------------------------
(* /health/ready: the two checks behind it, their time limits, and how calls   *)
(* share a check and its result.  Sources: readinessService.js, healthRoute.js.*)
(*                                                                             *)
(* A database check is five commands in a row, a background check one, each    *)
(* under a time limit; what they find may change between any two of them, so   *)
(* each answers anything it can, or does not answer at all.                    *)
(* Time goes in ticks; a limit that is reached is acted on before it goes on.  *)
EXTENDS Naturals

CONSTANTS
  Call,       \* calls at once
  Timeout,    \* the limit of a command
  CacheMs     \* READINESS_CACHE_MS: how long a result is used again

LimitsAssumption == Timeout \in Nat \ {0} /\ CacheMs \in Nat

VARIABLES
  probe,    \* the shared check of each kind, and its last result
  checks,   \* checks of each kind under way
  call      \* the calls

vars == <<probe, checks, call>>

-----------------------------------------------------------------------------
Kind == {"database", "background"}
Commands(k) == IF k = "database" THEN 5 ELSE 1
Status == {"ok", "degraded", "unavailable"}

\* No answer is older than this: a result in use, the check it came from, and the other check.
Longest == CacheMs + Commands("database") * Timeout + Timeout
Beyond == Longest + 1      \* bound: older results are not told apart

\* inFlight: the command that is awaited, 0 for none.  spent: how long it has been.
\* begun: the time since the check began.  at: the time since its result, age: since its beginning.
Probe == [inFlight: 0..5, spent: 0..Timeout, begun: 0..Beyond,
          cached: BOOLEAN, at: 0..CacheMs, age: 0..Beyond, result: Status]
CallRecord == [pc: {"idle", "database", "ask", "background", "answered"},
               database: Status, age: 0..(Beyond + Timeout), status: {"none", "ready", "degraded", "unavailable"}]
Waiting == [pc |-> "database", database |-> "ok", age |-> 0, status |-> "none"]

TypeOK ==
  /\ probe \in [Kind -> Probe] /\ checks \in [Kind -> 0..2] /\ call \in [Call -> CallRecord]

Init ==
  /\ probe = [k \in Kind |-> [inFlight |-> 0, spent |-> 0, begun |-> 0,
                              cached |-> FALSE, at |-> 0, age |-> 0, result |-> "ok"]]
  /\ checks = [k \in Kind |-> 0]
  /\ call = [c \in Call |-> [Waiting EXCEPT !.pc = "idle"]]

-----------------------------------------------------------------------------
(* The shared check *)

\* Mutant of Fresh: a result that is used again counts as new.
FreshSliding(p) == p.cached
Fresh(p) == p.cached /\ p.at < CacheMs

Joined(p) == p.inFlight > 0

\* A call asks the probe of kind k: the last result, the check under way, or a new one.
Begin(k) ==
  /\ probe' = [probe EXCEPT ![k] = [@ EXCEPT !.inFlight = 1, !.spent = 0, !.begun = 0]]
  /\ checks' = [checks EXCEPT ![k] = IF @ < 2 THEN @ + 1 ELSE 2]

\* After the database: if it is down the answer is 503 without a look at background work.
WithDatabase(c, result, age) ==
  IF result = "unavailable"
  THEN [call[c] EXCEPT !.pc = "answered", !.database = result, !.age = age, !.status = "unavailable"]
  ELSE [call[c] EXCEPT !.pc = "ask", !.database = result, !.age = age]
\* The answer.  A service that is not configured degrades it as well: left out.
WithBackground(c, result) ==
  [call[c] EXCEPT !.pc = "answered",
                  !.status = IF result = "ok" /\ call[c].database = "ok" THEN "ready" ELSE "degraded"]

AskDatabase(c) ==
  /\ call[c].pc \in {"idle", "answered"}
  /\ LET p == probe["database"] IN
       IF Fresh(p)
       THEN call' = [call EXCEPT ![c] = WithDatabase(c, p.result, p.age)] /\ UNCHANGED <<probe, checks>>
       ELSE /\ call' = [call EXCEPT ![c] = Waiting]
            /\ IF Joined(p) THEN UNCHANGED <<probe, checks>> ELSE Begin("database")
AskBackground(c) ==
  /\ call[c].pc = "ask"
  /\ LET p == probe["background"] IN
       IF Fresh(p)
       THEN call' = [call EXCEPT ![c] = WithBackground(c, p.result)] /\ UNCHANGED <<probe, checks>>
       ELSE /\ call' = [call EXCEPT ![c].pc = "background"]
            /\ IF Joined(p) THEN UNCHANGED <<probe, checks>> ELSE Begin("background")

\* The check of kind k ends: its result is kept, and every call that waits for it goes on.
Ends(k, result) ==
  /\ probe' = [probe EXCEPT ![k] = [@ EXCEPT !.inFlight = 0, !.spent = 0, !.cached = TRUE, !.at = 0,
                                             !.age = probe[k].begun, !.result = result]]
  /\ checks' = [checks EXCEPT ![k] = @ - 1]
  /\ call' = [c \in Call |->
                IF call[c].pc # k THEN call[c]
                ELSE IF k = "database" THEN WithDatabase(c, result, probe[k].begun) ELSE WithBackground(c, result)]

\* A command answers.  Any of the database's but the fourth (its version) may fail or find it
\* wanting, the last may miss an index that expires records; background work is degraded when no
\* worker beats, when its last beat is old, when a job has waited for long, and when it cannot be read.
Findings(k) ==
  IF k = "background" THEN {"ok", "degraded"}
  ELSE {"ok"} \cup (IF probe[k].inFlight # 4 THEN {"unavailable"} ELSE {})
             \cup (IF probe[k].inFlight = Commands(k) THEN {"degraded"} ELSE {})

Answers(k) ==
  /\ probe[k].inFlight > 0
  /\ \E finding \in Findings(k) :
       IF finding = "unavailable" \/ probe[k].inFlight = Commands(k)
       THEN Ends(k, finding)
       ELSE /\ probe' = [probe EXCEPT ![k].inFlight = @ + 1, ![k].spent = 0]
            /\ UNCHANGED <<checks, call>>

\* withTimeout: the database is then unavailable, background work of unknown state.
Expired(p) == p.inFlight > 0 /\ p.spent = Timeout
TimesOut(k) ==
  /\ Expired(probe[k])
  /\ Ends(k, IF k = "database" THEN "unavailable" ELSE "degraded")

-----------------------------------------------------------------------------
Capped(n) == IF n < Beyond THEN n + 1 ELSE n

Tick ==
  /\ \A k \in Kind : ~Expired(probe[k])
  /\ \A c \in Call : call[c].pc # "ask"
  /\ probe' = [k \in Kind |->
       [probe[k] EXCEPT !.spent = IF probe[k].inFlight > 0 /\ @ < Timeout THEN @ + 1 ELSE @,
                        !.begun = IF probe[k].inFlight > 0 THEN Capped(@) ELSE 0,
                        !.at = IF @ < CacheMs THEN @ + 1 ELSE @, !.age = Capped(@)]]
  /\ call' = [c \in Call |-> IF call[c].pc = "background" THEN [call[c] EXCEPT !.age = @ + 1] ELSE call[c]]
  /\ UNCHANGED checks

Next ==
  \/ \E c \in Call : AskDatabase(c) \/ AskBackground(c)
  \/ \E k \in Kind : Answers(k) \/ TimesOut(k)
  \/ Tick

Spec == Init /\ [][Next]_vars

-----------------------------------------------------------------------------
(* What an answer says of the database was seen no longer ago than one result  *)
(* in use, the check it came from and the wait for the background check allow, *)
(* however many calls share them (readinessService.js:102-124).                *)
FreshAnswer == \A c \in Call : call[c].pc = "answered" => call[c].age <= Longest

(* However many calls come at once, one check of a kind runs at a time         *)
(* (readinessService.js:102-104).                                              *)
OneCheckAtATime == \A k \in Kind : checks[k] = IF probe[k].inFlight > 0 THEN 1 ELSE 0

(* A check ends though the database hangs for ever: it never runs for longer  *)
(* than its commands may take together, so a call waits no longer than that,   *)
(* whichever call's check it joined (readinessService.js:14-20).               *)
CheckEndsInTime == \A k \in Kind : probe[k].inFlight > 0 => probe[k].begun <= Commands(k) * Timeout

(* However many calls of /health/ready come together, and whatever hangs, an   *)
(* answer is recent, one check of a kind runs at a time and it ends            *)
(* (readinessService.js:102-124).                                              *)
ReadinessTrue == FreshAnswer /\ OneCheckAtATime /\ CheckEndsInTime
=============================================================================
