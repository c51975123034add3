------------------------------ MODULE ProcessLife ------------------------------
(* One process from its start to its end: the API, with or without background  *)
(* work of its own, or the worker.  Sources: server.js, worker.js, config/db.js*)
(* config/queue.js, background.js, heartbeat.js, and the stop functions of     *)
(* relay.js, aiSweep.js and workers.js.                                        *)
(*                                                                             *)
(* Requests, jobs, relay passes and sweeps are what may be under way when a    *)
(* signal comes; how long they take is not known, and some may never end.      *)
EXTENDS Naturals

CONSTANTS
  Kind,        \* "api", "both" (WORKERS_IN_PROCESS=true) or "worker"
  MaxWork      \* bound: requests, and jobs, under way at once

ASSUME KindAssumption == Kind \in {"api", "both", "worker"} /\ MaxWork \in Nat \ {0}

VARIABLES
  main,       \* how far the start has come
  server,     \* the HTTP server
  work,       \* what is under way
  part,       \* the parts of background work that run
  beat,       \* the heartbeat: its document, a write under way, one that outlived its removal, and
              \* whether its first write or its removal failed and left the document
  db,         \* the database connection
  stopper,    \* how far shutdown() has come
  deadline,   \* its timer is set
  exit        \* how the process ended

vars == <<main, server, work, part, beat, db, stopper, deadline, exit>>

-----------------------------------------------------------------------------
Serves == Kind \in {"api", "both"}
Works == Kind \in {"both", "worker"}

Main == {"config", "connect", "seed", "listen", "beat", "parts", "up", "broken", "failed"}
Stopper == {"none", "server", "starting", "sweep", "relay", "workers", "heartbeat", "disconnect", "exit"}
Work == [request: 0..MaxWork, job: 0..MaxWork, pass: 0..1, sweep: 0..1]
Part == [workers: {"off", "on", "closing"}, relay: BOOLEAN, sweep: BOOLEAN, beat: BOOLEAN]

TypeOK ==
  /\ main \in Main /\ server \in {"none", "listening", "closing"} /\ work \in Work /\ part \in Part
  /\ beat \in [doc: BOOLEAN, writing: BOOLEAN, late: BOOLEAN, failed: BOOLEAN]
  /\ db \in {"never", "on", "off"} /\ stopper \in Stopper /\ deadline \in BOOLEAN
  /\ exit \in {"no", "0", "1", "killed"}

Init ==
  /\ main = "config" /\ server = "none" /\ db = "never" /\ stopper = "none" /\ deadline = FALSE /\ exit = "no"
  /\ work = [request |-> 0, job |-> 0, pass |-> 0, sweep |-> 0]
  /\ part = [workers |-> "off", relay |-> FALSE, sweep |-> FALSE, beat |-> FALSE]
  /\ beat = [doc |-> FALSE, writing |-> FALSE, late |-> FALSE, failed |-> FALSE]

Alive == exit = "no"

-----------------------------------------------------------------------------
(* The start.  Each step may fail: a setting, the database, the seeding, the   *)
(* port, the first heartbeat.                                                  *)

\* The API's catch block closes what is open; the worker's process exits at once.
Fails ==
  /\ main' = "failed"
  /\ IF Serves
     THEN /\ server' = IF server = "none" THEN "none" ELSE "closing"
          /\ db' = IF db = "on" THEN "off" ELSE db
          /\ UNCHANGED exit
     ELSE exit' = "1" /\ UNCHANGED <<server, db>>

Goes(to) == main' = to /\ UNCHANGED <<server, db, exit>>

\* parseQueueConfig, requireRedisUrl and getAiConfig.
Configure ==
  /\ Alive /\ main = "config"
  /\ Goes("connect") \/ Fails
  /\ UNCHANGED <<work, part, beat, stopper, deadline>>

Connect ==
  /\ Alive /\ main = "connect"
  /\ \/ db' = "on" /\ main' = (IF Serves THEN "seed" ELSE "beat") /\ UNCHANGED <<server, exit>>
     \/ Fails
  /\ part' = IF main' = "beat" THEN [part EXCEPT !.workers = "on"] ELSE part
  /\ UNCHANGED <<work, beat, stopper, deadline>>

Seed ==
  /\ Alive /\ main = "seed"
  /\ Goes("listen") \/ Fails
  /\ UNCHANGED <<work, part, beat, stopper, deadline>>

\* The API listens; then background work, if it is its own, begins: its workers take jobs from here on.
Listen ==
  /\ Alive /\ main = "listen"
  /\ \/ server' = "listening" /\ main' = (IF Works THEN "beat" ELSE "up") /\ UNCHANGED <<db, exit>>
     \/ Fails
  /\ part' = IF main' = "beat" THEN [part EXCEPT !.workers = "on"] ELSE part
  /\ UNCHANGED <<work, beat, stopper, deadline>>

\* Left behind: the document is there although the call that wrote or removed it failed.
Left == [beat EXCEPT !.doc = TRUE, !.failed = TRUE]

\* startHeartbeat waits for the first write; when that fails the workers stay as they are.  A write
\* whose answer got lost has stored the document all the same.
FirstBeat ==
  /\ Alive /\ main = "beat"
  /\ \/ /\ beat' = [beat EXCEPT !.doc = TRUE]
        /\ part' = [part EXCEPT !.beat = TRUE]
        /\ main' = "parts"
     \/ main' = "broken" /\ beat' \in {beat, Left} /\ UNCHANGED part
  /\ UNCHANGED <<server, work, db, stopper, deadline, exit>>
BreakOff ==
  /\ Alive /\ main = "broken"
  /\ Fails
  /\ UNCHANGED <<work, part, beat, stopper, deadline>>
StartParts ==
  /\ Alive /\ main = "parts"
  /\ part' = [part EXCEPT !.relay = TRUE, !.sweep = TRUE]
  /\ work' = [work EXCEPT !.sweep = 1]          \* startAiSweep checks at once
  /\ main' = "up"
  /\ UNCHANGED <<server, beat, db, stopper, deadline, exit>>

-----------------------------------------------------------------------------
(* What goes on meanwhile *)

RequestComes ==
  /\ Alive /\ server = "listening" /\ work.request < MaxWork
  /\ work' = [work EXCEPT !.request = @ + 1]
  /\ UNCHANGED <<main, server, part, beat, db, stopper, deadline, exit>>
JobBegins ==
  /\ Alive /\ part.workers = "on" /\ work.job < MaxWork
  /\ work' = [work EXCEPT !.job = @ + 1]
  /\ UNCHANGED <<main, server, part, beat, db, stopper, deadline, exit>>
TimerFires ==
  /\ Alive
  /\ \/ part.relay /\ work.pass = 0 /\ work' = [work EXCEPT !.pass = 1] /\ UNCHANGED beat
     \/ part.sweep /\ work.sweep = 0 /\ work' = [work EXCEPT !.sweep = 1] /\ UNCHANGED beat
     \/ part.beat /\ ~beat.writing /\ beat' = [beat EXCEPT !.writing = TRUE] /\ UNCHANGED work
  /\ UNCHANGED <<main, server, part, db, stopper, deadline, exit>>
WorkEnds ==
  /\ Alive
  /\ \E k \in {"request", "job", "pass", "sweep"} : work[k] > 0 /\ work' = [work EXCEPT ![k] = @ - 1]
  /\ UNCHANGED <<main, server, part, beat, db, stopper, deadline, exit>>
\* The upsert of a beat reaches the database, or fails and is logged.
BeatWritten ==
  /\ Alive /\ beat.writing
  /\ beat' \in {[beat EXCEPT !.writing = FALSE, !.doc = TRUE], [beat EXCEPT !.writing = FALSE]}
  /\ UNCHANGED <<main, server, work, part, db, stopper, deadline, exit>>

-----------------------------------------------------------------------------
(* The end *)

\* Mutant of Handled: the API's signal handlers are installed once everything is up.
HandledWhenUp == Kind = "worker" \/ main = "up"
\* Whether the signal handlers are in place: in the worker from the start, in the API once it listens.
Handled == Kind = "worker" \/ main \in {"beat", "parts", "up", "broken"} \/ (main = "failed" /\ server # "none")

\* Mutant of Armed: no deadline is set.
ArmedNever == FALSE
Armed == TRUE

\* A second signal finds the process stopping.
Signal ==
  /\ Alive /\ stopper = "none"
  /\ IF Handled
     THEN /\ stopper' = IF Serves THEN "server" ELSE "starting"
          /\ deadline' = Armed
          /\ server' = IF server = "listening" THEN "closing" ELSE server
          /\ UNCHANGED exit
     ELSE exit' = "killed" /\ UNCHANGED <<stopper, deadline, server>>
  /\ UNCHANGED <<main, work, part, beat, db>>

Stops(from, to) == stopper = from /\ stopper' = to

\* server.close() waits for the requests under way, then the start is waited for.
ServerClosed ==
  /\ Alive /\ Stops("server", "starting") /\ work.request = 0
  /\ UNCHANGED <<main, server, work, part, beat, db, deadline, exit>>
StartSettled ==
  /\ Alive /\ main \in {"up", "broken", "failed"}
  /\ Stops("starting", IF part.relay THEN "sweep" ELSE "disconnect")
  /\ part' = [part EXCEPT !.sweep = FALSE]
  /\ UNCHANGED <<main, server, work, beat, db, deadline, exit>>

\* stop() of background work: the sweep, the relay, the workers, and then the heartbeat.
SweepStopped ==
  /\ Alive /\ Stops("sweep", "relay") /\ work.sweep = 0
  /\ part' = [part EXCEPT !.relay = FALSE]
  /\ UNCHANGED <<main, server, work, beat, db, deadline, exit>>
RelayStopped ==
  /\ Alive /\ Stops("relay", "workers") /\ work.pass = 0
  /\ part' = [part EXCEPT !.workers = "closing"]
  /\ UNCHANGED <<main, server, work, beat, db, deadline, exit>>
\* Mutant of WorkersClosed: the jobs in hand are not waited for.
WorkersClosedNow ==
  /\ Alive /\ Stops("workers", "heartbeat")
  /\ part' = [part EXCEPT !.workers = "off", !.beat = FALSE]
  /\ UNCHANGED <<main, server, work, beat, db, deadline, exit>>
WorkersClosed ==
  /\ Alive /\ Stops("workers", "heartbeat") /\ work.job = 0
  /\ part' = [part EXCEPT !.workers = "off", !.beat = FALSE]
  /\ UNCHANGED <<main, server, work, beat, db, deadline, exit>>
\* The document is removed, or stays because that failed, which is swallowed; the stop goes on either
\* way.  A beat may be on its way still.
HeartbeatStopped ==
  /\ Alive /\ Stops("heartbeat", "disconnect")
  /\ \E left \in {[beat EXCEPT !.doc = FALSE], Left} : beat' = [left EXCEPT !.late = beat.writing]
  /\ UNCHANGED <<main, server, work, part, db, deadline, exit>>
Disconnect ==
  /\ Alive /\ Stops("disconnect", "exit")
  /\ db' = IF db = "on" THEN "off" ELSE db
  /\ UNCHANGED <<main, server, work, part, beat, deadline, exit>>
Exit ==
  /\ Alive /\ stopper = "exit"
  /\ exit' = "0"
  /\ UNCHANGED <<main, server, work, part, beat, db, stopper, deadline>>
DeadlinePasses ==
  /\ Alive /\ deadline
  /\ exit' = "1"
  /\ UNCHANGED <<main, server, work, part, beat, db, stopper, deadline>>

\* A process whose start failed has nothing left to wait for, and Node ends it with the exit code set.
RunsOut ==
  /\ Alive /\ main = "failed" /\ stopper = "none"
  /\ server # "listening" /\ work.request = 0 /\ part.workers = "off" /\ db # "on"
  /\ exit' = "1"
  /\ UNCHANGED <<main, server, work, part, beat, db, stopper, deadline>>

Starting == Configure \/ Connect \/ Seed \/ Listen \/ FirstBeat \/ BreakOff \/ StartParts
Stopping == ServerClosed \/ StartSettled \/ SweepStopped \/ RelayStopped \/ WorkersClosed
            \/ HeartbeatStopped \/ Disconnect \/ Exit
Next == Starting \/ Stopping \/ Signal \/ DeadlinePasses \/ RunsOut
        \/ RequestComes \/ JobBegins \/ TimerFires \/ WorkEnds \/ BeatWritten

Spec == Init /\ [][Next]_vars
\* Timers fire and callbacks run; of requests, jobs and provider calls nothing is assumed.
FairSpec == Spec /\ WF_vars(Starting) /\ WF_vars(DeadlinePasses) /\ WF_vars(RunsOut)

-----------------------------------------------------------------------------
(* The database is disconnected on a stop only when nothing uses it any more:  *)
(* no request, job, relay pass or sweep is cut off by an orderly stop, whether *)
(* the signal came during a start that succeeded or later (background.js:30-41,*)
(* server.js:44-53).                                                           *)
StopCutsNothing ==
  stopper = "exit" /\ main = "up" => work = [request |-> 0, job |-> 0, pass |-> 0, sweep |-> 0]

(* A process that a signal ends in time leaves no heartbeat behind, also when  *)
(* the signal comes during the start; save for a beat that was on its way when *)
(* the document was removed, and for a removal, or a first write, that failed  *)
(* (worker.js:9-10, heartbeat.js:19-24).                                       *)
HeartbeatGone == exit \in {"0", "killed"} /\ beat.doc => beat.late \/ beat.failed

(* The same without the exceptions: a stop removes the heartbeat (worker.js:9-10). *)
\* Does not hold: README, section 6.
HeartbeatGoneAlways == exit \in {"0", "killed"} => ~beat.doc

(* A signal ends the process, whatever hangs: a request, a job, the start      *)
(* (server.js:48, worker.js:31).                                               *)
SignalEnds == stopper # "none" ~> exit # "no"

(* A failed start ends the process, unless a request hangs.  The exception is  *)
(* the API whose own workers had begun before the first heartbeat failed:      *)
(* nothing stops them, and they keep the process (server.js:59-65).            *)
FailedStartEnds == main = "failed" ~> exit # "no" \/ (Serves /\ part.workers # "off") \/ work.request > 0
=============================================================================
