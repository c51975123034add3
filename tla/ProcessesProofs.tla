--------------------------- MODULE ProcessesProofs ---------------------------
(* Proofs about one process and the database scripts: an orderly stop cuts     *)
(* nothing off and leaves no heartbeat that it could remove, for every kind of *)
(* process and any number of requests and jobs under way, whenever the signal  *)
(* comes; and what the scripts find they leave, however often they are stopped *)
(* and run again.                                                              *)
EXTENDS MCProcesses, TLAPS

-----------------------------------------------------------------------------
(* ProcessLife.                                                                *)

Types ==
  /\ server \in {"none", "listening", "closing"}
  /\ work \in [request: Nat, job: Nat, pass: Nat, sweep: Nat]
  /\ part \in [workers: {"off", "on", "closing"}, relay: BOOLEAN, sweep: BOOLEAN, beat: BOOLEAN]

\* Only a process that serves listens, and once it has listened it does not start to again.
Serving ==
  /\ main \in {"seed", "listen"} => Serves
  /\ ~Serves => server = "none" /\ work.request = 0
  /\ main \in {"config", "connect", "seed", "listen"} => server = "none" /\ work.request = 0
  /\ stopper # "none" /\ Serves => main \notin {"config", "connect", "seed", "listen"} /\ server # "listening"
  /\ stopper \notin {"none", "server"} => work.request = 0

\* Background work runs only in a process of that kind; once up, all of it runs until the stop comes to it.
Background ==
  /\ ~Works => /\ ~part.relay /\ ~part.sweep /\ part.workers = "off"
               /\ work.job = 0 /\ work.pass = 0 /\ work.sweep = 0
               /\ main \notin {"beat", "parts", "broken"}
               /\ stopper \notin {"sweep", "relay", "workers", "heartbeat"}
  /\ main = "up" /\ Works /\ stopper \in {"none", "server", "starting", "sweep"} => part.relay

\* The parts stop one after the other, each with nothing of its own left under way.
Order ==
  /\ stopper \notin {"none", "server", "starting"} => main \in {"up", "broken", "failed"} /\ ~part.sweep
  /\ main = "up" /\ stopper \in {"relay", "workers", "heartbeat", "disconnect", "exit"} => ~part.relay /\ work.sweep = 0
  /\ main = "up" /\ stopper \in {"workers", "heartbeat", "disconnect", "exit"} => work.pass = 0
  /\ main = "up" /\ stopper \in {"heartbeat", "disconnect", "exit"} => part.workers # "on" /\ work.job = 0

StopInv == Types /\ Serving /\ Background /\ Order

\* The start leaves the invariant true.
LEMMA StartStep == StopInv /\ Starting => StopInv'
<1> SUFFICES ASSUME Types, Serving, Background, Order, Starting PROVE StopInv'
  BY DEF StopInv
<1> USE KindAssumption DEF Serves, Works
<1>1. CASE Configure \/ Seed
  BY <1>1 DEF Configure, Seed, Goes, Fails, StopInv, Types, Serving, Background, Order
<1>2. CASE Connect
  <2>1. part' \in [workers: {"off", "on", "closing"}, relay: BOOLEAN, sweep: BOOLEAN, beat: BOOLEAN]
        /\ (part'.relay <=> part.relay) /\ (part'.sweep <=> part.sweep) /\ (part'.workers = part.workers \/ main' = "beat")
    BY <1>2 DEF Connect, Types
  <2> QED BY <1>2, <2>1 DEF Connect, Fails, StopInv, Types, Serving, Background, Order
<1>3. CASE Listen
  <2>1. part' \in [workers: {"off", "on", "closing"}, relay: BOOLEAN, sweep: BOOLEAN, beat: BOOLEAN]
        /\ (part'.relay <=> part.relay) /\ (part'.sweep <=> part.sweep) /\ (part'.workers = part.workers \/ main' = "beat")
    BY <1>3 DEF Listen, Types
  <2> QED BY <1>3, <2>1 DEF Listen, Fails, StopInv, Types, Serving, Background, Order
<1>4. CASE FirstBeat
  <2>1. part' \in [workers: {"off", "on", "closing"}, relay: BOOLEAN, sweep: BOOLEAN, beat: BOOLEAN]
        /\ (part'.relay <=> part.relay) /\ (part'.sweep <=> part.sweep) /\ part'.workers = part.workers
    BY <1>4 DEF FirstBeat, Types
  <2> QED BY <1>4, <2>1 DEF FirstBeat, StopInv, Types, Serving, Background, Order
<1>5. CASE BreakOff
  BY <1>5 DEF BreakOff, Fails, StopInv, Types, Serving, Background, Order
<1>6. CASE StartParts
  <2>1. /\ part' \in [workers: {"off", "on", "closing"}, relay: BOOLEAN, sweep: BOOLEAN, beat: BOOLEAN]
        /\ part'.relay /\ part'.workers = part.workers
    BY <1>6 DEF StartParts, Types
  <2>2. /\ work' \in [request: Nat, job: Nat, pass: Nat, sweep: Nat]
        /\ work'.request = work.request /\ work'.job = work.job /\ work'.pass = work.pass
    BY <1>6 DEF StartParts, Types
  <2> QED BY <1>6, <2>1, <2>2 DEF StartParts, StopInv, Types, Serving, Background, Order
<1> QED BY <1>1, <1>2, <1>3, <1>4, <1>5, <1>6 DEF Starting

\* So does the stop.
LEMMA StopStep == StopInv /\ (Stopping \/ Signal) => StopInv'
<1> SUFFICES ASSUME Types, Serving, Background, Order, Stopping \/ Signal PROVE StopInv'
  BY DEF StopInv
<1> USE KindAssumption DEF Serves, Works
<1>1. CASE Signal
  BY <1>1 DEF Signal, Handled, Armed, StopInv, Types, Serving, Background, Order
<1>2. CASE ServerClosed \/ Disconnect \/ HeartbeatStopped \/ Exit
  BY <1>2 DEF ServerClosed, Disconnect, HeartbeatStopped, Exit, Stops, StopInv, Types, Serving, Background, Order
<1>3. CASE StartSettled
  <2>1. /\ part' \in [workers: {"off", "on", "closing"}, relay: BOOLEAN, sweep: BOOLEAN, beat: BOOLEAN]
        /\ (part'.relay <=> part.relay) /\ ~part'.sweep /\ part'.workers = part.workers
    BY <1>3 DEF StartSettled, Types
  <2> QED BY <1>3, <2>1 DEF StartSettled, Stops, StopInv, Types, Serving, Background, Order
<1>4. CASE SweepStopped
  <2>1. /\ part' \in [workers: {"off", "on", "closing"}, relay: BOOLEAN, sweep: BOOLEAN, beat: BOOLEAN]
        /\ ~part'.relay /\ (part'.sweep <=> part.sweep) /\ part'.workers = part.workers
    BY <1>4 DEF SweepStopped, Types
  <2> QED BY <1>4, <2>1 DEF SweepStopped, Stops, StopInv, Types, Serving, Background, Order
<1>5. CASE RelayStopped
  <2>1. /\ part' \in [workers: {"off", "on", "closing"}, relay: BOOLEAN, sweep: BOOLEAN, beat: BOOLEAN]
        /\ (part'.relay <=> part.relay) /\ (part'.sweep <=> part.sweep) /\ part'.workers = "closing"
    BY <1>5 DEF RelayStopped, Types
  <2> QED BY <1>5, <2>1 DEF RelayStopped, Stops, StopInv, Types, Serving, Background, Order
<1>6. CASE WorkersClosed
  <2>1. /\ part' \in [workers: {"off", "on", "closing"}, relay: BOOLEAN, sweep: BOOLEAN, beat: BOOLEAN]
        /\ (part'.relay <=> part.relay) /\ (part'.sweep <=> part.sweep) /\ part'.workers = "off"
    BY <1>6 DEF WorkersClosed, Types
  <2> QED BY <1>6, <2>1 DEF WorkersClosed, Stops, StopInv, Types, Serving, Background, Order
<1> QED BY <1>1, <1>2, <1>3, <1>4, <1>5, <1>6 DEF Stopping

\* And what goes on meanwhile: nothing of a part that has stopped begins again.
LEMMA WorkStep ==
  StopInv /\ (RequestComes \/ JobBegins \/ TimerFires \/ WorkEnds \/ BeatWritten \/ DeadlinePasses \/ RunsOut
              \/ UNCHANGED vars) => StopInv'
<1> SUFFICES ASSUME Types, Serving, Background, Order,
                    \/ RequestComes \/ JobBegins \/ TimerFires \/ WorkEnds \/ BeatWritten \/ DeadlinePasses \/ RunsOut
                    \/ UNCHANGED vars
             PROVE StopInv'
  BY DEF StopInv
<1> USE KindAssumption DEF Serves, Works
<1>0. work \in [request: Nat, job: Nat, pass: Nat, sweep: Nat]
  BY DEF Types
<1>1. CASE RequestComes
  <2>1. /\ work' \in [request: Nat, job: Nat, pass: Nat, sweep: Nat]
        /\ work'.job = work.job /\ work'.pass = work.pass /\ work'.sweep = work.sweep
    BY <1>0, <1>1 DEF RequestComes
  <2>2. Serves /\ stopper = "none" /\ main \notin {"config", "connect", "seed", "listen"}
    BY <1>1 DEF RequestComes, Serving
  <2> QED BY <1>1, <2>1, <2>2 DEF RequestComes, StopInv, Types, Serving, Background, Order
<1>2. CASE JobBegins
  <2>1. /\ work' \in [request: Nat, job: Nat, pass: Nat, sweep: Nat]
        /\ work'.request = work.request /\ work'.pass = work.pass /\ work'.sweep = work.sweep
    BY <1>0, <1>2 DEF JobBegins
  <2> QED BY <1>2, <2>1 DEF JobBegins, StopInv, Types, Serving, Background, Order
<1>3. CASE TimerFires
  <2>1. CASE part.relay /\ work' = [work EXCEPT !.pass = 1]
    <3>1. /\ work' \in [request: Nat, job: Nat, pass: Nat, sweep: Nat]
          /\ work'.request = work.request /\ work'.job = work.job /\ work'.sweep = work.sweep
      BY <1>0, <2>1
    <3> QED BY <1>3, <2>1, <3>1 DEF TimerFires, StopInv, Types, Serving, Background, Order
  <2>2. CASE part.sweep /\ work' = [work EXCEPT !.sweep = 1]
    <3>1. /\ work' \in [request: Nat, job: Nat, pass: Nat, sweep: Nat]
          /\ work'.request = work.request /\ work'.job = work.job /\ work'.pass = work.pass
      BY <1>0, <2>2
    <3> QED BY <1>3, <2>2, <3>1 DEF TimerFires, StopInv, Types, Serving, Background, Order
  <2>3. CASE UNCHANGED work
    BY <1>3, <2>3 DEF TimerFires, StopInv, Types, Serving, Background, Order
  <2> QED BY <1>3, <2>1, <2>2, <2>3 DEF TimerFires
<1>4. CASE WorkEnds
  <2>1. /\ work' \in [request: Nat, job: Nat, pass: Nat, sweep: Nat]
        /\ work.request = 0 => work'.request = 0
        /\ work.job = 0 => work'.job = 0
        /\ work.pass = 0 => work'.pass = 0
        /\ work.sweep = 0 => work'.sweep = 0
    BY <1>0, <1>4 DEF WorkEnds
  <2> QED BY <1>4, <2>1 DEF WorkEnds, StopInv, Types, Serving, Background, Order
<1>5. CASE BeatWritten \/ DeadlinePasses \/ RunsOut \/ UNCHANGED vars
  BY <1>5 DEF BeatWritten, DeadlinePasses, RunsOut, vars, StopInv, Types, Serving, Background, Order
<1> QED BY <1>1, <1>2, <1>3, <1>4, <1>5

\* The invariant of the stop holds.
LEMMA StopInvariant == Spec => []StopInv
<1>1. Init => StopInv
  BY KindAssumption DEF Init, StopInv, Types, Serving, Background, Order, Serves, Works
<1>2. StopInv /\ [Next]_vars => StopInv'
  BY StartStep, StopStep, WorkStep DEF Next
<1> QED BY <1>1, <1>2, PTL DEF Spec

\* The database is disconnected on a stop only when nothing uses it any more.
THEOREM NothingIsCut == Spec => []StopCutsNothing
<1>1. StopInv => StopCutsNothing
  BY DEF StopInv, Types, Serving, Order, StopCutsNothing
<1> QED BY <1>1, StopInvariant, PTL

-------------------------------------------------------------------------------
(* The heartbeat.                                                              *)

BeatType == beat \in [doc: BOOLEAN, writing: BOOLEAN, late: BOOLEAN, failed: BOOLEAN]

\* The process beats only once its first beat succeeded, from where on it is up or coming up; a document
\* that is there without that is left of a first beat that failed.  No beat begins once the workers have stopped.
Beating ==
  /\ beat.writing \/ part.beat => main \in {"parts", "up"} /\ Works
  /\ beat.doc => beat.failed \/ (main \in {"parts", "up"} /\ Works)
  /\ stopper \in {"heartbeat", "disconnect", "exit"} => ~part.beat

\* Once the document was removed, a beat that brings it back was on its way at that moment; or it never
\* was removed.
Removed ==
  /\ stopper \in {"disconnect", "exit"} => (beat.writing => beat.late) /\ (beat.doc => beat.late \/ beat.failed)
  /\ HeartbeatGone

BeatInv == BeatType /\ Beating /\ Removed

\* The start keeps the heartbeat as the invariant says.
LEMMA BeatStart == StopInv /\ BeatInv /\ Starting => BeatInv'
<1> SUFFICES ASSUME Types, Background, Order, BeatType, Beating, Removed, Starting PROVE BeatInv'
  BY DEF StopInv, BeatInv
<1> USE KindAssumption DEF Serves, Works, Alive
<1>0. part \in [workers: {"off", "on", "closing"}, relay: BOOLEAN, sweep: BOOLEAN, beat: BOOLEAN]
  BY DEF Types
<1>1. CASE Configure \/ Seed \/ BreakOff
  BY <1>1 DEF Configure, Seed, BreakOff, Goes, Fails, BeatInv, BeatType, Beating, Removed, HeartbeatGone
<1>2. CASE Connect \/ Listen
  <2>1. part'.beat <=> part.beat
    BY <1>0, <1>2 DEF Connect, Listen
  <2>2. UNCHANGED <<beat, stopper>> /\ (beat.doc => beat.failed) /\ ~beat.writing /\ ~part.beat
    BY <1>2 DEF Connect, Listen, BeatType, Beating
  <2> QED BY <2>1, <2>2 DEF BeatInv, BeatType, Beating, Removed, HeartbeatGone
<1>3. CASE FirstBeat
  <2>1. stopper \notin {"heartbeat", "disconnect", "exit"} /\ exit' = "no" /\ Works /\ UNCHANGED stopper
    BY <1>3 DEF FirstBeat, Background, Order, Beating
  <2>2. CASE beat' = [beat EXCEPT !.doc = TRUE] /\ part' = [part EXCEPT !.beat = TRUE] /\ main' = "parts"
    BY <2>1, <2>2 DEF BeatInv, BeatType, Beating, Removed, HeartbeatGone
  <2>3. CASE main' = "broken" /\ beat' \in {beat, Left} /\ UNCHANGED part
    <3>1. main = "beat" /\ exit = "no"
      BY <1>3 DEF FirstBeat
    <3>2. /\ beat' \in [doc: BOOLEAN, writing: BOOLEAN, late: BOOLEAN, failed: BOOLEAN]
          /\ (beat'.writing <=> beat.writing) /\ (beat'.late <=> beat.late)
          /\ beat'.doc => beat'.failed \/ beat.doc
          /\ beat.failed => beat'.failed
      BY <2>3 DEF BeatType, Left
    <3> QED BY <2>1, <2>3, <3>1, <3>2 DEF BeatInv, BeatType, Beating, Removed, HeartbeatGone
  <2> QED BY <1>3, <2>2, <2>3 DEF FirstBeat
<1>4. CASE StartParts
  <2>1. (part'.beat <=> part.beat) /\ UNCHANGED <<beat, stopper, exit>> /\ main = "parts" /\ main' = "up"
    BY <1>0, <1>4 DEF StartParts
  <2> QED BY <2>1 DEF BeatInv, BeatType, Beating, Removed, HeartbeatGone
<1> QED BY <1>1, <1>2, <1>3, <1>4 DEF Starting

\* A stop comes to the removal of the heartbeat if there is one, and an exit of any other kind finds none.
LEMMA BeatStop == StopInv /\ BeatInv /\ (Stopping \/ Signal) => BeatInv'
<1> SUFFICES ASSUME StopInv, Types, Background, Order, BeatType, Beating, Removed, Stopping \/ Signal PROVE BeatInv'
  BY DEF StopInv, BeatInv
<1> USE KindAssumption DEF Serves, Works, Alive
<1>0. part \in [workers: {"off", "on", "closing"}, relay: BOOLEAN, sweep: BOOLEAN, beat: BOOLEAN]
  BY DEF Types
<1>1. CASE Signal
  BY <1>1 DEF Signal, Handled, Armed, BeatInv, BeatType, Beating, Removed, HeartbeatGone
<1>2. CASE ServerClosed \/ Disconnect \/ Exit
  BY <1>2 DEF ServerClosed, Disconnect, Exit, Stops, BeatInv, BeatType, Beating, Removed, HeartbeatGone
<1>3. CASE StartSettled
  <2>1. /\ part'.beat <=> part.beat
        /\ main \in {"up", "broken", "failed"} /\ stopper = "starting" /\ exit' = "no" /\ UNCHANGED <<beat, main>>
        /\ stopper' = (IF part.relay THEN "sweep" ELSE "disconnect")
    BY <1>0, <1>3 DEF StartSettled, Stops
  <2>2. main = "up" /\ Works => stopper' = "sweep"
    BY <2>1 DEF Background
  <2>3. stopper' = "disconnect" => (beat.doc => beat.failed) /\ ~beat.writing /\ ~part.beat
    BY <2>1, <2>2 DEF Beating, BeatType
  <2> QED BY <2>1, <2>3 DEF BeatInv, BeatType, Beating, Removed, HeartbeatGone
<1>4. CASE SweepStopped \/ RelayStopped
  <2>1. part'.beat <=> part.beat
    BY <1>0, <1>4 DEF SweepStopped, RelayStopped
  <2> QED BY <1>4, <2>1 DEF SweepStopped, RelayStopped, Stops, BeatInv, BeatType, Beating, Removed, HeartbeatGone
<1>5. CASE WorkersClosed
  <2>1. ~part'.beat
    BY <1>0, <1>5 DEF WorkersClosed
  <2> QED BY <1>5, <2>1 DEF WorkersClosed, Stops, BeatInv, BeatType, Beating, Removed, HeartbeatGone
<1>6. CASE HeartbeatStopped
  <2>1. PICK left \in {[beat EXCEPT !.doc = FALSE], Left} :
          /\ beat' = [left EXCEPT !.late = beat.writing]
          /\ stopper' = "disconnect" /\ stopper = "heartbeat" /\ exit' = "no" /\ UNCHANGED <<main, part>>
    BY <1>6 DEF HeartbeatStopped, Stops
  <2>2. /\ beat' \in [doc: BOOLEAN, writing: BOOLEAN, late: BOOLEAN, failed: BOOLEAN]
        /\ beat'.doc => beat'.failed
        /\ (beat'.late <=> beat.writing) /\ (beat'.writing <=> beat.writing)
    BY <2>1 DEF BeatType, Left
  <2> QED BY <2>1, <2>2 DEF BeatInv, BeatType, Beating, Removed, HeartbeatGone
<1> QED BY <1>1, <1>2, <1>3, <1>4, <1>5, <1>6 DEF Stopping

\* A beat is sent only while the process beats, and one that arrives late was noted.
LEMMA BeatWork ==
  BeatInv /\ (RequestComes \/ JobBegins \/ TimerFires \/ WorkEnds \/ BeatWritten \/ DeadlinePasses \/ RunsOut
              \/ UNCHANGED vars) => BeatInv'
<1> SUFFICES ASSUME BeatType, Beating, Removed,
                    \/ RequestComes \/ JobBegins \/ TimerFires \/ WorkEnds \/ BeatWritten \/ DeadlinePasses \/ RunsOut
                    \/ UNCHANGED vars
             PROVE BeatInv'
  BY DEF BeatInv
<1> USE DEF Works, Alive
<1>1. CASE UNCHANGED <<beat, main, part, stopper>> /\ exit' \in {exit, "1"}
  BY <1>1 DEF BeatInv, BeatType, Beating, Removed, HeartbeatGone
<1>2. CASE /\ exit = "no" /\ part.beat /\ beat' = [beat EXCEPT !.writing = TRUE]
           /\ UNCHANGED <<main, part, stopper, exit>>
  BY <1>2 DEF BeatInv, BeatType, Beating, Removed, HeartbeatGone
<1>3. CASE BeatWritten
  BY <1>3 DEF BeatWritten, BeatInv, BeatType, Beating, Removed, HeartbeatGone
<1>4. CASE RequestComes \/ JobBegins \/ TimerFires \/ WorkEnds \/ DeadlinePasses \/ RunsOut \/ UNCHANGED vars
  BY <1>1, <1>2, <1>4 DEF RequestComes, JobBegins, TimerFires, WorkEnds, DeadlinePasses, RunsOut, vars
<1> QED BY <1>3, <1>4

\* A process that a signal ends in time leaves no heartbeat behind, save for a beat that was on its way
\* when the document was removed, and for a removal, or a first write, that failed (worker.js:9-10,
\* heartbeat.js:19-24).
THEOREM HeartbeatIsGone == Spec => []HeartbeatGone
<1>1. Init => BeatInv
  BY DEF Init, BeatInv, BeatType, Beating, Removed, HeartbeatGone
<1>2. StopInv /\ BeatInv /\ [Next]_vars => BeatInv'
  BY BeatStart, BeatStop, BeatWork DEF Next
<1>3. BeatInv => HeartbeatGone
  BY DEF BeatInv, Removed
<1> QED BY <1>1, <1>2, <1>3, StopInvariant, PTL DEF Spec

-----------------------------------------------------------------------------
(* PhaseOne.                                                                   *)

\* The script imports what it read without an import, and nobody else imports.
ImportInv ==
  /\ assigned = [resolved |-> assigned.resolved, time |-> assigned.time, entry |-> assigned.entry,
                 assignee |-> assigned.assignee, imports |-> assigned.imports, last |-> assigned.last,
                 wrong |-> assigned.wrong]
  /\ assigned.imports \in {0, 1}
  /\ import.update.import # One!NoImport => assigned.imports = 0

LEMMA ImportKept == One!Spec => []ImportInv
<1>1. One!Init => ImportInv
  BY DEF One!Init, One!Fresh, One!NoPlan, One!Nothing, One!NoImport, ImportInv
<1>2. ImportInv /\ [One!Next]_phaseOne => ImportInv'
  <2> SUFFICES ASSUME ImportInv, [One!Next]_phaseOne PROVE ImportInv'
    OBVIOUS
  <2> USE DEF ImportInv, One!NoImport
  <2>1. CASE One!Program
    BY <2>1 DEF One!Program, One!Resolve, One!Reopen, One!Assign, One!Change
  <2>2. CASE One!Analyze
    BY <2>2 DEF One!Analyze, One!MustImport
  <2>3. CASE One!Apply
    <3>1. PICK o, e, d, t, i, l, w :
            assigned = [resolved |-> o, time |-> t, entry |-> e, assignee |-> d, imports |-> i, last |-> l, wrong |-> w]
      OBVIOUS
    <3> DEFINE n == IF import.update.import = One!NoImport THEN assigned.imports ELSE assigned.imports + 1
    <3>2. /\ assigned' = [resolved |-> assigned'.resolved, time |-> assigned'.time, entry |-> assigned'.entry,
                          assignee |-> assigned'.assignee, imports |-> assigned'.imports, last |-> assigned'.last,
                          wrong |-> assigned'.wrong]
          /\ assigned'.imports = n
      <4>1. PICK x, y, z : assigned' = [assigned EXCEPT !.time = x, !.imports = n, !.last = y, !.wrong = z]
        BY <2>3 DEF One!Apply, One!Updated
      <4> HIDE DEF n
      <4> QED BY <3>1, <4>1
    <3>3. n \in {0, 1} /\ import'.update.import = One!NoImport
      BY <2>3 DEF One!Apply, One!NoPlan, One!Nothing
    <3> HIDE DEF n
    <3> QED BY <3>2, <3>3
  <2>4. CASE One!Crash
    BY <2>4 DEF One!Crash, One!NoPlan, One!Nothing
  <2>5. CASE UNCHANGED phaseOne
    BY <2>5 DEF phaseOne
  <2> QED BY <2>1, <2>2, <2>3, <2>4, <2>5 DEF One!Next
<1> QED BY <1>1, <1>2, PTL DEF One!Spec, One!vars, phaseOne

-----------------------------------------------------------------------------
(* PhaseTwo, of any number of changes and runs.                                *)

\* Versions count the entries written: while the version is the one the script read, so are the entries,
\* and a priority of the staff was theirs then.
PlanInv ==
  /\ report = [category |-> report.category, snapshot |-> report.snapshot, source |-> report.source,
               psource |-> report.psource, typed |-> report.typed, entries |-> report.entries, version |-> report.version]
  /\ ai = [there |-> ai.there, status |-> ai.status, seq |-> ai.seq, mode |-> ai.mode, count |-> ai.count,
           error |-> ai.error]
  /\ ghost = [entries |-> ghost.entries, overruled |-> ghost.overruled]
  /\ report.version \in Nat /\ report.entries \in Nat
  /\ plan.ready => plan.report.version \in Nat /\ plan.report.version <= report.version
  /\ plan.ready /\ plan.report.version = report.version =>
       /\ plan.report.entries = report.entries
       /\ report.psource = "STAFF" => plan.report.psource = "STAFF"

PhaseTwoInv == PlanInv /\ report.entries = ghost.entries /\ ~ghost.overruled

\* What a write of the report and a request leave.
LEMMA ReportWritten ==
  ASSUME PhaseTwoInv, NEW q, NEW c, NEW d, NEW t, NEW e, NEW v, NEW r,
         r = [report EXCEPT !.category = c, !.snapshot = d, !.source = t, !.psource = q, !.entries = e, !.version = v]
  PROVE  /\ r = [category |-> r.category, snapshot |-> r.snapshot, source |-> r.source, psource |-> r.psource,
                 typed |-> r.typed, entries |-> r.entries, version |-> r.version]
         /\ r.entries = e /\ r.version = v
<1>1. PICK c0, d0, t0, p0, y0, e0, v0 : report = [category |-> c0, snapshot |-> d0, source |-> t0, psource |-> p0,
                                                  typed |-> y0, entries |-> e0, version |-> v0]
  BY DEF PhaseTwoInv, PlanInv
<1>2. r = [category |-> r.category, snapshot |-> r.snapshot, source |-> r.source, psource |-> r.psource,
           typed |-> r.typed, entries |-> r.entries, version |-> r.version]
  BY <1>1
<1>3. r.entries = e /\ r.version = v
  BY <1>1
<1> QED BY <1>2, <1>3

LEMMA AiRequested ==
  ASSUME PhaseTwoInv, NEW n, NEW a, a = [Two!Requested EXCEPT !.count = n]
  PROVE  /\ a = [there |-> a.there, status |-> a.status, seq |-> a.seq, mode |-> a.mode, count |-> a.count, error |-> a.error]
         /\ a.status = "PENDING"
<1>1. PICK h, t, q, m, k, x : ai = [there |-> h, status |-> t, seq |-> q, mode |-> m, count |-> k, error |-> x]
  BY DEF PhaseTwoInv, PlanInv
<1> DEFINE i == ai.seq + 1
<1>2. a = [[ai EXCEPT !.there = "yes", !.status = "PENDING", !.seq = i, !.mode = FALSE, !.error = FALSE] EXCEPT !.count = n]
  BY DEF Two!Requested
<1> HIDE DEF i
<1>3. a = [there |-> a.there, status |-> a.status, seq |-> a.seq, mode |-> a.mode, count |-> a.count, error |-> a.error]
  BY <1>1, <1>2
<1>4. a.status = "PENDING"
  BY <1>1, <1>2
<1> QED BY <1>3, <1>4

LEMMA PhaseTwoStep == PhaseTwoInv /\ [Two!Next]_phaseTwo => PhaseTwoInv'
<1> SUFFICES ASSUME PhaseTwoInv, [Two!Next]_phaseTwo PROVE PhaseTwoInv'
  OBVIOUS
<1> USE DEF PhaseTwoInv, PlanInv
<1>1. CASE UNCHANGED <<report, ai, ghost, plan>>
  BY <1>1
<1>2. CASE Two!Edit
  <2>1. ai' = [Two!Requested EXCEPT !.count = @ + 1] /\ UNCHANGED <<ghost, plan>>
        /\ report' = [report EXCEPT !.version = @ + 1]
    BY <1>2 DEF Two!Edit, Two!Change
  <2>2. ai' = [there |-> ai'.there, status |-> ai'.status, seq |-> ai'.seq, mode |-> ai'.mode, count |-> ai'.count,
               error |-> ai'.error]
    BY <2>1, AiRequested
  <2> QED BY <2>1, <2>2
<1>3. ASSUME NEW q, NEW c, NEW d, NEW t, Two!Wrote(1), UNCHANGED <<ai, plan>>,
             report' = [report EXCEPT !.category = c, !.snapshot = d, !.source = t, !.psource = q,
                                      !.entries = report.entries + 1, !.version = report.version + 1]
      PROVE  PhaseTwoInv'
  <2>1. /\ ghost' = [entries |-> ghost'.entries, overruled |-> ghost'.overruled]
        /\ ghost'.entries = ghost.entries + 1 /\ ghost'.overruled = ghost.overruled
    BY <1>3 DEF Two!Wrote
  <2>2. /\ report'.entries = report.entries + 1 /\ report'.version = report.version + 1
        /\ report' = [category |-> report'.category, snapshot |-> report'.snapshot, source |-> report'.source,
                      psource |-> report'.psource, typed |-> report'.typed, entries |-> report'.entries,
                      version |-> report'.version]
    BY <1>3, ReportWritten
  <2> QED BY <1>3, <2>1, <2>2
<1>4. CASE Two!UpdateStatus \/ \E c \in Category : Two!Recategorise(c)
  <2>1. ASSUME NEW q, report' = [report EXCEPT !.psource = q, !.entries = @ + 1, !.version = @ + 1], Two!Wrote(1),
               UNCHANGED <<ai, plan>>
        PROVE  PhaseTwoInv'
    <3>1. report' = [report EXCEPT !.category = report.category, !.snapshot = report.snapshot, !.source = report.source,
                                   !.psource = q, !.entries = report.entries + 1, !.version = report.version + 1]
      BY <2>1
    <3>2. Two!Wrote(1) /\ UNCHANGED <<ai, plan>>
      BY <2>1
    <3> QED BY <1>3, <3>1, <3>2
  <2>2. ASSUME NEW c \in Category, Two!Recategorise(c) PROVE PhaseTwoInv'
    <3>1. report' = [report EXCEPT !.category = c, !.snapshot = c, !.source = "STAFF", !.psource = report.psource,
                                   !.entries = report.entries + 1, !.version = report.version + 1]
          /\ Two!Wrote(1) /\ UNCHANGED <<ai, plan>>
      BY <2>2 DEF Two!Recategorise, Two!Change
    <3> QED BY <1>3, <3>1
  <2> QED BY <1>4, <2>1, <2>2 DEF Two!UpdateStatus, Two!Change
<1>5. ASSUME NEW c \in Category, Two!Classify(c) PROVE PhaseTwoInv'
  BY <1>5 DEF Two!Classify
<1>6. CASE Two!Analyze
  BY <1>6 DEF Two!Analyze
<1>7. CASE Two!Apply
  <2>1. CASE ~Two!Unchanged
    BY <1>7, <2>1 DEF Two!Apply, Two!NoPlan
  <2>2. CASE Two!Unchanged
    BY <1>7, <2>2 DEF Two!Apply, Two!NoPlan, Two!Unchanged, Two!PlannedReport, Two!PlannedAi, Two!OldAi, Two!NoAi
  <2> QED BY <2>1, <2>2
<1>8. CASE Two!Crash
  BY <1>8 DEF Two!Crash, Two!NoPlan
<1>9. CASE Two!MarkReports
  BY <1>9 DEF Two!MarkReports
<1>10. CASE Two!Reclassify \/ Two!Fail \/ UNCHANGED phaseTwo
  BY <1>1, <1>10 DEF Two!Reclassify, Two!Requested, Two!Change, Two!Fail, phaseTwo
<1> QED BY <1>2, <1>4, <1>5, <1>6, <1>7, <1>8, <1>9, <1>10 DEF Two!Next

LEMMA PhaseTwoKept == Two!Spec => []PhaseTwoInv
<1>1. Two!Init => PhaseTwoInv
  <2> SUFFICES ASSUME Two!Init PROVE PhaseTwoInv
    OBVIOUS
  <2>1. ai = [there |-> ai.there, status |-> ai.status, seq |-> ai.seq, mode |-> ai.mode, count |-> ai.count,
              error |-> ai.error]
    <3>1. \E h, e : ai = [there |-> h, status |-> "unset", seq |-> 0, mode |-> FALSE, count |-> 0, error |-> e]
      BY DEF Two!Init, Two!NoAi, Two!NullAi, Two!OldAi
    <3> QED BY <3>1
  <2> QED BY <2>1 DEF Two!Init, PhaseTwoInv, PlanInv, Two!OldReport, Two!NoPlan
<1> QED BY <1>1, PhaseTwoStep, PTL DEF Two!Spec, Two!vars, phaseTwo

\* A request that waits for its job is answered by no step but the job's.
LEMMA JobsAnswer == PhaseTwoInv /\ [Two!Next]_phaseTwo => [Two!AnswersByJob]_phaseTwo
<1> SUFFICES ASSUME PhaseTwoInv, Two!Next, ai.status = "PENDING", job = ai.seq, job' = job, job # 0
             PROVE  ai'.status \notin {"DONE", "FAILED"}
  BY DEF Two!AnswersByJob
<1>1. ai'.status \in {ai.status, "PENDING", "unset"}
  <2>1. CASE Two!Edit \/ Two!Reclassify
    <3>1. \E n : ai' = [Two!Requested EXCEPT !.count = n]
      BY <2>1 DEF Two!Edit, Two!Reclassify, Two!Requested, PhaseTwoInv, PlanInv
    <3> QED BY <3>1, AiRequested
  <2>2. CASE Two!Apply
    BY <2>2 DEF Two!Apply, Two!PlannedAi, Two!OldAi, Two!NoAi, PhaseTwoInv, PlanInv
  <2> QED
    BY <2>1, <2>2 DEF Two!Next, Two!UpdateStatus, Two!Recategorise, Two!Classify, Two!Fail, Two!Analyze, Two!Crash,
       Two!MarkReports, Two!ToMark
<1> QED BY <1>1

-----------------------------------------------------------------------------
(* UniqueIndexes, of any number of values, documents and faults.               *)

\* A run that goes on after replacing an old index has built the unique one.
IndexInv ==
  /\ script = [at |-> script.at, old |-> script.old] /\ faults \in Nat
  /\ script.at = "upgraded" /\ script.old = "plain" => index = "unique"

LEMMA IndexStep == IndexInv /\ [Unique!Next]_indexes => IndexInv' /\ [Unique!PutsBack]_indexes
<1> SUFFICES ASSUME IndexInv, [Unique!Next]_indexes PROVE IndexInv' /\ [Unique!PutsBack]_indexes
  OBVIOUS
<1> USE DEF IndexInv
<1>1. CASE UNCHANGED indexes
  BY <1>1 DEF indexes
<1>2. CASE Unique!Check
  BY <1>2 DEF Unique!Check, Unique!PutsBack
<1>3. CASE Unique!Drop \/ Unique!Build
  BY <1>3 DEF Unique!Drop, Unique!Build, Unique!Go, Unique!PutsBack
<1>4. CASE Unique!Restore
  BY <1>4 DEF Unique!Restore, Unique!PutBack, Unique!Off, Unique!PutsBack
<1>5. CASE Unique!Create
  BY <1>5 DEF Unique!Create, Unique!Off, Unique!PutsBack
<1>6. CASE Unique!Fault
  BY <1>6 DEF Unique!Fault, Unique!Off, Unique!PutsBack
<1>7. ASSUME NEW v \in Value, Unique!Insert(v) \/ Unique!Resolve(v) PROVE IndexInv' /\ [Unique!PutsBack]_indexes
  BY <1>7 DEF Unique!Insert, Unique!Resolve, Unique!PutsBack
<1> QED BY <1>1, <1>2, <1>3, <1>4, <1>5, <1>6, <1>7 DEF Unique!Next, Unique!Script

LEMMA IndexKept == Unique!Spec => IndexTakenOnlyByFault
<1>1. Unique!Init => IndexInv
  BY DEF Unique!Init, Unique!Off, IndexInv
<1> QED BY <1>1, IndexStep, PTL DEF Unique!Spec, Unique!vars, indexes, IndexTakenOnlyByFault

-----------------------------------------------------------------------------
(* Backup, of any number of collections, writes and stops.                     *)

\* What a backup reads of a collection that does not expire grows from one read of it to the next; the
\* database began the dump in between.
Grows(c) ==
  /\ backup.phase = "before" /\ c \notin backup.todo => backup.before[c] <= database[c]
  /\ backup.phase \in {"dump", "after"} => backup.before[c] <= moment[c] /\ moment[c] <= database[c]
  /\ (backup.phase = "dump" /\ c \notin backup.todo) \/ backup.phase = "after" =>
       moment[c] <= backup.archive[c] /\ backup.archive[c] <= database[c]
  /\ backup.phase = "after" /\ c \notin backup.todo => backup.archive[c] <= backup.after[c]

CopyRecord ==
  [phase: {"off", "before", "dump", "after"}, todo: SUBSET Collection, before: [Collection -> Nat],
   archive: [Collection -> Nat], after: [Collection -> Nat], attempt: Nat]

CopyTypes ==
  /\ database \in [Collection -> Nat] /\ moment \in [Collection -> Nat]
  /\ backup \in CopyRecord
  /\ backupBounds = [writes |-> backupBounds.writes, faults |-> backupBounds.faults]
  /\ backupBounds.writes \in Nat /\ \A c \in Collection : database[c] <= backupBounds.writes + 1

CopyInv == CopyTypes /\ (\A c \in Collection : Grows(c)) /\ OneMoment

\* A run that is off, or begins to read.
LEMMA RunBegins ==
  ASSUME NEW n \in Nat, NEW b \in {Copies!Attempt(n), Copies!Idle}
  PROVE  b \in CopyRecord /\ b.phase \in {"off", "before"} /\ (b.phase = "before" => b.todo = Collection)
<1>1. Copies!Blank \in [Collection -> Nat]
  BY DEF Copies!Blank, Copies!Fresh, Copies!Empty
<1>2. CASE b = Copies!Idle
  BY <1>1, <1>2 DEF Copies!Idle, CopyRecord
<1>3. CASE b = Copies!Attempt(n)
  <2>1. b = [phase |-> "before", todo |-> Collection, before |-> Copies!Blank, archive |-> Copies!Blank,
             after |-> Copies!Blank, attempt |-> n]
    BY <1>3 DEF Copies!Attempt, Copies!Idle
  <2> QED BY <1>1, <2>1 DEF CopyRecord
<1> QED BY <1>2, <1>3

LEMMA CopyStep == CopyInv /\ [Copies!Next]_copies => CopyInv'
<1> SUFFICES ASSUME CopyInv, [Copies!Next]_copies PROVE CopyInv'
  OBVIOUS
<1>1. CASE UNCHANGED <<database, backup, kept, moment, backupBounds>>
  BY <1>1 DEF CopyInv, CopyTypes, Grows, OneMoment, Copies!OneMoment
<1>2. ASSUME NEW c \in Collection, Copies!Write(c) PROVE CopyInv'
  <2>1. database' = [database EXCEPT ![c] = backupBounds.writes + 2] /\ backupBounds'.writes = backupBounds.writes + 1
        /\ backupBounds' = [writes |-> backupBounds'.writes, faults |-> backupBounds'.faults]
        /\ UNCHANGED <<backup, kept, moment>>
    BY <1>2 DEF Copies!Write, CopyInv, CopyTypes
  <2>2. CopyTypes' /\ \A d \in Collection : database[d] <= database'[d]
    <3>1. /\ database \in [Collection -> Nat] /\ backupBounds.writes \in Nat
          /\ \A d \in Collection : database[d] <= backupBounds.writes + 1
      BY DEF CopyInv, CopyTypes
    <3>2. database' \in [Collection -> Nat]
          /\ \A d \in Collection : database[d] <= database'[d] /\ database'[d] <= backupBounds'.writes + 1
      BY <2>1, <3>1
    <3> QED BY <2>1, <3>1, <3>2 DEF CopyInv, CopyTypes
  <2>3. ASSUME NEW d \in Collection PROVE Grows(d)'
    <3>1. backup.before[d] \in Nat /\ backup.archive[d] \in Nat /\ moment[d] \in Nat
          /\ database[d] \in Nat /\ database'[d] \in Nat /\ backup.after[d] \in Nat
      BY <2>2 DEF CopyInv, CopyTypes, CopyRecord
    <3> QED BY <2>1, <2>2, <3>1 DEF CopyInv, Grows
  <2> QED BY <2>1, <2>2, <2>3 DEF CopyInv, OneMoment, Copies!OneMoment
<1>3. ASSUME NEW n \in Nat, backup' = Copies!Attempt(n) \/ backup' = Copies!Idle, UNCHANGED <<database, moment>>,
             backupBounds' = [writes |-> backupBounds.writes, faults |-> backupBounds'.faults], OneMoment'
      PROVE  CopyInv'
  <2>1. CopyTypes'
    BY <1>3, RunBegins DEF CopyInv, CopyTypes
  <2>2. backup'.phase \in {"off", "before"} /\ (backup'.phase = "before" => backup'.todo = Collection)
    BY <1>3, RunBegins
  <2> QED BY <1>3, <2>1, <2>2 DEF CopyInv, Grows
<1>4. CASE Copies!BackUp
  BY <1>3, <1>4 DEF Copies!BackUp, CopyInv, CopyTypes, OneMoment, Copies!OneMoment
<1>5. ASSUME NEW c \in Collection, Copies!Read(c) PROVE CopyInv'
  <2> DEFINE left == backup.todo \ {c}
  <2>1. /\ c \in backup.todo /\ UNCHANGED <<database, kept, backupBounds>>
        /\ backup \in CopyRecord /\ database \in [Collection -> Nat] /\ moment \in [Collection -> Nat]
    BY <1>5 DEF Copies!Read, CopyInv, CopyTypes
  <2>2. OneMoment'
    BY <2>1 DEF CopyInv, OneMoment, Copies!OneMoment
  <2>3. CASE backup.phase = "before"
    <3>1. /\ backup' = [backup EXCEPT !.before[c] = database[c], !.todo = IF left = {} THEN Collection ELSE left,
                                      !.phase = IF left = {} THEN "dump" ELSE @]
          /\ moment' = IF left = {} THEN database ELSE moment
      BY <1>5, <2>3 DEF Copies!Read
    <3>2. CopyTypes'
      BY <2>1, <3>1 DEF CopyInv, CopyTypes, CopyRecord
    <3>3. /\ backup'.before = [backup.before EXCEPT ![c] = database[c]]
          /\ backup'.todo = IF left = {} THEN Collection ELSE left
          /\ backup'.phase = IF left = {} THEN "dump" ELSE "before"
      BY <2>1, <2>3, <3>1 DEF CopyRecord
    <3>4. ASSUME NEW d \in Collection PROVE Grows(d)'
      <4>1. Grows(d) /\ database[d] \in Nat /\ backup.before[d] \in Nat
        BY <2>1 DEF CopyInv, CopyRecord
      <4>2. backup'.before[d] = IF d = c THEN database[d] ELSE backup.before[d]
        BY <2>1, <3>3 DEF CopyRecord
      <4> QED BY <2>1, <2>3, <3>1, <3>3, <4>1, <4>2 DEF Grows
    <3> QED BY <2>2, <3>2, <3>4 DEF CopyInv
  <2>4. CASE backup.phase = "dump"
    <3>1. /\ backup' = [backup EXCEPT !.archive[c] = database[c], !.todo = IF left = {} THEN Collection ELSE left,
                                      !.phase = IF left = {} THEN "after" ELSE @]
          /\ moment' = moment
      BY <1>5, <2>4 DEF Copies!Read
    <3>2. CopyTypes'
      BY <2>1, <3>1 DEF CopyInv, CopyTypes, CopyRecord
    <3>3. /\ backup'.archive = [backup.archive EXCEPT ![c] = database[c]] /\ backup'.before = backup.before
          /\ backup'.todo = IF left = {} THEN Collection ELSE left
          /\ backup'.phase = IF left = {} THEN "after" ELSE "dump"
      BY <2>1, <2>4, <3>1 DEF CopyRecord
    <3>4. ASSUME NEW d \in Collection PROVE Grows(d)'
      <4>1. Grows(d) /\ database[d] \in Nat /\ backup.archive[d] \in Nat
        BY <2>1 DEF CopyInv, CopyRecord
      <4>2. backup'.archive[d] = IF d = c THEN database[d] ELSE backup.archive[d]
        BY <2>1, <3>3 DEF CopyRecord
      <4> QED BY <2>1, <2>4, <3>1, <3>3, <4>1, <4>2 DEF Grows
    <3> QED BY <2>2, <3>2, <3>4 DEF CopyInv
  <2>5. CASE backup.phase \notin {"before", "dump"}
    <3>1. backup' = [backup EXCEPT !.after[c] = database[c], !.todo = left] /\ moment' = moment
      BY <1>5, <2>5 DEF Copies!Read
    <3>2. CopyTypes'
      BY <2>1, <3>1 DEF CopyInv, CopyTypes, CopyRecord
    <3>3. /\ backup'.after = [backup.after EXCEPT ![c] = database[c]] /\ backup'.todo = left
          /\ backup'.before = backup.before /\ backup'.archive = backup.archive /\ backup'.phase = backup.phase
      BY <2>1, <3>1 DEF CopyRecord
    <3>4. ASSUME NEW d \in Collection PROVE Grows(d)'
      <4>1. backup'.after[d] = IF d = c THEN database[d] ELSE backup.after[d]
        BY <2>1, <3>3 DEF CopyRecord
      <4> QED BY <2>1, <2>5, <3>1, <3>3, <4>1 DEF CopyInv, Grows
    <3> QED BY <2>2, <3>2, <3>4 DEF CopyInv
  <2> QED BY <2>3, <2>4, <2>5
<1>6. CASE Copies!Decide
  <2>1. OneMoment'
    <3>1. CASE Copies!ChangedCollections # {}
      BY <1>6, <3>1 DEF Copies!Decide, CopyInv, OneMoment, Copies!OneMoment
    <3>2. CASE Copies!ChangedCollections = {}
      <4>1. ASSUME NEW c \in Copies!Compared PROVE backup.archive[c] = moment[c]
        <5>1. c \in Collection /\ backup.before[c] = backup.after[c]
          BY <3>2 DEF Copies!ChangedCollections, Copies!Compared
        <5>2. /\ backup.before[c] <= moment[c] /\ moment[c] <= backup.archive[c]
              /\ backup.archive[c] <= backup.after[c]
          BY <1>6, <5>1 DEF Copies!Decide, CopyInv, Grows
        <5>3. /\ backup.before[c] \in Nat /\ moment[c] \in Nat /\ backup.archive[c] \in Nat /\ backup.after[c] \in Nat
          BY <5>1 DEF CopyInv, CopyTypes, CopyRecord
        <5> QED BY <5>1, <5>2, <5>3
      <4> QED BY <1>6, <3>2, <4>1 DEF Copies!Decide, OneMoment, Copies!OneMoment
    <3> QED BY <3>1, <3>2
  <2>2. backup.attempt + 1 \in Nat /\ 0 \in Nat /\ UNCHANGED <<database, moment, backupBounds>>
        /\ backupBounds = [writes |-> backupBounds.writes, faults |-> backupBounds.faults]
    BY <1>6 DEF Copies!Decide, CopyInv, CopyTypes, CopyRecord
  <2>3. backup' = Copies!Idle \/ backup' = Copies!Attempt(backup.attempt + 1)
    BY <1>6 DEF Copies!Decide
  <2> QED BY <1>3, <2>1, <2>2, <2>3
<1>7. CASE Copies!Fault
  <2>1. CASE backup' = Copies!Idle
    BY <1>3, <1>7, <2>1 DEF Copies!Fault, CopyInv, CopyTypes, OneMoment, Copies!OneMoment
  <2>2. CASE UNCHANGED backup
    BY <1>7, <2>2 DEF Copies!Fault, CopyInv, CopyTypes, Grows, OneMoment, Copies!OneMoment
  <2> QED BY <1>7, <2>1, <2>2 DEF Copies!Fault
<1> QED
  BY <1>1, <1>2, <1>4, <1>5, <1>6, <1>7
  DEF Copies!Next, Copies!BackupSteps, Copies!RestoreSteps, Copies!Restore, Copies!RestoreOne, Copies!DropAndCompare,
      Copies!Expire, copies

LEMMA CopyKept == Copies!Spec => []CopyInv
<1>1. Copies!Init => CopyInv
  <2> SUFFICES ASSUME Copies!Init PROVE CopyInv
    OBVIOUS
  <2>1. CopyTypes
    BY RunBegins DEF Copies!Init, CopyTypes, Copies!Fresh, Copies!Blank, Copies!Empty
  <2>2. backup.phase = "off" /\ ~kept.there
    BY DEF Copies!Init, Copies!Idle, Copies!NoBackup
  <2> QED BY <2>1, <2>2 DEF CopyInv, Grows, OneMoment, Copies!OneMoment
<1> QED BY <1>1, CopyStep, PTL DEF Copies!Spec, Copies!vars, copies

-----------------------------------------------------------------------------
(* The four scripts.                                                           *)

\* Each script beside its program, as they run by themselves.
ScriptsSpec == One!Spec /\ Two!Spec /\ Unique!Spec /\ Copies!Spec

\* Whatever the program does beside them, and however often they are stopped and run again, the scripts import
\* an assignment once, lose no entry of a timeline and no priority of the staff, answer no classification under
\* way, take no index away and keep only backups of one moment (migratePhase1.js:64, migratePhase2.js:45-60,
\* migratePhase4c.js:16, indexes.js:15, backup.js:12-15).
THEOREM ScriptsAreSparing == ScriptsSpec => ScriptsSpare
<1>1. ImportInv => ImportedOnce
  BY DEF ImportInv, ImportedOnce, One!ImportedOnce
<1>2. PhaseTwoInv => TimelineKept /\ StaffPriorityKept
  BY DEF PhaseTwoInv, TimelineKept, Two!TimelineKept, StaffPriorityKept, Two!StaffPriorityKept
<1>3. CopyInv => OneMoment
  BY DEF CopyInv
<1>4. Two!Spec => OnlyJobsAnswer
  BY JobsAnswer, PhaseTwoKept, PTL DEF Two!Spec, Two!vars, phaseTwo, OnlyJobsAnswer
<1> QED BY <1>1, <1>2, <1>3, <1>4, ImportKept, PhaseTwoKept, IndexKept, CopyKept, PTL DEF ScriptsSpec, ScriptsSpare
==============================================================================
