----------------------------- MODULE ClientProofs -----------------------------
(* Proofs about ReportUpload and the pages of the reference client, for any    *)
(* number of photos, jobs, accounts, filters, texts and requests under way.    *)
(*                                                                             *)
(* Upload: a request is passed on once, nothing is written into a directory    *)
(* that is being removed, and photos stay at the provider with their report    *)
(* only, whatever order the events of the request, the parser, the file        *)
(* streams and the response come in.  Pages: what is listed, sent and kept     *)
(* fits what is on screen, in whatever order the answers come.                 *)
EXTENDS MCClient, Sequences, FiniteSetTheorems, WellFoundedInduction, TLAPS

Types == parser \in Parser /\ dir \in Dir /\ write \in [Photo -> Write]

\* Before the parser is there nothing has happened, or the failure to make it was passed on.
NotOpen ==
  ~parser.open =>
    /\ ~parser.failed /\ ~parser.parserFinished /\ parser.owed = 0 /\ parser.next <= 1
    /\ \A p \in Photo : write[p] = "none"
    /\ dir.watched = "no" /\ dir.stage \in {"none", "removed"}
    /\ parser.next = 0 => dir.stage = "none"

\* A failure is handled as it is met, and owed or passed on once; until then nothing is handed on.
Failures ==
  /\ parser.failed <=> parser.failureHandled
  /\ parser.failed => dir.watched = "no" /\ parser.owed + parser.next <= 1
  /\ parser.open /\ ~parser.failed =>
       parser.owed = 0 /\ parser.next = (IF dir.watched = "no" THEN 0 ELSE 1)

\* What is handed on has been read to its end, and every write has settled.
HandedOn ==
  /\ parser.parserFinished => client \in {"sent", "closed"}
  /\ dir.watched # "no" => parser.open /\ parser.parserFinished /\ Settled

\* The directory goes only after a failure or a hand-over, and no write is left open.
Removal ==
  parser.open /\ dir.stage \in {"removing", "emptied", "removed", "left"} =>
    Settled /\ (parser.failed \/ dir.watched # "no")

UploadInv == Types /\ NotOpen /\ Failures /\ HandedOn /\ Removal

\* A step that leaves the parser and the writes as they are, and the stage and the watch of the directory.
OtherSteps ==
  /\ UNCHANGED <<parser, write>>
  /\ dir' \in Dir /\ dir'.stage = dir.stage /\ dir'.watched = dir.watched
  /\ client' = client \/ client' \in {"sent", "closed"} \/ (client' = "aborted" /\ ~parser.parserFinished)

\* What the handler does leaves the parser, the writes and the stage of the directory as they are.
LEMMA HandlerSteps ==
  ASSUME Types,
         \/ Enter \/ Inspected \/ InspectFails \/ UploadedAll \/ Insert \/ OutOfCodes \/ Retract \/ Finally
         \/ SendAll
         \/ \E p \in Photo : Decode(p) \/ Sanitize(p) \/ Upload(p) \/ UploadFails(p)
  PROVE  OtherSteps
<1>0. dir \in Dir
  BY DEF Types
<1>1. ASSUME NEW p \in Photo, Sanitize(p) PROVE OtherSteps
  <2>1. dir' = [dir EXCEPT !.files = dir.files \cup {<<p, "clean">>}]
    BY <1>1 DEF Sanitize
  <2>2. dir.files \cup {<<p, "clean">>} \in SUBSET (Photo \X {"raw", "clean"})
    BY <1>0 DEF Dir
  <2>3. dir' \in Dir /\ dir'.stage = dir.stage /\ dir'.watched = dir.watched
    BY <1>0, <2>1, <2>2 DEF Dir
  <2> QED BY <1>1, <2>3 DEF Sanitize, OtherSteps
<1>2. CASE InspectFails
  <2>1. dir' = [dir EXCEPT !.files = {f \in dir.files : f[2] = "raw"}]
    BY <1>2 DEF InspectFails
  <2>2. {f \in dir.files : f[2] = "raw"} \in SUBSET (Photo \X {"raw", "clean"})
    BY <1>0 DEF Dir
  <2> QED BY <1>0, <1>2, <2>1, <2>2 DEF InspectFails, OtherSteps, Dir
<1>3. CASE Finally
  BY <1>0, <1>3 DEF Finally, OtherSteps, Dir
<1>4. CASE Enter \/ Inspected \/ UploadedAll \/ Insert \/ OutOfCodes \/ Retract \/ SendAll
           \/ \E p \in Photo : Decode(p) \/ Upload(p) \/ UploadFails(p)
  BY <1>0, <1>4 DEF Enter, Inspected, UploadedAll, Insert, OutOfCodes, Retract, SendAll, Decode, Upload, UploadFails,
                    OtherSteps
<1> QED BY <1>1, <1>2, <1>3, <1>4

\* finishFailure owes the error once when it was not handled yet.
LEMMA FinishStep ==
  ASSUME NEW q \in Parser, q.failed, ~q.failureHandled, q.owed = 0, q.next = 0
  PROVE  /\ finishFailure(q) \in Parser
         /\ finishFailure(q).failed /\ finishFailure(q).failureHandled
         /\ (finishFailure(q).open <=> q.open) /\ (finishFailure(q).parserFinished <=> q.parserFinished)
         /\ finishFailure(q).owed = 1 /\ finishFailure(q).next = 0
<1> DEFINE r == [q EXCEPT !.failureHandled = TRUE, !.owed = 1]
<1>1. finishFailure(q) = r
  BY DEF finishFailure
<1>2. r \in Parser
  <2>1. TRUE \in BOOLEAN /\ 1 \in 0..2
    OBVIOUS
  <2> QED BY <2>1, Zenon DEF Parser
<1>3. r.failed /\ r.failureHandled /\ (r.open <=> q.open) /\ (r.parserFinished <=> q.parserFinished)
  BY DEF Parser
<1>4. r.owed = 1 /\ r.next = 0
  BY DEF Parser
<1> HIDE DEF r
<1> QED BY <1>1, <1>2, <1>3, <1>4

\* A failure met for the first time is noted, and owed once.
LEMMA AbortStep ==
  ASSUME Types, Failures, parser.open, dir.watched = "no"
  PROVE  /\ abort(parser) \in Parser
         /\ abort(parser).failed /\ abort(parser).failureHandled /\ abort(parser).open
         /\ abort(parser).owed + abort(parser).next <= 1
         /\ abort(parser).parserFinished <=> parser.parserFinished
<1>1. parser \in Parser
  BY DEF Types
<1>2. CASE parser.failed
  BY <1>1, <1>2 DEF abort, Failures, Parser
<1>3. CASE ~parser.failed
  <2>1. ~parser.failureHandled /\ parser.owed = 0 /\ parser.next = 0
    BY <1>1, <1>3 DEF Failures, Parser
  <2> DEFINE q == [parser EXCEPT !.failed = TRUE]
  <2>2. abort(parser) = finishFailure(q)
    BY <1>3 DEF abort
  <2>3. /\ q \in Parser /\ q.failed /\ ~q.failureHandled /\ q.owed = 0 /\ q.next = 0
        /\ (q.open <=> parser.open) /\ (q.parserFinished <=> parser.parserFinished)
    BY <1>1, <2>1 DEF Parser
  <2> HIDE DEF q
  <2> QED BY <2>2, <2>3, FinishStep
<1> QED BY <1>2, <1>3

\* Every step keeps the invariant.
LEMMA UploadStep == UploadInv /\ [Next]_vars => UploadInv'
<1> SUFFICES ASSUME Types, NotOpen, Failures, HandedOn, Removal, [Next]_vars PROVE UploadInv'
  BY DEF UploadInv
<1>0. parser \in Parser /\ dir \in Dir /\ write \in [Photo -> Write]
  BY DEF Types
<1>1. CASE OtherSteps
  BY <1>0, <1>1 DEF OtherSteps, UploadInv, Types, NotOpen, Failures, HandedOn, Removal, Settled
<1>2. CASE Start
  <2>1. CASE parser' = [parser EXCEPT !.open = TRUE] /\ dir' = [dir EXCEPT !.stage = "made"]
    <3>1. parser' \in Parser /\ dir' \in Dir /\ dir'.stage = "made" /\ dir'.watched = "no"
      BY <1>0, <1>2, <2>1 DEF Parser, Dir, NotOpen, Start
    <3>2. /\ parser'.open /\ ~parser'.failed /\ ~parser'.failureHandled /\ ~parser'.parserFinished
          /\ parser'.owed = 0 /\ parser'.next = 0
      BY <1>0, <1>2, <2>1 DEF Parser, NotOpen, Failures, Start
    <3> QED BY <1>0, <1>2, <3>1, <3>2 DEF Start, UploadInv, Types, NotOpen, Failures, HandedOn, Removal, Settled
  <2>2. CASE parser' = [parser EXCEPT !.next = 1] /\ dir' \in {dir, [dir EXCEPT !.stage = "removed"]}
    <3>1. parser' \in Parser /\ dir' \in Dir /\ dir'.stage \in {"none", "removed"} /\ dir'.watched = "no"
      BY <1>0, <1>2, <2>2 DEF Parser, Dir, NotOpen, Start
    <3>2. /\ ~parser'.open /\ ~parser'.failed /\ ~parser'.failureHandled /\ ~parser'.parserFinished
          /\ parser'.owed = 0 /\ parser'.next = 1
      BY <1>0, <1>2, <2>2 DEF Parser, NotOpen, Failures, Start
    <3> QED BY <1>0, <1>2, <3>1, <3>2 DEF Start, UploadInv, Types, NotOpen, Failures, HandedOn, Removal, Settled
  <2> QED BY <1>2, <2>1, <2>2 DEF Start
<1>3. ASSUME NEW p \in Photo, File(p) PROVE UploadInv'
  <2>1. dir' = [dir EXCEPT !.files = dir.files \cup {<<p, "raw">>}]
    BY <1>3 DEF File
  <2>2. dir' \in Dir /\ dir'.stage = dir.stage /\ dir'.watched = dir.watched
    BY <1>0, <2>1 DEF Dir
  <2>3. dir.watched = "no" /\ dir.stage \notin {"removing", "emptied", "removed", "left"}
    BY <1>3 DEF File, HandedOn, Removal
  <2> QED BY <1>0, <1>3, <2>2, <2>3 DEF File, Write, UploadInv, Types, NotOpen, Failures, HandedOn, Removal
<1>4. ASSUME NEW p \in Photo, WriteDone(p) PROVE UploadInv'
  BY <1>0, <1>4 DEF WriteDone, Write, UploadInv, Types, NotOpen, Failures, HandedOn, Removal, Settled
<1>5. ASSUME NEW p \in Photo, WriteFails(p) PROVE UploadInv'
  <2>1. parser.open /\ dir.watched = "no" /\ dir.stage \notin {"removing", "emptied", "removed", "left"}
    BY <1>5 DEF WriteFails, NotOpen, HandedOn, Removal, Settled
  <2> HIDE DEF abort
  <2> QED BY <1>0, <1>5, <2>1, AbortStep
          DEF WriteFails, Write, UploadInv, Types, NotOpen, Failures, HandedOn, Removal, Settled
<1>6. CASE LimitOrError
  <2>1. parser.open /\ dir.watched = "no" /\ (dir.stage \notin {"removing", "emptied", "removed", "left"})
    BY <1>6 DEF LimitOrError, HandedOn, Removal
  <2> QED BY <1>0, <1>6, <2>1, AbortStep
          DEF LimitOrError, UploadInv, Types, NotOpen, Failures, HandedOn, Removal, Settled
<1>7. CASE ParserFinish
  <2>1. dir.watched = "no"
    BY <1>7 DEF ParserFinish, HandedOn
  <2>2. parser' = [parser EXCEPT !.parserFinished = TRUE]
    BY <1>0, <1>7 DEF ParserFinish, finishFailure, Failures, Parser
  <2>3. parser' \in Parser /\ parser'.parserFinished /\ (parser'.open <=> parser.open) /\ (parser'.failed <=> parser.failed)
        /\ (parser'.failureHandled <=> parser.failureHandled) /\ parser'.owed = parser.owed /\ parser'.next = parser.next
    BY <1>0, <2>2 DEF Parser
  <2> QED BY <1>0, <1>7, <2>1, <2>3
          DEF ParserFinish, UploadInv, Types, NotOpen, Failures, HandedOn, Removal, Settled
<1>8. CASE ClientAborts
  <2>1. ~parser.parserFinished /\ parser.open /\ dir.watched = "no"
    BY <1>8 DEF ClientAborts, HandedOn
  <2>2. CASE parser.failed
    <3>1. parser' = [parser EXCEPT !.failed = TRUE, !.disconnected = TRUE]
      BY <1>0, <1>8, <2>2 DEF ClientAborts, finishFailure, Failures, Parser
    <3>2. /\ parser' \in Parser /\ parser'.open /\ parser'.failed /\ parser'.failureHandled /\ ~parser'.parserFinished
          /\ parser'.owed = parser.owed /\ parser'.next = parser.next
      BY <1>0, <2>1, <2>2, <3>1 DEF Parser, Failures
    <3> QED BY <1>0, <1>8, <2>1, <2>2, <3>2
            DEF ClientAborts, UploadInv, Types, NotOpen, Failures, HandedOn, Removal, Settled
  <2>3. CASE ~parser.failed
    <3>1. ~parser.failureHandled /\ parser.owed = 0 /\ parser.next = 0
      BY <1>0, <2>1, <2>3 DEF Failures, Parser
    <3> DEFINE q == [parser EXCEPT !.failed = TRUE, !.disconnected = TRUE]
    <3>2. q \in Parser /\ q.failed /\ ~q.failureHandled /\ q.owed = 0 /\ q.next = 0 /\ q.open /\ ~q.parserFinished
      BY <1>0, <2>1, <3>1 DEF Parser
    <3>3. parser' = finishFailure(q)
      BY <1>8 DEF ClientAborts
    <3> HIDE DEF q
    <3>4. /\ parser' \in Parser /\ parser'.open /\ parser'.failed /\ parser'.failureHandled /\ ~parser'.parserFinished
          /\ parser'.owed = 1 /\ parser'.next = 0
      BY <3>2, <3>3, FinishStep
    <3> QED BY <1>0, <1>8, <2>1, <2>3, <3>4
            DEF ClientAborts, UploadInv, Types, NotOpen, Failures, HandedOn, Removal, Settled
  <2> QED BY <2>2, <2>3
<1>9. CASE ClientCloses \/ CleanFailure \/ RemoveFiles \/ RemoveDir \/ Finish
  <2>1. /\ UNCHANGED <<parser, write>>
        /\ client' = client \/ client' = "closed"
        /\ dir' \in Dir /\ dir'.watched = dir.watched
        /\ dir'.stage # dir.stage => dir.stage # "none" /\ dir.stage # "removed"
        /\ \/ dir'.stage = dir.stage \/ dir.stage \in {"removing", "emptied"}
           \/ parser.owed > 0 /\ Settled
           \/ dir.watched # "no"
    BY <1>0, <1>9 DEF ClientCloses, CleanFailure, MayClean, RemoveFiles, RemoveDir, Finish, OnClose, Cleanup, Dir
  <2>2. parser.owed > 0 => parser.failed
    BY <1>0 DEF NotOpen, Failures, Parser
  <2> QED BY <1>0, <2>1, <2>2 DEF UploadInv, Types, NotOpen, Failures, HandedOn, Removal, Settled
<1>10. CASE PassError
  <2>1. parser.failed /\ parser.open /\ parser.owed = 1 /\ parser.next = 0
    BY <1>0, <1>10 DEF PassError, NotOpen, Failures, Parser
  <2>2. /\ parser' \in Parser /\ parser'.open /\ parser'.failed /\ (parser'.failureHandled <=> parser.failureHandled)
        /\ (parser'.parserFinished <=> parser.parserFinished) /\ parser'.owed = 0 /\ parser'.next <= 1
    <3> DEFINE n == IF parser.disconnected THEN 0 ELSE 1
    <3>1. parser' = [parser EXCEPT !.owed = 0, !.next = n]
      BY <1>10, <2>1 DEF PassError
    <3>2. n \in 0..1 /\ n \in 0..2 /\ 0 \in 0..2
      OBVIOUS
    <3> HIDE DEF n
    <3>3. parser' \in Parser
      BY <1>0, <3>1, <3>2, Zenon DEF Parser
    <3>4. parser'.owed = 0 /\ parser'.next = n
      BY <1>0, <3>1 DEF Parser
    <3>5. /\ parser'.open /\ parser'.failed /\ (parser'.failureHandled <=> parser.failureHandled)
          /\ (parser'.parserFinished <=> parser.parserFinished)
      BY <1>0, <2>1, <3>1 DEF Parser
    <3> QED BY <3>2, <3>3, <3>4, <3>5
  <2> QED BY <1>0, <1>10, <2>1, <2>2
          DEF PassError, Parser, UploadInv, Types, NotOpen, Failures, HandedOn, Removal, Settled
<1>11. CASE HandOn
  <2>1. parser.open /\ ~parser.failed /\ parser.owed = 0 /\ parser.next = 0
    BY <1>0, <1>11 DEF HandOn, NotOpen, Failures
  <2>2. /\ parser' \in Parser /\ parser'.open /\ ~parser'.failed /\ ~parser'.failureHandled
        /\ parser'.parserFinished /\ parser'.owed = 0 /\ parser'.next = 1
    BY <1>0, <1>11, <2>1 DEF HandOn, Parser, Failures
  <2>3. dir' \in Dir /\ dir'.watched # "no" /\ dir'.stage = dir.stage
    BY <1>0, <1>11 DEF HandOn, Dir
  <2> QED BY <1>0, <1>11, <2>1, <2>2, <2>3
          DEF HandOn, UploadInv, Types, NotOpen, Failures, HandedOn, Removal, Settled
<1>12. CASE UNCHANGED vars
  BY <1>0, <1>12 DEF vars, UploadInv, Types, NotOpen, Failures, HandedOn, Removal, Settled
<1> QED BY <1>1, <1>2, <1>3, <1>4, <1>5, <1>6, <1>7, <1>8, <1>9, <1>10, <1>11, <1>12, HandlerSteps DEF Next, Progress

\* The invariant holds.
LEMMA UploadInvariant == Spec => []UploadInv
<1>1. Init => UploadInv
  BY DEF Init, UploadInv, Types, Parser, Dir, Write, NotOpen, Failures, HandedOn, Removal, Settled
<1> QED BY <1>1, UploadStep, PTL DEF Spec

\* A request is handed on, or its error is, once at most.
THEOREM PassedOnOnce == Spec => []NextOnce
<1>1. UploadInv => NextOnce
  BY DEF UploadInv, Types, NotOpen, Failures, Parser, NextOnce
<1> QED BY <1>1, UploadInvariant, PTL

\* The directory is never being removed under a stream that still writes to it.
THEOREM NothingWritesIntoRemoved == Spec => []NoWriteIntoRemoved
<1>1. UploadInv => NoWriteIntoRemoved
  BY DEF UploadInv, Types, NotOpen, Removal, Settled, Parser, NoWriteIntoRemoved
<1> QED BY <1>1, UploadInvariant, PTL

\* One hand-over of a request, and no file under the removal of its directory, for any number of photos
\* and any order of events (multipartUpload.js:65-98).
THEOREM UploadIsOrderly == Spec => []UploadOrderly
<1>1. NextOnce /\ NoWriteIntoRemoved => UploadOrderly
  BY DEF UploadOrderly
<1> QED
  BY <1>1, PassedOnOnce, NothingWritesIntoRemoved, PTL

-------------------------------------------------------------------------------
(* The photos at the provider.                                                 *)

HandlerType ==
  /\ handler \in [pc: {"none", "handed", "inspect", "upload", "insert", "retract", "finally", "answered"},
                  left: SUBSET Photo, decoded: SUBSET Photo, good: SUBSET Photo, tries: 0..MaxAttempts,
                  filed: BOOLEAN]
  /\ cloud \in [Photo -> Cloud]

\* The handler runs once, after the hand-over.
RunsOnce == handler.pc # "none" => dir.watched # "no"

\* What is at the provider at each point of the handler: nothing before the upload, then every photo that
\* is uploaded, in whatever order; a report is filed with all of them.
Stored ==
  /\ handler.pc \notin {"finally", "answered"} => ~handler.filed
  /\ handler.pc \in {"none", "handed", "inspect"} => \A p \in Photo : cloud[p] = "no"
  /\ handler.pc = "upload" =>
       /\ handler.left \subseteq handler.good
       /\ \A p \in Photo : cloud[p] = IF p \in handler.good \ handler.left THEN "stored" ELSE "no"
  /\ handler.pc = "insert" => \A p \in Photo : cloud[p] = IF p \in handler.good THEN "stored" ELSE "no"
  /\ PhotosBelong

PhotoInv == HandlerType /\ RunsOnce /\ Stored

\* Only the hand-over begins to watch the end of the response.
LEMMA WatchedStays ==
  ASSUME Types, [Next]_vars
  PROVE  HandOn \/ dir'.watched = dir.watched
<1>0. dir \in Dir
  BY DEF Types
<1>1. CASE Start \/ \E p \in Photo : File(p) \/ Sanitize(p)
  BY <1>0, <1>1 DEF Start, File, Sanitize, Dir
<1>2. CASE ClientCloses \/ CleanFailure \/ RemoveFiles \/ RemoveDir \/ InspectFails \/ Finally \/ Finish
  BY <1>0, <1>2 DEF ClientCloses, OnClose, Cleanup, CleanFailure, RemoveFiles, RemoveDir, InspectFails, Finally,
                    Finish, Dir
<1>3. CASE \/ SendAll \/ ClientAborts \/ LimitOrError \/ ParserFinish \/ PassError \/ Enter \/ Inspected
           \/ UploadedAll \/ Insert \/ OutOfCodes \/ Retract \/ UNCHANGED vars
           \/ \E p \in Photo : WriteDone(p) \/ WriteFails(p) \/ Decode(p) \/ Upload(p) \/ UploadFails(p)
  BY <1>3 DEF SendAll, ClientAborts, LimitOrError, ParserFinish, PassError, Enter, Inspected, UploadedAll, Insert,
              OutOfCodes, Retract, vars, WriteDone, WriteFails, Decode, Upload, UploadFails
<1> QED BY <1>1, <1>2, <1>3 DEF Next, Progress

\* Every step keeps the photos at the provider in line with the handler.
LEMMA PhotoStep == Types /\ PhotoInv /\ [Next]_vars => PhotoInv'
<1> SUFFICES ASSUME Types, HandlerType, RunsOnce, Stored, [Next]_vars PROVE PhotoInv'
  BY DEF PhotoInv
<1>0. /\ dir \in Dir /\ cloud \in [Photo -> Cloud]
      /\ handler \in [pc: {"none", "handed", "inspect", "upload", "insert", "retract", "finally", "answered"},
                      left: SUBSET Photo, decoded: SUBSET Photo, good: SUBSET Photo, tries: 0..MaxAttempts,
                      filed: BOOLEAN]
  BY DEF Types, HandlerType
<1>1. CASE UNCHANGED <<handler, cloud>>
  <2>1. dir'.watched = dir.watched
    BY <1>0, <1>1, WatchedStays DEF HandOn, RunsOnce, Dir
  <2> QED BY <1>1, <2>1 DEF PhotoInv, HandlerType, RunsOnce, Stored, PhotosBelong
<1>2. CASE HandOn
  <2>1. handler.pc = "none" /\ dir'.watched # "no" /\ UNCHANGED cloud
    BY <1>0, <1>2 DEF HandOn, RunsOnce, Dir
  <2>2. /\ handler' = [handler EXCEPT !.pc = "handed"]
    BY <1>2 DEF HandOn
  <2> QED BY <1>0, <2>1, <2>2 DEF PhotoInv, HandlerType, RunsOnce, Stored, PhotosBelong
<1>3. CASE ~HandOn
  <2>0. dir'.watched = dir.watched
    BY <1>3, WatchedStays
  <2>1. CASE Enter
    <3>1. Uploaded \subseteq Photo
      BY DEF Uploaded
    <3>2. /\ handler.pc = "handed" /\ UNCHANGED cloud
          /\ \/ handler' = [handler EXCEPT !.pc = "inspect", !.left = Uploaded]
             \/ handler' = [handler EXCEPT !.pc = "finally"] \/ handler' = [handler EXCEPT !.pc = "answered"]
      BY <2>1 DEF Enter, Go
    <3>3. HandlerType' /\ handler'.pc \in {"inspect", "finally", "answered"} /\ ~handler'.filed
      BY <1>0, <3>1, <3>2 DEF HandlerType, Stored
    <3> QED BY <2>0, <3>2, <3>3 DEF PhotoInv, RunsOnce, Stored, PhotosBelong
  <2>2. ASSUME NEW p \in Photo, Decode(p) \/ Sanitize(p) PROVE PhotoInv'
    <3>1. handler.pc = "inspect" /\ ~handler.filed /\ UNCHANGED cloud
      BY <2>2 DEF Decode, Sanitize, Stored
    <3>2. handler.left \ {p} \in SUBSET Photo /\ {p} \in SUBSET Photo /\ handler.good \cup {p} \in SUBSET Photo
          /\ {} \in SUBSET Photo
      BY <1>0
    <3>3. CASE Decode(p)
      <4>1. handler' = [handler EXCEPT !.left = handler.left \ {p}, !.decoded = {p}]
        BY <3>3 DEF Decode
      <4>2. handler'.pc = "inspect" /\ ~handler'.filed
        BY <1>0, <3>1, <4>1
      <4>3. HandlerType'
        BY <1>0, <3>1, <3>2, <4>1 DEF HandlerType
      <4> QED BY <2>0, <3>1, <4>2, <4>3 DEF PhotoInv, RunsOnce, Stored, PhotosBelong
    <3>4. CASE Sanitize(p)
      <4>1. handler' = [handler EXCEPT !.decoded = {}, !.good = handler.good \cup {p}]
        BY <3>4 DEF Sanitize
      <4>2. handler'.pc = "inspect" /\ ~handler'.filed
        BY <1>0, <3>1, <4>1
      <4>3. HandlerType'
        BY <1>0, <3>1, <3>2, <4>1 DEF HandlerType
      <4> QED BY <2>0, <3>1, <4>2, <4>3 DEF PhotoInv, RunsOnce, Stored, PhotosBelong
    <3> QED BY <2>2, <3>3, <3>4
  <2>3. CASE InspectFails
    <3>1. handler.pc = "inspect" /\ handler' = [handler EXCEPT !.pc = "finally", !.decoded = {}, !.good = {}]
          /\ UNCHANGED cloud
      BY <2>3 DEF InspectFails
    <3>2. HandlerType' /\ handler'.pc = "finally" /\ ~handler'.filed
      BY <1>0, <3>1 DEF HandlerType, Stored
    <3> QED BY <2>0, <3>1, <3>2 DEF PhotoInv, RunsOnce, Stored, PhotosBelong
  <2>4. CASE Inspected
    <3>1. handler.pc = "inspect" /\ handler' = [handler EXCEPT !.pc = "upload", !.left = handler.good]
          /\ UNCHANGED cloud
      BY <2>4 DEF Inspected
    <3>2. HandlerType' /\ handler'.pc = "upload" /\ ~handler'.filed /\ handler'.left = handler'.good
      BY <1>0, <3>1 DEF HandlerType, Stored
    <3> QED BY <2>0, <3>1, <3>2 DEF PhotoInv, RunsOnce, Stored, PhotosBelong
  <2>5. ASSUME NEW p \in Photo, Upload(p) PROVE PhotoInv'
    <3>1. /\ handler.pc = "upload" /\ p \in handler.left
          /\ cloud' = [cloud EXCEPT ![p] = "stored"] /\ handler' = [handler EXCEPT !.left = handler.left \ {p}]
      BY <2>5 DEF Upload
    <3>2. /\ HandlerType' /\ handler'.pc = "upload" /\ ~handler'.filed /\ handler'.good = handler.good
          /\ handler'.left = handler.left \ {p}
      <4>1. cloud' \in [Photo -> Cloud]
        BY <1>0, <3>1 DEF Cloud
      <4>2. handler.left \ {p} \in SUBSET Photo
        BY <1>0
      <4>3. ~handler.filed
        BY <3>1 DEF Stored
      <4>4. /\ handler' \in [pc: {"none", "handed", "inspect", "upload", "insert", "retract", "finally", "answered"},
                            left: SUBSET Photo, decoded: SUBSET Photo, good: SUBSET Photo, tries: 0..MaxAttempts,
                            filed: BOOLEAN]
            /\ handler'.pc = "upload" /\ ~handler'.filed /\ handler'.good = handler.good
            /\ handler'.left = handler.left \ {p}
        BY <1>0, <3>1, <4>2, <4>3
      <4> QED BY <4>1, <4>4 DEF HandlerType
    <3>3. handler.left \subseteq handler.good
      BY <3>1 DEF Stored
    <3>4. \A q \in Photo : cloud'[q] = IF q \in handler'.good \ handler'.left THEN "stored" ELSE "no"
      BY <1>0, <3>1, <3>2, <3>3 DEF Stored
    <3> QED BY <2>0, <3>1, <3>2, <3>3, <3>4 DEF PhotoInv, RunsOnce, Stored, PhotosBelong
  <2>6. ASSUME NEW p \in Photo, UploadFails(p) PROVE PhotoInv'
    <3>1. handler.pc = "upload" /\ handler' = [handler EXCEPT !.pc = "retract"]
      BY <2>6 DEF UploadFails, Go
    <3>2. cloud' \in [Photo -> Cloud]
      BY <1>0, <2>6 DEF UploadFails, Cloud
    <3>3. HandlerType' /\ handler'.pc = "retract" /\ ~handler'.filed
      BY <1>0, <3>1, <3>2 DEF HandlerType, Stored
    <3> QED BY <2>0, <3>1, <3>3 DEF PhotoInv, RunsOnce, Stored, PhotosBelong
  <2>7. CASE UploadedAll
    <3>1. handler.pc = "upload" /\ handler.left = {} /\ handler' = [handler EXCEPT !.pc = "insert"] /\ UNCHANGED cloud
      BY <2>7 DEF UploadedAll, Go
    <3>2. HandlerType' /\ handler'.pc = "insert" /\ ~handler'.filed /\ handler'.good = handler.good
      BY <1>0, <3>1 DEF HandlerType, Stored
    <3> QED BY <2>0, <3>1, <3>2 DEF PhotoInv, RunsOnce, Stored, PhotosBelong
  <2>8. CASE Insert \/ OutOfCodes
    <3>1. /\ handler.pc = "insert" /\ UNCHANGED cloud
          /\ \/ handler' = [handler EXCEPT !.pc = "finally", !.filed = TRUE]
             \/ handler.tries < MaxAttempts /\ handler' = [handler EXCEPT !.tries = handler.tries + 1]
             \/ handler' = [handler EXCEPT !.pc = "retract"]
      BY <2>8 DEF Insert, OutOfCodes, Go
    <3>2. handler.tries \in Nat /\ (handler.tries < MaxAttempts => handler.tries + 1 \in 0..MaxAttempts)
      BY <1>0, BoundsAssumption
    <3>3. /\ HandlerType' /\ handler'.good = handler.good
          /\ \/ handler'.pc = "finally" /\ handler'.filed
             \/ handler'.pc \in {"insert", "retract"} /\ ~handler'.filed
      BY <1>0, <3>1, <3>2 DEF HandlerType, Stored
    <3> QED BY <2>0, <3>1, <3>3 DEF PhotoInv, RunsOnce, Stored, PhotosBelong
  <2>9. CASE Retract
    <3>1. handler.pc = "retract" /\ handler' = [handler EXCEPT !.pc = "finally"]
      BY <2>9 DEF Retract, Go
    <3>2. cloud' \in [Photo -> Cloud] /\ \A p \in Photo : cloud'[p] # "stored"
      BY <1>0, <2>9 DEF Retract, Retracted, Cloud
    <3>3. HandlerType' /\ handler'.pc = "finally" /\ ~handler'.filed
      BY <1>0, <3>1, <3>2 DEF HandlerType, Stored
    <3> QED BY <2>0, <3>1, <3>2, <3>3 DEF PhotoInv, RunsOnce, Stored, PhotosBelong
  <2>10. CASE Finally
    <3>1. handler.pc = "finally" /\ handler' = [handler EXCEPT !.pc = "answered"] /\ UNCHANGED cloud
      BY <2>10 DEF Finally, Go
    <3>2. /\ HandlerType' /\ handler'.pc = "answered" /\ (handler'.filed <=> handler.filed)
          /\ handler'.good = handler.good
      BY <1>0, <3>1 DEF HandlerType
    <3> QED BY <2>0, <3>1, <3>2 DEF PhotoInv, RunsOnce, Stored, PhotosBelong
  <2>11. \/ Enter \/ InspectFails \/ Inspected \/ UploadedAll \/ Insert \/ OutOfCodes \/ Retract \/ Finally
         \/ \E p \in Photo : Decode(p) \/ Sanitize(p) \/ Upload(p) \/ UploadFails(p)
         \/ UNCHANGED <<handler, cloud>>
    BY <1>3 DEF Next, Progress, vars, Start, ParserFinish, CleanFailure, PassError, RemoveFiles, RemoveDir, Finish,
                WriteDone, WriteFails, SendAll, ClientAborts, ClientCloses, LimitOrError, File
  <2> QED BY <1>1, <2>1, <2>2, <2>3, <2>4, <2>5, <2>6, <2>7, <2>8, <2>9, <2>10, <2>11
<1> QED BY <1>2, <1>3

\* A filed report has every photo at the provider, and a request that ends without a report has left none
\* there but those it could not delete or never heard of (complaintImageService.js:44-71,
\* complaintController.js:110).
THEOREM PhotosAlwaysBelong == Spec => []PhotosBelong
<1>1. Init => PhotoInv
  BY BoundsAssumption DEF Init, PhotoInv, HandlerType, Cloud, RunsOnce, Stored, PhotosBelong
<1>2. UploadInv => Types
  BY DEF UploadInv
<1>3. PhotoInv => PhotosBelong
  BY DEF PhotoInv, Stored
<1> QED BY <1>1, <1>2, <1>3, PhotoStep, UploadInvariant, PTL DEF Spec

-----------------------------------------------------------------------------
(* The page of failed jobs.                                                    *)

JobTypes ==
  /\ failedJobs = [failed |-> failedJobs.failed, version |-> failedJobs.version] /\ failedJobs.version \in Nat
  /\ own = [need |-> own.need, shown |-> own.shown, from |-> own.from]
  /\ own.need \in 0..failedJobs.version /\ own.from \in 0..requestId
  /\ act = [pc |-> act.pc, kind |-> act.kind, job |-> act.job, queue |-> act.queue, page |-> act.page, load |-> act.load]
  /\ requestId \in Nat /\ DOMAIN jobFlight \subseteq 1..requestId

\* An answer holds jobs of the queue it was asked for, and of a load after the last own action what that made.
JobAnswer(n) ==
  /\ jobFlight[n] = [queue |-> jobFlight[n].queue, page |-> jobFlight[n].page, answer |-> jobFlight[n].answer]
  /\ \/ jobFlight[n].answer \in {Jobs!Empty, Jobs!Failure}
     \/ /\ \A j \in jobFlight[n].answer.jobs : Jobs!QueueOf(j) = jobFlight[n].queue
        /\ jobFlight[n].answer.version \in Nat
        /\ n > own.from => jobFlight[n].answer.version >= own.need

\* The newest load is of the queue on screen, and so is an action, as it holds the tabs.
JobsInv ==
  /\ JobTypes
  /\ \A n \in DOMAIN jobFlight : JobAnswer(n)
  /\ requestId \in DOMAIN jobFlight => jobFlight[requestId].queue = queue
  /\ act.pc # "idle" => act.queue = queue
  /\ act.pc = "done" => act.load \in 0..failedJobs.version
  /\ own.shown => own.need = 0 \/ own.from < requestId
  /\ JobsOfQueue /\ SeesOwnAction

LEMMA JobLoad ==
  ASSUME JobsInv, NEW q, NEW p, Jobs!Load(q, p)
  PROVE  /\ requestId' = requestId + 1 /\ DOMAIN jobFlight' = DOMAIN jobFlight \cup {requestId'}
         /\ jobFlight'[requestId'] = [queue |-> q, page |-> p, answer |-> Jobs!Empty]
         /\ \A n \in DOMAIN jobFlight : n <= requestId /\ n # requestId' /\ jobFlight'[n] = jobFlight[n]
BY DEF JobsInv, JobTypes, Jobs!Load

\* The jobs change on the server, and nothing else does.
LEMMA JobsChange ==
  ASSUME JobsInv, NEW failed, Jobs!Changes(failed), UNCHANGED <<queue, jobList, dismissing, act, requestId, jobFlight, jobTimer, own>>
  PROVE  JobsInv'
BY DEF JobsInv, JobTypes, JobAnswer, Jobs!Changes, JobsOfQueue, Jobs!JobsOfQueue, Jobs!QueueOf, SeesOwnAction, Jobs!SeesOwnAction

LEMMA JobsStep == JobsInv /\ [Jobs!Next]_jobs => JobsInv'
<1> SUFFICES ASSUME JobsInv, [Jobs!Next]_jobs PROVE JobsInv'
  OBVIOUS
<1>0. /\ JobTypes /\ \A n \in DOMAIN jobFlight : JobAnswer(n)
      /\ JobsOfQueue /\ SeesOwnAction
  BY DEF JobsInv
<1> USE DEF JobsOfQueue, Jobs!JobsOfQueue, Jobs!QueueOf, SeesOwnAction, Jobs!SeesOwnAction
<1>1. CASE UNCHANGED jobs
  BY <1>0, <1>1 DEF jobs, JobsInv, JobTypes, JobAnswer
<1>2. CASE Jobs!TimerFires \/ \E p : Jobs!Turn(p)
  <2>1. PICK p : Jobs!Load(queue, p) /\ UNCHANGED <<failedJobs, queue, jobList, act, own>>
    BY <1>2 DEF Jobs!TimerFires, Jobs!Turn, Jobs!page
  <2> DEFINE new == [queue |-> queue, page |-> p, answer |-> Jobs!Empty]
  <2>2. /\ requestId' = requestId + 1 /\ DOMAIN jobFlight' = DOMAIN jobFlight \cup {requestId'}
        /\ jobFlight'[requestId'] = new
        /\ \A n \in DOMAIN jobFlight : n <= requestId /\ n # requestId' /\ jobFlight'[n] = jobFlight[n]
    BY <2>1, JobLoad
  <2>3. ASSUME NEW n \in DOMAIN jobFlight' PROVE JobAnswer(n)'
    <3>1. CASE n = requestId'
      BY <2>2, <3>1 DEF JobAnswer
    <3>2. CASE n \in DOMAIN jobFlight
      BY <1>0, <2>1, <2>2, <3>2 DEF JobAnswer, JobTypes
    <3> QED BY <2>2, <3>1, <3>2
  <2>4. JobTypes'
    BY <1>0, <2>1, <2>2 DEF JobTypes
  <2> QED BY <1>0, <2>1, <2>2, <2>3, <2>4 DEF JobsInv, JobTypes
<1>3. CASE Jobs!ActDone
  <2>1. /\ act.pc = "done" /\ Jobs!Load(act.queue, act.page) /\ UNCHANGED <<failedJobs, queue, jobList>>
        /\ own' = [need |-> act.load, shown |-> FALSE, from |-> requestId]
        /\ act' = [act EXCEPT !.pc = "loading", !.load = requestId + 1]
    BY <1>3 DEF Jobs!ActDone
  <2> DEFINE new == [queue |-> act.queue, page |-> act.page, answer |-> Jobs!Empty]
  <2>2. /\ requestId' = requestId + 1 /\ DOMAIN jobFlight' = DOMAIN jobFlight \cup {requestId'}
        /\ jobFlight'[requestId'] = new
        /\ \A n \in DOMAIN jobFlight : n <= requestId /\ n # requestId' /\ jobFlight'[n] = jobFlight[n]
    BY <2>1, JobLoad
  <2>3. own'.need = act.load /\ ~own'.shown /\ own'.from = requestId
    BY <2>1
  <2>4. ASSUME NEW n \in DOMAIN jobFlight' PROVE JobAnswer(n)'
    <3>1. CASE n = requestId'
      BY <2>2, <3>1 DEF JobAnswer
    <3>2. CASE n \in DOMAIN jobFlight
      BY <1>0, <2>2, <2>3, <3>2 DEF JobAnswer, JobTypes
    <3> QED BY <2>2, <3>1, <3>2
  <2>5. /\ act'.pc = "loading" /\ act'.queue = queue
        /\ act' = [pc |-> act'.pc, kind |-> act'.kind, job |-> act'.job, queue |-> act'.queue, page |-> act'.page,
                   load |-> act'.load]
    BY <1>0, <2>1 DEF JobTypes, JobsInv
  <2>6. JobTypes'
    BY <1>0, <2>1, <2>2, <2>3, <2>5 DEF JobTypes, JobsInv
  <2> QED BY <1>0, <2>1, <2>2, <2>3, <2>4, <2>5, <2>6 DEF JobsInv, JobTypes
<1>4. CASE Jobs!ServeAct
  <2>1. /\ UNCHANGED <<queue, jobList, dismissing, requestId, jobFlight, jobTimer, own>>
        /\ failedJobs' = failedJobs \/ \E gone : Jobs!Changes(failedJobs.failed \ gone)
        /\ \E pc \in {"done", "refused"} : act' = [act EXCEPT !.pc = pc, !.load = failedJobs'.version]
        /\ act.pc = "sent"
    BY <1>4 DEF Jobs!ServeAct, Jobs!page
  <2>2. /\ failedJobs' = [failed |-> failedJobs'.failed, version |-> failedJobs'.version]
        /\ failedJobs'.version \in Nat /\ failedJobs'.version >= failedJobs.version
    BY <1>0, <2>1 DEF JobTypes, Jobs!Changes
  <2>3. /\ act'.queue = queue /\ act'.load = failedJobs'.version
        /\ act' = [pc |-> act'.pc, kind |-> act'.kind, job |-> act'.job, queue |-> act'.queue, page |-> act'.page,
                   load |-> act'.load]
    BY <1>0, <2>1 DEF JobTypes, JobsInv
  <2>5. JobTypes'
    BY <1>0, <2>1, <2>2, <2>3 DEF JobTypes
  <2>4. \A n \in DOMAIN jobFlight' : JobAnswer(n)'
    BY <1>0, <2>1 DEF JobAnswer
  <2> QED BY <1>0, <2>1, <2>2, <2>3, <2>4, <2>5 DEF JobsInv, JobTypes
<1>5. CASE Jobs!ActRefused \/ Jobs!CloseDialog \/ \E j \in Jobs!Job : Jobs!OpenDialog(j)
  <2>1. UNCHANGED <<failedJobs, queue, jobList, requestId, jobFlight, own>> /\ act' \in {act, Jobs!Idle}
    BY <1>5 DEF Jobs!ActRefused, Jobs!CloseDialog, Jobs!OpenDialog, Jobs!page
  <2> QED BY <1>0, <2>1 DEF JobsInv, JobTypes, JobAnswer, Jobs!Idle
<1>6. ASSUME NEW n \in DOMAIN jobFlight, Jobs!Serve(n) PROVE JobsInv'
  <2>1. PICK a \in {Jobs!Listed(jobFlight[n].queue, jobFlight[n].page), Jobs!Failure} :
          jobFlight' = [jobFlight EXCEPT ![n].answer = a]
    BY <1>6 DEF Jobs!Serve
  <2>2. UNCHANGED <<failedJobs, queue, jobList, dismissing, act, requestId, jobTimer, own>>
    BY <1>6 DEF Jobs!Serve, Jobs!page
  <2>3. a = Jobs!Failure \/ (a.version = failedJobs.version /\ \A j \in a.jobs : Jobs!QueueOf(j) = jobFlight[n].queue)
    <3>1. CASE a = Jobs!Listed(jobFlight[n].queue, jobFlight[n].page)
      <4>1. a.version = failedJobs.version /\ a.jobs \subseteq Jobs!FailedOf(jobFlight[n].queue)
        BY <3>1 DEF Jobs!Listed
      <4> QED BY <4>1 DEF Jobs!FailedOf
    <3> QED BY <3>1
  <2>4. jobFlight'[n] = [queue |-> jobFlight[n].queue, page |-> jobFlight[n].page, answer |-> a]
    BY <1>0, <2>1 DEF JobAnswer
  <2>5. DOMAIN jobFlight' = DOMAIN jobFlight /\ \A m \in DOMAIN jobFlight : m # n => jobFlight'[m] = jobFlight[m]
    BY <2>1
  <2>6. JobAnswer(n)'
    BY <1>0, <2>2, <2>3, <2>4 DEF JobAnswer, JobTypes
  <2>7. \A m \in DOMAIN jobFlight' : JobAnswer(m)'
    BY <1>0, <2>2, <2>5, <2>6 DEF JobAnswer
  <2>8. requestId \in DOMAIN jobFlight' => jobFlight'[requestId].queue = queue
    BY <2>4, <2>5 DEF JobsInv
  <2> QED BY <2>2, <2>5, <2>7, <2>8 DEF JobsInv, JobTypes
<1>7. ASSUME NEW n \in DOMAIN jobFlight, Jobs!Answered(n) PROVE JobsInv'
  <2> DEFINE a == jobFlight[n].answer
  <2>1. /\ a # Jobs!Empty /\ jobFlight' = [m \in DOMAIN jobFlight \ {n} |-> jobFlight[m]]
        /\ UNCHANGED <<failedJobs, queue, dismissing, requestId, jobTimer>>
        /\ act' \in {Jobs!Idle, act}
        /\ \/ n = requestId /\ a # Jobs!Failure /\ jobList' = a /\ own' = [own EXCEPT !.shown = own.shown \/ n > own.from]
           \/ UNCHANGED <<jobList, own>>
    BY <1>7 DEF Jobs!Answered, Jobs!Current
  <2>2. /\ DOMAIN jobFlight' \subseteq DOMAIN jobFlight
        /\ \A m \in DOMAIN jobFlight' : jobFlight'[m] = jobFlight[m]
    BY <2>1
  <2>3. /\ own' = [need |-> own'.need, shown |-> own'.shown, from |-> own'.from]
        /\ own'.need = own.need /\ own'.from = own.from /\ (own'.shown => own.shown \/ (n = requestId /\ n > own.from))
    BY <1>0, <2>1 DEF JobTypes
  <2>4. JobTypes' /\ (act'.pc # "idle" => act'.queue = queue) /\ (act'.pc = "done" => act' = act)
    BY <1>0, <2>1, <2>2, <2>3 DEF JobTypes, Jobs!Idle, JobsInv
  <2>5. \A m \in DOMAIN jobFlight' : JobAnswer(m)'
    BY <1>0, <2>2, <2>3 DEF JobAnswer
  <2>6. own'.shown => own'.need = 0 \/ own'.from < requestId'
    BY <2>1, <2>3 DEF JobsInv
  <2>7. JobsOfQueue' /\ SeesOwnAction'
    <3>1. CASE UNCHANGED <<jobList, own>>
      BY <1>0, <2>1, <3>1
    <3>2. CASE n = requestId /\ a # Jobs!Failure /\ jobList' = a
      <4>1. (\A j \in a.jobs : Jobs!QueueOf(j) = jobFlight[n].queue) /\ a.version \in Nat
            /\ (n > own.from => a.version >= own.need)
        BY <1>0, <2>1, <3>2 DEF JobAnswer
      <4>2. own'.shown => own.need = 0 \/ n > own.from
        BY <2>1, <2>3, <2>6, <3>2
      <4> QED BY <2>1, <2>3, <3>2, <4>1, <4>2 DEF JobsInv
    <3> QED BY <2>1, <3>1, <3>2
  <2> QED BY <2>1, <2>2, <2>4, <2>5, <2>6, <2>7 DEF JobsInv
<1>8. CASE \E q \in {"email", "ai"} : Jobs!SelectQueue(q)
  <2>1. /\ act.pc = "idle" /\ requestId' = requestId + 1 /\ jobList' = [Jobs!Empty EXCEPT !.failing = jobList.failing]
        /\ UNCHANGED <<failedJobs, act, jobFlight, own>>
    BY <1>8 DEF Jobs!SelectQueue, Jobs!MaySelect
  <2>2. JobTypes' /\ requestId' \notin DOMAIN jobFlight
    BY <1>0, <2>1 DEF JobTypes
  <2> QED BY <1>0, <2>1, <2>2 DEF JobsInv, JobAnswer, JobTypes, Jobs!Empty
<1>9. CASE \E kind \in {"retry", "dismiss", "retry-failed"}, j \in Jobs!Job \cup {Jobs!NoJob} : Jobs!Act(kind, j)
  <2>1. PICK kind, j : Jobs!Act(kind, j)
    BY <1>9
  <2> QED BY <1>0, <2>1 DEF Jobs!Act, Jobs!page, JobsInv, JobTypes, JobAnswer
<1>10. CASE \E j \in Jobs!Job : Jobs!JobFails(j) \/ Jobs!OtherActs(j)
  BY <1>10, JobsChange DEF Jobs!JobFails, Jobs!OtherActs, Jobs!page
<1> HIDE DEF JobsInv
<1>11. CASE Jobs!Progress
  BY <1>2, <1>3, <1>4, <1>5, <1>6, <1>7, <1>11 DEF Jobs!Progress
<1>12. CASE Jobs!Next
  <2>1. CASE \E p : Jobs!Turn(p)
    BY <1>2, <2>1
  <2>2. CASE \E j \in Jobs!Job : Jobs!JobFails(j) \/ Jobs!OtherActs(j) \/ Jobs!OpenDialog(j)
    BY <1>5, <1>10, <2>2
  <2> QED BY <1>5, <1>8, <1>9, <1>11, <1>12, <2>1, <2>2 DEF Jobs!Next
<1> QED BY <1>1, <1>12

LEMMA JobsKept == Jobs!Spec => []JobsInv
<1>1. Jobs!Init => JobsInv
  BY DEF Jobs!Init, Jobs!Idle, Jobs!Empty, JobsInv, JobTypes, JobAnswer, JobsOfQueue, Jobs!JobsOfQueue,
         SeesOwnAction, Jobs!SeesOwnAction
<1> QED BY <1>1, JobsStep, PTL DEF Jobs!Spec, Jobs!vars, jobs

-----------------------------------------------------------------------------
(* The list of accounts.                                                       *)

\* An action that is not answered yet, whose dialog holds the page.
Unanswered == action.pc \in {"sent", "done", "refused"}

UserTypes ==
  /\ filters = [search |-> filters.search, role |-> filters.role]
  /\ userTimer = [on |-> userTimer.on, search |-> userTimer.search, role |-> userTimer.role, first |-> userTimer.first]
  /\ userList = [row |-> userList.row, page |-> userList.page, loading |-> userList.loading]
  /\ action = [pc |-> action.pc, kind |-> action.kind, page |-> action.page, load |-> action.load, filters |-> action.filters]
  /\ userAsked = [loads |-> userAsked.loads, filters |-> userAsked.filters, need |-> userAsked.need,
                  sent |-> userAsked.sent, failed |-> userAsked.failed, overtaken |-> userAsked.overtaken]
  /\ userAsked.loads \in Nat

\* A search that waits has the filters on screen, and so has an action until its answer: its dialog covers the filters.
UsersInv ==
  /\ UserTypes
  /\ userTimer.on => userTimer.search = filters.search /\ userTimer.role = filters.role
  /\ Unanswered => dialog \in Users!Kind /\ action.filters = filters
  /\ userAsked.sent = (IF Unanswered THEN 1 ELSE 0)
  /\ LastLoadHasFilters /\ LoadingIsLoading

LEMMA UserLoad ==
  ASSUME UsersInv, NEW f, NEW p, NEW late, Users!Ask(f, p, late)
  PROVE  /\ userFlight' # <<>> /\ userAsked'.filters = f /\ userAsked'.sent = userAsked.sent
         /\ userAsked'.overtaken = late
         /\ userAsked'.loads \in Nat
         /\ userAsked' = [loads |-> userAsked'.loads, filters |-> userAsked'.filters, need |-> userAsked'.need,
                          sent |-> userAsked'.sent, failed |-> userAsked'.failed, overtaken |-> userAsked'.overtaken]
         /\ userList' = [row |-> userList'.row, page |-> userList'.page, loading |-> userList'.loading]
<1>1. userAsked.loads + 1 \in DOMAIN userFlight'
  BY DEF Users!Ask
<1>2. DOMAIN <<>> = {}
  OBVIOUS
<1> DEFINE loads == userAsked.loads + 1
<1>3. loads \in Nat /\ userAsked' = [userAsked EXCEPT !.loads = loads, !.filters = f, !.overtaken = late]
  BY DEF UsersInv, UserTypes, Users!Ask
<1> HIDE DEF loads
<1>4. userAsked' = [loads |-> loads, filters |-> f, need |-> userAsked.need, sent |-> userAsked.sent,
                    failed |-> userAsked.failed, overtaken |-> late]
  BY <1>3 DEF UsersInv, UserTypes
<1>5. userList' = [row |-> userList'.row, page |-> userList'.page, loading |-> userList'.loading]
  BY DEF UsersInv, UserTypes, Users!Ask
<1> QED BY <1>1, <1>2, <1>3, <1>4, <1>5

LEMMA UsersStep == UsersInv /\ [Users!Next]_users => UsersInv'
<1> SUFFICES ASSUME UsersInv, [Users!Next]_users PROVE UsersInv'
  OBVIOUS
<1>0. UserTypes
  BY DEF UsersInv
<1> USE DEF LastLoadHasFilters, Users!LastLoadHasFilters, LoadingIsLoading, Users!LoadingIsLoading, Users!Kind
<1>1. CASE UNCHANGED users
  BY <1>1 DEF users, UsersInv, UserTypes, Unanswered
<1>2. CASE Users!TimerFires
  <2>1. /\ Users!Ask([search |-> userTimer.search, role |-> userTimer.role], 1, FALSE)
        /\ userTimer.on /\ userTimer' = Users!NoSearch /\ UNCHANGED <<filters, dialog, action>>
    BY <1>2 DEF Users!TimerFires, Users!LoadUsers
  <2>2. /\ userFlight' # <<>> /\ userAsked'.filters = [search |-> userTimer.search, role |-> userTimer.role]
        /\ userAsked'.sent = userAsked.sent
    BY <2>1, UserLoad
  <2>3. UserTypes' /\ ~userTimer'.on
    BY <1>0, <2>1, UserLoad DEF UserTypes, Users!NoSearch, Users!NoTimer
  <2> QED BY <1>0, <2>1, <2>2, <2>3 DEF UsersInv, UserTypes, Unanswered
<1>3. CASE \E value \in Role : Users!HandleRoleChange(value)
  <2>1. PICK value \in Role : Users!HandleRoleChange(value)
    BY <1>3
  <2>2. /\ Users!Ask(filters', 1, FALSE) /\ dialog = "none" /\ UNCHANGED <<dialog, action>>
        /\ filters' = [filters EXCEPT !.role = value] /\ userTimer' = Users!NoSearch
    BY <2>1 DEF Users!HandleRoleChange, Users!Cleared, Users!LoadUsers
  <2>3. userFlight' # <<>> /\ userAsked'.filters = filters' /\ userAsked'.sent = userAsked.sent
    BY <2>2, UserLoad
  <2>4. UserTypes' /\ ~userTimer'.on
    BY <1>0, <2>2, UserLoad DEF UserTypes, Users!NoSearch, Users!NoTimer
  <2> QED BY <2>2, <2>3, <2>4 DEF UsersInv, Unanswered
<1>4. CASE \E p \in 1..UserPages : Users!GoToPage(p)
  <2>1. PICK p : Users!Ask(filters, p, FALSE) /\ UNCHANGED <<filters, userTimer, dialog, action>>
    BY <1>4 DEF Users!GoToPage, Users!LoadUsers
  <2>2. userFlight' # <<>> /\ userAsked'.filters = filters /\ userAsked'.sent = userAsked.sent
    BY <2>1, UserLoad
  <2>3. UserTypes'
    BY <1>0, <2>1, UserLoad DEF UserTypes
  <2> QED BY <2>1, <2>2, <2>3 DEF UsersInv, Unanswered
<1>5. CASE \E value \in UserText : Users!HandleSearchChange(value)
  <2>1. PICK value \in UserText : Users!HandleSearchChange(value)
    BY <1>5
  <2>2. /\ filters' = [search |-> value, role |-> filters.role]
        /\ userTimer' = [on |-> TRUE, search |-> value, role |-> filters.role, first |-> userTimer.first]
        /\ dialog = "none" /\ UNCHANGED <<userList, dialog, action, userFlight, userAsked>>
    BY <1>0, <2>1 DEF Users!HandleSearchChange, UserTypes
  <2> QED BY <1>0, <2>2 DEF UsersInv, UserTypes, Unanswered
<1>6. CASE Users!HandleConfirmAction
  <2>1. /\ dialog \in Users!Kind /\ action.pc = "idle" /\ UNCHANGED <<filters, userList, userTimer, dialog, userFlight>>
        /\ action' = [pc |-> "sent", kind |-> dialog, page |-> userList.page, load |-> 0, filters |-> filters]
        /\ userAsked' = [userAsked EXCEPT !.sent = userAsked.sent + 1]
    BY <1>6 DEF Users!HandleConfirmAction, Users!MayConfirm
  <2>2. userAsked.sent = 0
    BY <2>1 DEF UsersInv, Unanswered
  <2>3. UserTypes' /\ userAsked'.sent = 1 /\ userAsked'.filters = userAsked.filters /\ userAsked'.loads = userAsked.loads
        /\ userAsked'.overtaken = userAsked.overtaken
    BY <1>0, <2>1, <2>2 DEF UserTypes
  <2> QED BY <2>1, <2>3 DEF UsersInv, Unanswered
<1>7. CASE Users!ServeAction
  <2>1. /\ action.pc = "sent" /\ UNCHANGED <<filters, userList, userTimer, dialog, userFlight, userAsked>>
        /\ \E pc \in {"done", "refused"}, n \in {action.load, account.version + 1} : action' = [action EXCEPT !.pc = pc, !.load = n]
    <3>1. action = [action EXCEPT !.load = action.load]
      BY <1>0 DEF UserTypes
    <3>2. action.pc = "sent" /\ UNCHANGED <<filters, userList, userTimer, dialog, userFlight, userAsked>>
      BY <1>7 DEF Users!ServeAction
    <3>3. CASE action' = [action EXCEPT !.pc = "refused"]
      <4>1. action' = [action EXCEPT !.pc = "refused", !.load = action.load]
        BY <1>0, <3>3 DEF UserTypes
      <4> QED BY <3>2, <4>1
    <3> QED BY <1>7, <3>2, <3>3 DEF Users!ServeAction
  <2>2. /\ action'.pc \in {"done", "refused"} /\ action'.filters = action.filters
        /\ action' = [pc |-> action'.pc, kind |-> action'.kind, page |-> action'.page, load |-> action'.load,
                      filters |-> action'.filters]
    BY <1>0, <2>1 DEF UserTypes
  <2> QED BY <1>0, <2>1, <2>2 DEF UsersInv, UserTypes, Unanswered
<1>8. CASE Users!ActionDone
  <2>1. /\ action.pc = "done" /\ UNCHANGED <<filters, userTimer>>
        /\ userAsked.loads + 1 \in DOMAIN userFlight'
        /\ userAsked' = [userAsked EXCEPT !.loads = @ + 1, !.filters = action.filters, !.need = action.load, !.sent = @ - 1,
                                          !.overtaken = FALSE]
        /\ userList' = [userList EXCEPT !.loading = TRUE]
        /\ action' = [action EXCEPT !.pc = "loading", !.load = userAsked.loads + 1]
    BY <1>8 DEF Users!ActionDone
  <2>2. userAsked.sent = 1 /\ action.filters = filters
    BY <2>1 DEF UsersInv, Unanswered
  <2> DEFINE loads == userAsked.loads + 1
             sent == userAsked.sent - 1
  <2>3. loads \in Nat /\ sent = 0
        /\ userAsked' = [userAsked EXCEPT !.loads = loads, !.filters = action.filters, !.need = action.load, !.sent = sent,
                                          !.overtaken = FALSE]
    BY <1>0, <2>1, <2>2 DEF UserTypes
  <2> HIDE DEF loads, sent
  <2>4. userAsked' = [loads |-> loads, filters |-> action.filters, need |-> action.load, sent |-> sent,
                      failed |-> userAsked.failed, overtaken |-> FALSE]
    BY <1>0, <2>3 DEF UserTypes
  <2>5. userAsked'.filters = filters /\ userAsked'.sent = 0 /\ userAsked'.loads \in Nat
        /\ userAsked' = [loads |-> userAsked'.loads, filters |-> userAsked'.filters, need |-> userAsked'.need,
                         sent |-> userAsked'.sent, failed |-> userAsked'.failed, overtaken |-> userAsked'.overtaken]
    BY <2>2, <2>3, <2>4
  <2>6. UserTypes' /\ action'.pc = "loading"
    BY <1>0, <2>1, <2>5 DEF UserTypes
  <2>7. userFlight' # <<>>
    <3>1. DOMAIN <<>> = {}
      OBVIOUS
    <3> QED BY <2>1, <3>1
  <2> QED BY <2>1, <2>5, <2>6, <2>7 DEF UsersInv, Unanswered
<1>9. CASE Users!ActionRefused
  <2>1. /\ action.pc = "refused" /\ action' = Users!NoAction /\ UNCHANGED <<filters, userList, userTimer, dialog, userFlight>>
        /\ userAsked' = [userAsked EXCEPT !.sent = @ - 1]
    BY <1>9 DEF Users!ActionRefused
  <2>2. userAsked.sent = 1
    BY <2>1 DEF UsersInv, Unanswered
  <2>3. UserTypes' /\ userAsked'.sent = 0 /\ userAsked'.filters = userAsked.filters /\ userAsked'.loads = userAsked.loads
        /\ action'.pc = "idle" /\ userAsked'.overtaken = userAsked.overtaken
    BY <1>0, <2>1, <2>2 DEF UserTypes, Users!NoAction
  <2> QED BY <2>1, <2>3 DEF UsersInv, Unanswered
<1>10. CASE \E n \in DOMAIN userFlight : Users!Serve(n)
  <2>1. PICK n \in DOMAIN userFlight : Users!Serve(n)
    BY <1>10
  <2>2. DOMAIN userFlight' = DOMAIN userFlight /\ UNCHANGED <<filters, userList, userTimer, dialog, action, userAsked>>
    BY <2>1 DEF Users!Serve
  <2>3. userFlight # <<>> /\ userFlight' # <<>>
    <3>1. DOMAIN <<>> = {}
      OBVIOUS
    <3> QED BY <2>2, <3>1
  <2> QED BY <1>0, <2>2, <2>3 DEF UsersInv, UserTypes, Unanswered
<1>11. CASE \E n \in DOMAIN userFlight : Users!Answered(n)
  <2>1. PICK n \in DOMAIN userFlight : Users!Answered(n)
    BY <1>11
  <2> DEFINE failed == userAsked.failed \/ userFlight[n].answer = Users!Failure
  <2>2. /\ ~userList'.loading /\ UNCHANGED <<filters, userTimer, dialog>>
        /\ userList' = [row |-> userList'.row, page |-> userList'.page, loading |-> userList'.loading]
        /\ action' = action \/ (action.pc = "loading" /\ action' = Users!NoAction)
        /\ userAsked' = [userAsked EXCEPT !.failed = failed]
    BY <1>0, <2>1 DEF Users!Answered, UserTypes
  <2>3. UserTypes' /\ userAsked'.sent = userAsked.sent /\ userAsked'.filters = userAsked.filters
        /\ userAsked'.loads = userAsked.loads /\ userAsked'.overtaken = userAsked.overtaken
    BY <1>0, <2>2 DEF UserTypes, Users!NoAction
  <2> QED BY <2>2, <2>3 DEF UsersInv, Unanswered, Users!NoAction
<1>12. CASE \/ Users!Close \/ Users!HandleSaveEdit \/ Users!ServeSave
            \/ \E d \in Users!Kind \cup {"edit"} : Users!Open(d)
  <2>1. /\ UNCHANGED <<filters, userList, userTimer, action, userFlight, userAsked>>
        /\ dialog' = dialog \/ dialog \notin Users!Kind \/ action.pc = "idle"
    BY <1>12 DEF Users!Close, Users!MayClose, Users!HandleSaveEdit, Users!ServeSave, Users!Open
  <2> QED BY <1>0, <2>1 DEF UsersInv, UserTypes, Unanswered
<1>13. CASE Users!SaveAnswered
  <2>1. /\ UNCHANGED <<filters, userTimer, action, userFlight, userAsked>> /\ (dialog' = dialog \/ dialog = "edit")
        /\ userList' = [row |-> userList'.row, page |-> userList'.page, loading |-> userList.loading]
    BY <1>0, <1>13 DEF Users!SaveAnswered, UserTypes
  <2> QED BY <1>0, <2>1 DEF UsersInv, UserTypes, Unanswered
\* The first load asks for everyone: that is what the filters say, or they have overtaken it.
<1>14. CASE Users!FirstLoads
  <2> DEFINE late == filters # Users!Unfiltered
  <2>1. /\ Users!Ask(Users!Unfiltered, 1, late)
        /\ userTimer' = [userTimer EXCEPT !.first = FALSE] /\ UNCHANGED <<filters, dialog, action>>
    BY <1>14 DEF Users!FirstLoads
  <2>2. filters = Users!Unfiltered \/ late
    OBVIOUS
  <2> HIDE DEF late
  <2>3. /\ userFlight' # <<>> /\ userAsked'.filters = Users!Unfiltered
        /\ userAsked'.sent = userAsked.sent /\ userAsked'.overtaken = late
    BY <2>1, UserLoad
  <2>4. UserTypes' /\ userTimer'.on = userTimer.on /\ userTimer'.search = userTimer.search /\ userTimer'.role = userTimer.role
    BY <1>0, <2>1, UserLoad DEF UserTypes
  <2> QED BY <2>1, <2>2, <2>3, <2>4 DEF UsersInv, Unanswered
<1> QED
  BY <1>1, <1>2, <1>3, <1>4, <1>5, <1>6, <1>7, <1>8, <1>9, <1>10, <1>11, <1>12, <1>13, <1>14 DEF Users!Next, Users!Progress

LEMMA UsersKept == Users!Spec => []UsersInv
<1>1. Users!Init => UsersInv
  <2> SUFFICES ASSUME Users!Init PROVE UsersInv
    OBVIOUS
  <2>1. userTimer = [on |-> FALSE, search |-> Everyone, role |-> Everyone, first |-> TRUE]
    BY DEF Users!Init, Users!NoTimer
  <2>2. /\ filters = [search |-> Everyone, role |-> Everyone] /\ action.pc = "idle"
        /\ action = [pc |-> action.pc, kind |-> action.kind, page |-> action.page, load |-> action.load,
                     filters |-> action.filters]
    BY DEF Users!Init, Users!NoAction, Users!Unfiltered
  <2>3. /\ userAsked = [loads |-> 0, filters |-> filters, need |-> 0, sent |-> 0, failed |-> FALSE, overtaken |-> FALSE]
        /\ userList = [row |-> userList.row, page |-> userList.page, loading |-> userList.loading]
    BY DEF Users!Init
  <2> QED
    BY <2>1, <2>2, <2>3 DEF UsersInv, UserTypes, Unanswered, LastLoadHasFilters, Users!LastLoadHasFilters,
                            LoadingIsLoading, Users!LoadingIsLoading
<1> QED BY <1>1, UsersStep, PTL DEF Users!Spec, Users!vars, users

-----------------------------------------------------------------------------
(* The list of reports.                                                        *)

ListTypes ==
  /\ history \in Seq(Listed!Address) /\ Len(history) >= 1
  /\ searchTimer.from \in Listed!Address /\ searchTimer.value \in ListText
  /\ listAsked = [number |-> listAsked.number, of |-> listAsked.of] /\ listAsked.number \in Nat
  /\ DOMAIN listFlight \subseteq 1..listAsked.number
  /\ \A n \in DOMAIN listFlight : listFlight[n] = [of |-> listFlight[n].of, answer |-> listFlight[n].answer]
  /\ reports = [status |-> reports.status, of |-> reports.of, number |-> reports.number]
  /\ reports.number \in 0..listAsked.number
  /\ order = [overtaken |-> order.overtaken, failed |-> order.failed]

\* The newest request is of the address, and once it is answered its answer is the one shown.
ListInv ==
  /\ ListTypes
  /\ listAsked.of = Listed!Current
  /\ listAsked.number \in DOMAIN listFlight => listFlight[listAsked.number].of = Listed!Current
  /\ listAsked.number \notin DOMAIN listFlight /\ ~order.overtaken /\ ~order.failed =>
       reports.number = listAsked.number /\ reports.of = Listed!Current

\* The address becomes a, and whoever depends on it asks.
LEMMA ListVisit ==
  ASSUME ListInv, NEW a \in Listed!Address, Listed!Visit(a), history' \in Seq(Listed!Address), Len(history') >= 1,
         Listed!Current' = a, searchTimer'.from \in Listed!Address, searchTimer'.value \in ListText, UNCHANGED order
  PROVE  ListInv'
<1>1. CASE a = Listed!Current
  <2>1. UNCHANGED <<listFlight, listAsked, reports>>
    BY <1>1 DEF Listed!Visit, Listed!Depends
  <2> QED BY <1>1, <2>1 DEF ListInv, ListTypes
<1>2. CASE a # Listed!Current
  <2> DEFINE n == listAsked.number + 1
             new == [of |-> a, answer |-> "none"]
  <2>1. /\ listAsked' = [number |-> n, of |-> a]
        /\ listFlight' = [m \in DOMAIN listFlight \cup {n} |-> IF m = n THEN new ELSE listFlight[m]]
        /\ reports' = [reports EXCEPT !.status = "loading"]
    BY <1>2 DEF Listed!Visit, Listed!Depends
  <2>2. n \in Nat /\ n = listAsked'.number /\ listAsked.number < n /\ n \notin DOMAIN listFlight
    BY <2>1 DEF ListInv, ListTypes
  <2> HIDE DEF n
  <2>3. DOMAIN listFlight' = DOMAIN listFlight \cup {n} /\ listFlight'[n] = new
        /\ \A m \in DOMAIN listFlight : listFlight'[m] = listFlight[m]
    BY <2>1, <2>2
  <2>4. /\ reports' = [status |-> reports'.status, of |-> reports'.of, number |-> reports'.number]
        /\ reports'.number = reports.number
    BY <2>1 DEF ListInv, ListTypes
  <2>5. ListTypes'
    BY <2>1, <2>2, <2>3, <2>4 DEF ListInv, ListTypes
  <2> QED BY <2>1, <2>2, <2>3, <2>5 DEF ListInv
<1> QED BY <1>1, <1>2

\* What a visit of one more address leaves.
LEMMA ListMove ==
  ASSUME ListInv, NEW a \in Listed!Address, Listed!SetSearchParams(a),
         searchTimer'.from \in Listed!Address, searchTimer'.value \in ListText, UNCHANGED order
  PROVE  ListInv' /\ Listed!Current' = a
<1>1. history' = Append(history, a) /\ Listed!Visit(a) /\ history \in Seq(Listed!Address)
  BY DEF Listed!SetSearchParams, ListInv, ListTypes
<1>2. history' \in Seq(Listed!Address) /\ Len(history') >= 1 /\ history'[Len(history')] = a
  BY <1>1
<1> QED BY <1>1, <1>2, ListVisit DEF Listed!Current

LEMMA ListAddresses ==
  ASSUME ListInv
  PROVE  /\ Listed!Current \in Listed!Address
         /\ \A a \in Listed!Address : [a EXCEPT !.page = 1] \in Listed!Address
         /\ \A a \in Listed!Address, f \in Filter : [a EXCEPT !.filter = f] \in Listed!Address
         /\ \A a \in Listed!Address, t \in ListText : [a EXCEPT !.search = t] \in Listed!Address
         /\ \A a \in Listed!Address, p \in 1..ListPages : [a EXCEPT !.page = p] \in Listed!Address
<1>1. 1 \in 1..ListPages
  BY ListAssumption DEF Listed!BoundAssumption
<1>2. Listed!Current \in Listed!Address
  BY DEF ListInv, ListTypes, Listed!Current
<1> QED BY <1>1, <1>2 DEF Listed!Address

LEMMA ListStep == ListInv /\ [Listed!Next]_listed => ListInv' /\ [Listed!TurnsWithinFilters]_listed
<1> SUFFICES ASSUME ListInv, [Listed!Next]_listed PROVE ListInv' /\ [Listed!TurnsWithinFilters]_listed
  OBVIOUS
<1>0. ListTypes
  BY DEF ListInv
<1> USE DEF Listed!TurnsWithinFilters, Listed!FiltersOf
<1>1. CASE UNCHANGED listed
  BY <1>0, <1>1 DEF listed, ListInv, ListTypes, Listed!Current
<1>2. CASE \E value \in Filter : Listed!SetFilter(value)
  <2>1. PICK value \in Filter : Listed!SetFilter(value)
    BY <1>2
  <2> DEFINE a == [Listed!WithoutPage(Listed!Current) EXCEPT !.filter = value]
  <2>2. a \in Listed!Address /\ a.page = 1
    BY ListAddresses DEF Listed!WithoutPage, Listed!Address
  <2>3. Listed!SetSearchParams(a) /\ UNCHANGED <<searchTimer, order>>
    BY <2>1 DEF Listed!SetFilter
  <2> HIDE DEF a
  <2> QED BY <1>0, <2>2, <2>3, ListMove DEF ListTypes
<1>3. CASE \E p \in 1..ListPages : Listed!SetPage(p)
  <2>1. PICK p \in 1..ListPages : Listed!SetPage(p)
    BY <1>3
  <2> DEFINE a == [Listed!Current EXCEPT !.page = p]
  <2>2. a \in Listed!Address /\ a.filter = Listed!Current.filter /\ a.search = Listed!Current.search
    BY ListAddresses DEF Listed!Address
  <2>3. Listed!SetSearchParams(a) /\ UNCHANGED <<searchTimer, order>>
    BY <2>1 DEF Listed!SetPage
  <2> HIDE DEF a
  <2> QED BY <1>0, <2>2, <2>3, ListMove DEF ListTypes
<1>4. CASE \E value \in ListText : Listed!HandleSearchChange(value)
  <2>1. PICK value \in ListText : Listed!HandleSearchChange(value)
    BY <1>4
  <2>2. searchTimer' = [on |-> TRUE, value |-> value, from |-> Listed!Current]
        /\ UNCHANGED <<history, listFlight, listAsked, reports, order>>
    BY <2>1 DEF Listed!HandleSearchChange
  <2> QED BY <1>0, <2>2, ListAddresses DEF ListInv, ListTypes, Listed!Current
<1>5. CASE Listed!TimerFires
  <2> DEFINE a == [Listed!WithoutPage(searchTimer.from) EXCEPT !.search = searchTimer.value]
  <2>1. a \in Listed!Address /\ a.page = 1
    BY <1>0, ListAddresses DEF ListTypes, Listed!WithoutPage, Listed!Address
  <2>2. /\ searchTimer' = Listed!NoTimer /\ UNCHANGED order
        /\ UNCHANGED <<history, listFlight, listAsked, reports>> \/ Listed!SetSearchParams(a)
    BY <1>5 DEF Listed!TimerFires
  <2> HIDE DEF a
  <2>3. searchTimer'.from \in Listed!Address /\ searchTimer'.value \in ListText
    BY <2>2, ListAssumption DEF Listed!NoTimer, Listed!First, Listed!Address, Listed!FilterAssumption, Listed!BoundAssumption
  <2>4. CASE UNCHANGED <<history, listFlight, listAsked, reports>>
    BY <1>0, <2>2, <2>3, <2>4 DEF ListInv, ListTypes, Listed!Current
  <2>5. CASE Listed!SetSearchParams(a)
    BY <2>1, <2>2, <2>3, <2>5, ListMove
  <2> QED BY <2>2, <2>4, <2>5
<1>6. CASE Listed!Back
  <2> DEFINE a == history[Len(history) - 1]
  <2>1. Len(history) > 1 /\ Listed!Visit(a) /\ history' = SubSeq(history, 1, Len(history) - 1) /\ UNCHANGED <<searchTimer, order>>
    BY <1>6 DEF Listed!Back
  <2>2. /\ a \in Listed!Address /\ history' \in Seq(Listed!Address) /\ Len(history') = Len(history) - 1
        /\ Len(history') >= 1 /\ history'[Len(history')] = a
    BY <1>0, <2>1 DEF ListTypes
  <2> HIDE DEF a
  <2>3. Listed!Current' = a
    BY <2>2 DEF Listed!Current
  <2>4. ListInv'
    BY <1>0, <2>1, <2>2, <2>3, ListVisit DEF ListTypes
  <2> QED BY <1>0, <2>2, <2>4 DEF ListTypes
<1>7. ASSUME NEW n \in DOMAIN listFlight, Listed!Serve(n) PROVE ListInv' /\ [Listed!TurnsWithinFilters]_listed
  <2>1. PICK s \in {"ok", "failed"} : listFlight' = [listFlight EXCEPT ![n].answer = s]
    BY <1>7 DEF Listed!Serve
  <2>2. UNCHANGED <<history, searchTimer, listAsked, reports, order>>
    BY <1>7 DEF Listed!Serve
  <2>3. /\ DOMAIN listFlight' = DOMAIN listFlight /\ listFlight'[n] = [of |-> listFlight[n].of, answer |-> s]
        /\ \A m \in DOMAIN listFlight : m # n => listFlight'[m] = listFlight[m]
    BY <1>0, <2>1 DEF ListTypes
  <2>4. ListTypes'
    BY <1>0, <2>2, <2>3 DEF ListTypes
  <2> QED BY <2>2, <2>3, <2>4 DEF ListInv, Listed!Current
<1>8. ASSUME NEW n \in DOMAIN listFlight, Listed!Answered(n) PROVE ListInv' /\ [Listed!TurnsWithinFilters]_listed
  <2>1. /\ DOMAIN listFlight' = DOMAIN listFlight \ {n}
        /\ \A m \in DOMAIN listFlight' : listFlight'[m] = listFlight[m]
        /\ UNCHANGED <<history, searchTimer, listAsked>>
    BY <1>8 DEF Listed!Answered
  <2>2. n \in 1..listAsked.number
    BY <1>0 DEF ListTypes
  <2> DEFINE late == order.overtaken \/ n < reports.number
  <2>3. CASE /\ reports' = [status |-> "succeeded", of |-> listFlight[n].of, number |-> n]
             /\ order' = [order EXCEPT !.overtaken = late]
    <3>1. order'.overtaken = late /\ order' = [overtaken |-> order'.overtaken, failed |-> order'.failed]
          /\ order'.failed = order.failed
      BY <1>0, <2>3 DEF ListTypes
    <3>2. ListTypes'
      BY <1>0, <2>1, <2>2, <2>3, <3>1 DEF ListTypes
    <3>3. ASSUME n # listAsked.number, listAsked.number \notin DOMAIN listFlight, ~order.overtaken, ~order.failed
          PROVE  late
      BY <1>0, <2>2, <3>3 DEF ListInv, ListTypes
    <3>4. ASSUME n = listAsked.number PROVE reports'.number = n /\ reports'.of = Listed!Current
      BY <2>3, <3>4 DEF ListInv
    <3>5. Listed!Current' = Listed!Current
      BY <2>1 DEF Listed!Current
    <3>6. order.overtaken => late
      OBVIOUS
    <3> HIDE DEF late
    <3>7. listAsked'.number \notin DOMAIN listFlight' /\ ~order'.overtaken /\ ~order'.failed => n = listAsked.number
      BY <2>1, <3>1, <3>3, <3>6
    <3> QED BY <2>1, <3>2, <3>4, <3>5, <3>7 DEF ListInv
  <2>4. CASE reports' = [reports EXCEPT !.status = "failed"] /\ order' = [order EXCEPT !.failed = TRUE]
    <3>1. order'.failed /\ order' = [overtaken |-> order'.overtaken, failed |-> order'.failed]
      BY <1>0, <2>4 DEF ListTypes
    <3>2. /\ reports' = [status |-> reports'.status, of |-> reports'.of, number |-> reports'.number]
          /\ reports'.number = reports.number
      BY <1>0, <2>4 DEF ListTypes
    <3>3. ListTypes'
      BY <1>0, <2>1, <3>1, <3>2 DEF ListTypes
    <3> QED BY <2>1, <3>1, <3>3 DEF ListInv, Listed!Current
  <2> QED BY <1>8, <2>1, <2>3, <2>4 DEF Listed!Answered
<1> QED BY <1>1, <1>2, <1>3, <1>4, <1>5, <1>6, <1>7, <1>8 DEF Listed!Next, Listed!Answers

LEMMA ListKept == Listed!Spec => []ListInv
<1>1. Listed!Init => ListInv
  <2> SUFFICES ASSUME Listed!Init PROVE ListInv
    OBVIOUS
  <2>1. Listed!First \in Listed!Address /\ Unset \in ListText
    BY ListAssumption DEF Listed!First, Listed!Address, Listed!FilterAssumption, Listed!BoundAssumption
  <2>2. /\ history = <<Listed!First>> /\ Listed!Current = Listed!First /\ Len(history) = 1
        /\ history \in Seq(Listed!Address)
    BY <2>1 DEF Listed!Init, Listed!Current
  <2> QED BY <2>1, <2>2 DEF Listed!Init, ListInv, ListTypes, Listed!NoTimer
<1> QED BY <1>1, ListStep, PTL DEF Listed!Spec, Listed!vars, listed

-----------------------------------------------------------------------------
(* The page that polls for a classification.                                   *)

PollTypes ==
  /\ pending \in BOOLEAN
  /\ effect = [timer |-> effect.timer, spent |-> effect.spent, inFlight |-> effect.inFlight, stopped |-> effect.stopped]
  /\ effect.inFlight \in BOOLEAN /\ effect.stopped \in BOOLEAN /\ effect.timer \in 0..Poll!Off
  /\ \A n \in DOMAIN pollFlight : pollFlight[n] = [by |-> pollFlight[n].by, answer |-> pollFlight[n].answer]

\* The effect that asked sets no timer before the answer; only of a pending report one runs.
PollInv ==
  /\ PollTypes
  /\ \A n \in DOMAIN pollFlight : pollFlight[n].by = "effect" => effect.inFlight
  /\ \A m, n \in DOMAIN pollFlight : pollFlight[m].by = "effect" /\ pollFlight[n].by = "effect" => m = n
  /\ effect.inFlight \/ effect.stopped => effect.timer = Poll!Off
  /\ ~effect.stopped => pending
  /\ StallOfThisRound

LEMMA PollTimes ==
  LimitMs \in Nat /\ Poll!Off = LimitMs + 1 /\ IntervalMs \in 0..Poll!Off /\ Poll!Off \in 0..Poll!Off
BY PollingAssumption DEF Poll!TimeAssumption, Poll!Off

LEMMA PollAnswered ==
  ASSUME PollInv, NEW n \in DOMAIN pollFlight, Poll!Answered(n)
  PROVE  PollInv'
<1> DEFINE a == pollFlight[n].answer
           now == IF a = "failed" THEN pending ELSE a = "pending"
           rest == [m \in DOMAIN pollFlight \ {n} |-> pollFlight[m]]
<1>0. PollTypes
  BY DEF PollInv
<1>1. now \in BOOLEAN /\ pending' = now
  BY <1>0 DEF PollTypes, Poll!Answered
<1> USE DEF StallOfThisRound, Poll!StallOfThisRound
<1>2. CASE now # pending
  <2>1. ~stalled' /\ pollFlight' = Poll!Replaced(rest) /\ effect' = IF now THEN Poll!Started ELSE Poll!NoEffect
    BY <1>2 DEF Poll!Answered, Poll!OldStall
  <2>2. \A m \in DOMAIN pollFlight' : pollFlight'[m].by # "effect"
                                   /\ pollFlight'[m] = [by |-> pollFlight'[m].by, answer |-> pollFlight'[m].answer]
    BY <1>0, <2>1 DEF Poll!Replaced, PollTypes
  <2>3. effect' = IF pending' THEN Poll!Started ELSE Poll!NoEffect
    BY <1>1, <2>1
  <2>4. /\ effect'.timer \in {IntervalMs, Poll!Off} /\ ~effect'.inFlight /\ (effect'.stopped => effect'.timer = Poll!Off)
        /\ effect' = [timer |-> effect'.timer, spent |-> effect'.spent, inFlight |-> effect'.inFlight,
                       stopped |-> effect'.stopped]
        /\ effect'.inFlight \in BOOLEAN /\ effect'.stopped \in BOOLEAN /\ effect'.stopped = ~pending'
    BY <1>1, <2>3 DEF Poll!Started, Poll!NoEffect
  <2>5. pending' \in BOOLEAN
    BY <1>1
  <2>6. effect'.timer \in 0..Poll!Off
    BY <2>4, PollTimes
  <2> HIDE DEF a, now, rest
  <2>7. PollTypes'
    BY <2>2, <2>4, <2>5, <2>6 DEF PollTypes, Poll!Off
  <2> QED BY <2>1, <2>2, <2>4, <2>5, <2>7 DEF PollInv, Poll!Off
<1>3. CASE now = pending
  <2>1. /\ UNCHANGED <<pending, stalled>> /\ pollFlight' = rest
        /\ effect' = IF pollFlight[n].by = "effect" THEN Poll!Schedule(effect) ELSE effect
    BY <1>3 DEF Poll!Answered, Poll!OldStall
  <2>2. DOMAIN pollFlight' = DOMAIN pollFlight \ {n} /\ \A m \in DOMAIN pollFlight' : pollFlight'[m] = pollFlight[m]
    BY <2>1
  <2>3. CASE pollFlight[n].by = "effect"
    <3>1. /\ effect' = [timer |-> effect'.timer, spent |-> effect'.spent, inFlight |-> effect'.inFlight,
                        stopped |-> effect'.stopped]
          /\ effect'.inFlight = FALSE /\ effect'.stopped = effect.stopped /\ effect'.spent = effect.spent
          /\ effect'.timer = (IF effect.stopped THEN Poll!Off ELSE IntervalMs)
      BY <1>0, <2>1, <2>3 DEF PollTypes, Poll!Schedule
    <3>2. effect'.timer \in 0..Poll!Off
      BY <3>1, PollTimes
    <3>3. \A m \in DOMAIN pollFlight' : pollFlight'[m] = [by |-> pollFlight'[m].by, answer |-> pollFlight'[m].answer]
      BY <1>0, <2>2 DEF PollTypes
    <3>4. pending' \in BOOLEAN /\ effect'.inFlight \in BOOLEAN /\ effect'.stopped \in BOOLEAN
      BY <1>0, <2>1, <3>1 DEF PollTypes
    <3>5. \A m \in DOMAIN pollFlight' : pollFlight'[m].by # "effect"
      BY <2>2, <2>3 DEF PollInv
    <3> HIDE DEF a, now, rest
    <3>6. PollTypes'
      BY <3>1, <3>2, <3>3, <3>4 DEF PollTypes, Poll!Off
    <3> QED BY <2>1, <3>1, <3>5, <3>6 DEF PollInv, Poll!Off
  <2>4. CASE pollFlight[n].by # "effect"
    BY <1>0, <2>1, <2>2, <2>4 DEF PollInv, PollTypes
  <2> QED BY <2>3, <2>4
<1> QED BY <1>2, <1>3

LEMMA PollStep == PollInv /\ [Poll!Next]_polling => PollInv'
<1> SUFFICES ASSUME PollInv, [Poll!Next]_polling PROVE PollInv'
  OBVIOUS
<1>0. PollTypes
  BY DEF PollInv
<1> USE DEF StallOfThisRound, Poll!StallOfThisRound
<1>1. CASE UNCHANGED polling
  BY <1>0, <1>1 DEF polling, PollInv, PollTypes
<1>2. CASE Poll!TimerFires
  <2>1. effect.timer = 0 /\ effect.timer # Poll!Off /\ UNCHANGED <<pending, stalled>>
    BY <1>2, PollTimes DEF Poll!TimerFires
  <2>2. ~effect.inFlight /\ ~effect.stopped /\ ~stalled /\ \A m \in DOMAIN pollFlight : pollFlight[m].by # "effect"
    BY <2>1 DEF PollInv
  <2>3. CASE Poll!Ask("effect") /\ effect' = [effect EXCEPT !.timer = Poll!Off, !.inFlight = TRUE]
    <3> DEFINE k == Poll!Free
    <3>1. /\ DOMAIN pollFlight' = DOMAIN pollFlight \cup {k}
          /\ \A m \in DOMAIN pollFlight' : pollFlight'[m] = IF m = k THEN [by |-> "effect", answer |-> Poll!Unread] ELSE pollFlight[m]
      BY <2>3 DEF Poll!Ask
    <3> HIDE DEF k
    <3>2. /\ effect' = [timer |-> Poll!Off, spent |-> effect.spent, inFlight |-> TRUE, stopped |-> effect.stopped]
      BY <1>0, <2>3 DEF PollTypes
    <3>3. \A m \in DOMAIN pollFlight' : pollFlight'[m] = [by |-> pollFlight'[m].by, answer |-> pollFlight'[m].answer]
      BY <1>0, <3>1 DEF PollTypes
    <3>4. PollTypes'
      BY <1>0, <2>1, <3>2, <3>3, PollTimes DEF PollTypes
    <3>5. \A m \in DOMAIN pollFlight' : pollFlight'[m].by = "effect" => m = k
      BY <2>2, <3>1
    <3> QED BY <2>1, <2>2, <3>2, <3>4, <3>5 DEF PollInv
  <2>4. CASE effect' = Poll!Schedule(effect) /\ UNCHANGED pollFlight
    <3>1. effect' = [timer |-> IntervalMs, spent |-> effect.spent, inFlight |-> FALSE, stopped |-> FALSE]
      BY <1>0, <2>2, <2>4 DEF PollTypes, Poll!Schedule
    <3> QED BY <1>0, <2>1, <2>2, <2>4, <3>1, PollTimes DEF PollInv, PollTypes
  <2> QED BY <1>2, <2>3, <2>4 DEF Poll!TimerFires
<1>3. CASE Poll!DeadlineFires
  <2>1. /\ ~effect.stopped /\ effect.spent = LimitMs /\ effect' = [effect EXCEPT !.stopped = TRUE, !.timer = Poll!Off]
        /\ UNCHANGED <<pending, pollFlight>>
    BY <1>3 DEF Poll!DeadlineFires, Poll!LimitReached, Poll!Deadline
  <2>2. effect' = [timer |-> Poll!Off, spent |-> LimitMs, inFlight |-> effect.inFlight, stopped |-> TRUE] /\ pending
    BY <1>0, <2>1 DEF PollTypes, PollInv
  <2>3. PollTypes'
    BY <1>0, <2>1, <2>2, PollTimes DEF PollTypes
  <2> QED BY <1>3, <2>1, <2>2, <2>3 DEF PollInv, Poll!DeadlineFires
<1>4. CASE Poll!TurnVisible
  <2>1. /\ UNCHANGED <<pending, stalled, pollFlight>>
        /\ effect' = effect \/ (effect' = [effect EXCEPT !.timer = IntervalMs] /\ ~effect.stopped /\ ~effect.inFlight)
    BY <1>4 DEF Poll!TurnVisible, Poll!OnVisible, Poll!Idle
  <2>2. CASE effect' = effect
    BY <1>0, <2>1, <2>2 DEF PollInv, PollTypes
  <2>3. CASE effect' = [effect EXCEPT !.timer = IntervalMs] /\ ~effect.stopped /\ ~effect.inFlight
    <3>1. effect' = [timer |-> IntervalMs, spent |-> effect.spent, inFlight |-> FALSE, stopped |-> FALSE]
      BY <1>0, <2>3 DEF PollTypes
    <3> QED BY <1>0, <2>1, <2>3, <3>1, PollTimes DEF PollInv, PollTypes
  <2> QED BY <2>1, <2>2, <2>3
<1>5. CASE Poll!Tick
  <2> DEFINE left == IF effect.timer = Poll!Off THEN Poll!Off ELSE effect.timer - 1
             spent == effect.spent + 1
  <2>1. /\ ~effect.stopped /\ effect.timer # 0 /\ UNCHANGED <<pending, stalled, pollFlight>>
        /\ effect' = [effect EXCEPT !.spent = spent, !.timer = left]
    BY <1>5 DEF Poll!Tick
  <2>2. left \in 0..Poll!Off /\ (effect.timer = Poll!Off => left = Poll!Off)
    BY <1>0, <2>1, PollTimes DEF PollTypes
  <2> HIDE DEF left, spent
  <2>3. effect' = [timer |-> left, spent |-> spent, inFlight |-> effect.inFlight, stopped |-> effect.stopped]
    BY <1>0, <2>1 DEF PollTypes
  <2>4. effect'.timer = left /\ effect'.inFlight = effect.inFlight /\ effect'.stopped = effect.stopped
    BY <2>3
  <2>5. PollTypes'
    BY <1>0, <2>1, <2>2, <2>3 DEF PollTypes
  <2> QED BY <2>1, <2>2, <2>4, <2>5 DEF PollInv
<1>6. CASE Poll!Refresh
  <2> DEFINE older == Poll!Replaced(pollFlight)
  <2>1. /\ pending /\ UNCHANGED pending /\ ~stalled' /\ effect' = Poll!Started
        /\ \A m \in DOMAIN pollFlight' : \/ pollFlight'[m] = [by |-> "reader", answer |-> Poll!Unread]
                                         \/ m \in DOMAIN pollFlight /\ pollFlight'[m] = older[m]
    BY <1>6 DEF Poll!Refresh
  <2>2. \A m \in DOMAIN pollFlight : older[m].by # "effect" /\ older[m] = [by |-> older[m].by, answer |-> older[m].answer]
    BY <1>0 DEF PollTypes, Poll!Replaced
  <2> HIDE DEF older
  <2>3. ASSUME NEW m \in DOMAIN pollFlight'
        PROVE  /\ pollFlight'[m].by # "effect"
               /\ pollFlight'[m] = [by |-> pollFlight'[m].by, answer |-> pollFlight'[m].answer]
    <3>1. CASE pollFlight'[m] = [by |-> "reader", answer |-> Poll!Unread]
      BY <3>1
    <3>2. CASE m \in DOMAIN pollFlight /\ pollFlight'[m] = older[m]
      BY <2>2, <3>2
    <3> QED BY <2>1, <3>1, <3>2
  <2> QED BY <1>0, <2>1, <2>3, PollTimes DEF PollInv, PollTypes, Poll!Started
<1>7. CASE Poll!Reload
  <2>1. /\ UNCHANGED <<pending, effect, stalled>>
        /\ \A m \in DOMAIN pollFlight' : \/ pollFlight'[m] = [by |-> "reader", answer |-> Poll!Unread]
                                         \/ m \in DOMAIN pollFlight /\ pollFlight'[m] = pollFlight[m]
    BY <1>7 DEF Poll!Reload, Poll!Ask
  <2>2. \A m \in DOMAIN pollFlight' : /\ pollFlight'[m] = [by |-> pollFlight'[m].by, answer |-> pollFlight'[m].answer]
                                     /\ pollFlight'[m].by = "effect" => m \in DOMAIN pollFlight /\ pollFlight[m].by = "effect"
    BY <1>0, <2>1 DEF PollTypes
  <2> QED BY <1>0, <2>1, <2>2 DEF PollInv, PollTypes
<1>8. CASE Poll!ServerChanges
  BY <1>0, <1>8 DEF Poll!ServerChanges, PollInv, PollTypes
<1>9. ASSUME NEW n \in DOMAIN pollFlight, Poll!Serve(n) PROVE PollInv'
  <2>1. PICK a : pollFlight' = [pollFlight EXCEPT ![n].answer = a] /\ UNCHANGED <<pending, effect, stalled>>
    BY <1>9 DEF Poll!Serve
  <2>2. /\ DOMAIN pollFlight' = DOMAIN pollFlight /\ pollFlight'[n] = [by |-> pollFlight[n].by, answer |-> a]
        /\ \A m \in DOMAIN pollFlight : m # n => pollFlight'[m] = pollFlight[m]
    BY <1>0, <2>1 DEF PollTypes
  <2>3. PollTypes'
    BY <1>0, <2>1, <2>2 DEF PollTypes
  <2>4. \A m \in DOMAIN pollFlight' : pollFlight'[m].by = pollFlight[m].by
    BY <2>2
  <2> QED BY <2>1, <2>2, <2>3, <2>4 DEF PollInv
<1> QED BY <1>1, <1>2, <1>3, <1>4, <1>5, <1>6, <1>7, <1>8, <1>9, PollAnswered DEF Poll!Next

LEMMA PollKept == Poll!Spec => []PollInv
<1>1. Poll!Init => PollInv
  BY PollTimes DEF Poll!Init, Poll!Started, PollInv, PollTypes, StallOfThisRound, Poll!StallOfThisRound
<1> QED BY <1>1, PollStep, PTL DEF Poll!Spec, Poll!vars, polling

LEMMA PollingIsFit == PollInv => PollingFits
<1> SUFFICES ASSUME PollInv PROVE PollingFits
  OBVIOUS
<1> DEFINE B == Poll!By({"effect"})
<1>1. B = {} \/ \E n : B = {n}
  BY DEF PollInv, Poll!By
<1>2. OneRefreshPerRound
  <2>1. Poll!Cardinality(B) = Cardinality(B)
    BY DEF Poll!Cardinality, Cardinality
  <2> HIDE DEF B
  <2>2. CASE B = {}
    <3>1. Cardinality(B) = 0
      BY <2>2, FS_EmptySet
    <3> QED BY <2>1, <3>1 DEF OneRefreshPerRound, Poll!OneRefreshPerRound, B
  <2>3. ASSUME NEW n, B = {n} PROVE OneRefreshPerRound
    <3>1. Cardinality(B) = 1
      BY <2>3, FS_Singleton
    <3> QED BY <2>1, <3>1 DEF OneRefreshPerRound, Poll!OneRefreshPerRound, B
  <2> QED BY <1>1, <2>2, <2>3
<1>3. StalledIsQuiet
  BY DEF PollInv, StallOfThisRound, Poll!StallOfThisRound, StalledIsQuiet, Poll!StalledIsQuiet
<1> QED BY <1>2, <1>3 DEF PollingFits, PollInv

-----------------------------------------------------------------------------
(* The page of a report, whoever sees it.                                      *)

CONSTANTS Viewer, PageText, MaxPageVersion
Page == INSTANCE ReportPage WITH
  flight <- pageFlight, Text <- PageText, MaxVersion <- MaxPageVersion

\* A status request has the version its form was chosen at; an edit that tells a description was
\* given it by the owner, or another one was shown under its form.
Asked(r) ==
  /\ r = [kind |-> r.kind, answer |-> r.answer, report |-> r.report, expected |-> r.expected, told |-> r.told,
          text |-> r.text, moved |-> r.moved, touched |-> r.touched, located |-> r.located, at |-> r.at, who |-> r.who]
  /\ r.kind = "status" => r.at = r.expected
  /\ r.kind = "edit" => r.touched \/ r.moved \/ ~r.told
AllAsked(requests) == \A n \in DOMAIN requests : Asked(requests[n])

\* What is chosen is chosen at the version shown, and an open form that nothing happened to has the text shown.
PageInv ==
  /\ AllAsked(pageFlight)
  /\ editor = [open |-> editor.open, text |-> editor.text, touched |-> editor.touched, located |-> editor.located,
               moved |-> editor.moved]
  /\ draft.chosen => draft.at = current.version
  /\ editor.open => editor.touched \/ editor.moved \/ editor.text = current.text
  /\ flags = [blind |-> FALSE, reverted |-> FALSE, wiped |-> FALSE]

LEMMA PageWith == ASSUME NEW f, AllAsked(f), NEW r, Asked(r) PROVE AllAsked(Page!With(f, r))
<1>1. PICK n : Page!With(f, r) = [k \in DOMAIN f \cup {n} |-> IF k = n THEN r ELSE f[k]]
  BY DEF Page!With
<1> QED BY <1>1 DEF AllAsked

LEMMA PageSend == ASSUME PageInv, NEW r, Asked(r), Page!Send(r) PROVE AllAsked(pageFlight')
BY PageWith DEF PageInv, Page!Send

LEMMA PageKeeps ==
  ASSUME NEW s, Asked(s), NEW b
  PROVE  /\ Asked([s EXCEPT !.answer = b]) /\ Asked([s EXCEPT !.report = b]) /\ Asked([s EXCEPT !.who = b])
         /\ b = s.expected => Asked([s EXCEPT !.at = b])
BY DEF Asked

LEMMA PageRequest == ASSUME NEW kind PROVE Asked(Page!Request(kind)) /\ Page!Request(kind).expected = Page!Expected(kind)
BY DEF Page!Request, Asked

LEMMA PageEdit ==
  ASSUME NEW s, Asked(s), NEW tells, NEW text, NEW touched, NEW located, NEW moved, tells => touched \/ moved,
         NEW r, r = [s EXCEPT !.told = tells, !.text = text, !.touched = touched, !.located = located, !.moved = moved]
  PROVE  Asked(r)
<1>1. r = [kind |-> s.kind, answer |-> s.answer, report |-> s.report, expected |-> s.expected, told |-> tells,
           text |-> text, moved |-> moved, touched |-> touched, located |-> located, at |-> s.at, who |-> s.who]
  BY DEF Asked
<1>2. r = [kind |-> r.kind, answer |-> r.answer, report |-> r.report, expected |-> r.expected, told |-> r.told,
           text |-> r.text, moved |-> r.moved, touched |-> r.touched, located |-> r.located, at |-> r.at, who |-> r.who]
  BY <1>1
<1>3. r.kind = s.kind /\ r.at = s.at /\ r.expected = s.expected /\ r.told = tells /\ r.touched = touched /\ r.moved = moved
  BY <1>1
<1> QED BY <1>2, <1>3 DEF Asked

\* The server answers: it keeps the request, and what it accepts is as its sender meant it.
LEMMA PageServe == ASSUME PageInv, NEW n \in DOMAIN pageFlight, Page!Serve(n) PROVE PageInv'
<1> DEFINE r == pageFlight[n]
<1>1. PICK a, b : pageFlight' = [pageFlight EXCEPT ![n].answer = a] \/ pageFlight' = [pageFlight EXCEPT ![n].answer = a, ![n].report = b]
  BY ZenonT(60) DEF Page!Serve
<1>2. Asked(r)
  BY DEF PageInv, AllAsked
<1>3. AllAsked(pageFlight')
  <2>1. DOMAIN pageFlight' = DOMAIN pageFlight /\ \A m \in DOMAIN pageFlight : m # n => pageFlight'[m] = pageFlight[m]
    BY <1>1
  <2>2. pageFlight'[n] = [r EXCEPT !.answer = a] \/ pageFlight'[n] = [r EXCEPT !.answer = a, !.report = b]
    BY <1>1
  <2>3. Asked(pageFlight'[n])
    <3> HIDE DEF r
    <3>1. Asked([r EXCEPT !.answer = a])
      BY <1>2, PageKeeps
    <3>2. Asked([[r EXCEPT !.answer = a] EXCEPT !.report = b])
      BY <3>1, PageKeeps
    <3> QED BY <2>2, <3>1, <3>2
  <2> QED BY <2>1, <2>3 DEF AllAsked, PageInv
<1>4. UNCHANGED <<current, editor, draft>>
  BY DEF Page!Serve, Page!panels
<1>5. flags' = [blind |-> FALSE, reverted |-> FALSE, wiped |-> FALSE]
  <2>1. CASE UNCHANGED flags
    BY <2>1 DEF PageInv
  <2> DEFINE blind == flags.blind \/ (r.kind = "status" /\ r.at # r.expected)
             reverted == flags.reverted \/ (r.kind = "edit" /\ report'.text # report.text /\ ~r.touched /\ ~r.moved)
  <2>2. CASE report' = Page!Written(r) /\ flags' = [flags EXCEPT !.blind = blind, !.reverted = reverted]
    <3>1. blind = FALSE
      BY <1>2 DEF PageInv, Asked
    <3>2. reverted = FALSE
      <4>1. CASE r.kind = "edit" /\ ~r.touched /\ ~r.moved
        <5>1. ~r.told
          BY <1>2, <4>1 DEF Asked
        <5>2. report'.text = report.text
          BY <2>2, <5>1 DEF Page!Written
        <5> QED BY <5>2 DEF PageInv
      <4>2. CASE ~(r.kind = "edit" /\ ~r.touched /\ ~r.moved)
        BY <4>2 DEF PageInv
      <4> QED BY <4>1, <4>2
    <3> HIDE DEF blind, reverted
    <3>3. flags' = [flags EXCEPT !.blind = FALSE, !.reverted = FALSE]
      BY <2>2, <3>1, <3>2
    <3> QED BY <3>3 DEF PageInv
  <2> QED BY <2>1, <2>2 DEF Page!Serve
<1> QED BY <1>3, <1>4, <1>5 DEF PageInv

\* An answer arrives: another version starts the staff's form anew, another text is noted under the owner's.
LEMMA PageAnswered == ASSUME PageInv, NEW n \in DOMAIN pageFlight, Page!Answered(n) PROVE PageInv'
<1> DEFINE r == pageFlight[n]
           rest == [m \in DOMAIN pageFlight \ {n} |-> pageFlight[m]]
           reload == Page!Request("fetch")
<1>1. AllAsked(pageFlight')
  <2>1. AllAsked(rest)
    BY DEF PageInv, AllAsked
  <2>2. Asked(reload)
    BY PageRequest
  <2>3. pageFlight' = rest \/ pageFlight' = Page!With(rest, reload)
    BY DEF Page!Answered
  <2> HIDE DEF rest, reload
  <2> QED BY <2>1, <2>2, <2>3, PageWith
<1>2. draft'.chosen => draft'.at = current'.version
  <2>1. CASE r.answer = "ok"
    BY <2>1 DEF PageInv, Page!Answered, Page!Show, Page!Remounted, Page!NoDraft
  <2>2. CASE r.answer # "ok"
    BY <2>2 DEF PageInv, Page!Answered
  <2> QED BY <2>1, <2>2
<1> DEFINE moved == editor.moved \/ (r.answer = "ok" /\ r.report.text # current.text)
<1>3. \/ editor' = Page!Closed(editor.text)
      \/ editor' = [editor EXCEPT !.moved = moved]
  BY DEF Page!Answered
<1>4. \/ current' = current
      \/ r.answer = "ok" /\ current' = r.report
  BY DEF Page!Answered, Page!Show
<1>5. moved \/ current'.text = current.text
  BY <1>4
<1>6. moved \in BOOLEAN /\ (editor.moved => moved)
  OBVIOUS
<1>7. flags' = [blind |-> FALSE, reverted |-> FALSE, wiped |-> FALSE]
  <2> DEFINE wiped == flags.wiped \/ (r.kind = "assign" /\ r.answer = "ok" /\ target.late /\ target' # target)
  <2>1. flags' = [flags EXCEPT !.wiped = wiped] /\ target' = Page!TargetAfter(r)
    BY DEF Page!Answered
  <2>2. wiped = FALSE
    BY <2>1 DEF PageInv, Page!TargetAfter
  <2> HIDE DEF wiped
  <2>3. flags' = [flags EXCEPT !.wiped = FALSE]
    BY <2>1, <2>2
  <2> QED BY <2>3 DEF PageInv
<1> HIDE DEF moved
<1>8. /\ editor' = [open |-> editor'.open, text |-> editor'.text, touched |-> editor'.touched,
                    located |-> editor'.located, moved |-> editor'.moved]
      /\ editor'.open => editor'.touched \/ editor'.moved \/ editor'.text = current'.text
  <2>1. CASE editor' = Page!Closed(editor.text)
    BY <2>1 DEF Page!Closed
  <2>2. CASE editor' = [editor EXCEPT !.moved = moved]
    <3>1. editor' = [open |-> editor.open, text |-> editor.text, touched |-> editor.touched, located |-> editor.located,
                     moved |-> moved]
      BY <2>2 DEF PageInv
    <3> QED BY <1>5, <1>6, <3>1 DEF PageInv
  <2> QED BY <1>3, <2>1, <2>2
<1> HIDE DEF r, rest, reload
<1> QED BY <1>1, <1>2, <1>7, <1>8 DEF PageInv

LEMMA PageStep == PageInv /\ [Page!Next]_page => PageInv'
<1> SUFFICES ASSUME PageInv, [Page!Next]_page PROVE PageInv'
  OBVIOUS
<1>1. CASE UNCHANGED page
  BY <1>1 DEF page, PageInv, AllAsked
<1>2. CASE Page!Reload
  <2>1. AllAsked(pageFlight')
    <3>1. Asked(Page!Request("fetch"))
      BY PageRequest
    <3> QED BY <1>2, <3>1, PageSend DEF Page!Reload
  <2> QED BY <1>2, <2>1 DEF Page!Reload, Page!panels, PageInv
<1>3. CASE Page!OthersChange
  BY <1>3 DEF Page!OthersChange, Page!panels, PageInv, AllAsked
<1>4. CASE Page!OpenEditor
  <2>1. editor' = [open |-> TRUE, text |-> current.text, touched |-> FALSE, located |-> FALSE, moved |-> FALSE]
        /\ UNCHANGED <<current, pageFlight, draft, flags>>
    BY <1>4 DEF Page!OpenEditor, Page!Opened, Page!Closed
  <2> QED BY <2>1 DEF PageInv, AllAsked
<1>5. CASE Page!CloseEditor
  <2>1. editor' = [open |-> FALSE, text |-> editor.text, touched |-> FALSE, located |-> FALSE, moved |-> FALSE]
        /\ UNCHANGED <<current, pageFlight, draft, flags>>
    BY <1>5 DEF Page!CloseEditor, Page!Closed
  <2> QED BY <2>1 DEF PageInv, AllAsked
<1>6. CASE Page!Locate
  <2>1. editor' = [open |-> editor.open, text |-> editor.text, touched |-> editor.touched, located |-> TRUE, moved |-> editor.moved]
        /\ UNCHANGED <<current, pageFlight, draft, flags>>
    BY <1>6 DEF Page!Locate, PageInv
  <2> QED BY <2>1 DEF PageInv, AllAsked
<1>7. CASE Page!Save
  <2> DEFINE r == [Page!Request("edit") EXCEPT !.told = Page!Tells, !.text = editor.text, !.touched = editor.touched,
                                               !.located = editor.located, !.moved = editor.moved]
  <2>1. Page!Tells => editor.touched \/ editor.moved
    BY <1>7 DEF Page!Save, Page!Tells, PageInv
  <2>2. Asked(r)
    <3> DEFINE tells == Page!Tells
    <3>1. tells => editor.touched \/ editor.moved
      BY <2>1
    <3>2. Asked(Page!Request("edit"))
      BY PageRequest
    <3> QED BY <3>1, <3>2, PageEdit
  <2> HIDE DEF r
  <2>3. AllAsked(pageFlight')
    <3>1. Page!Send(r)
      BY <1>7 DEF Page!Save, r
    <3> QED BY <2>2, <3>1, PageSend
  <2> QED BY <1>7, <2>3 DEF Page!Save, Page!panels, PageInv
<1>8. CASE Page!Choose
  <2>1. draft' = [chosen |-> TRUE, at |-> current.version] /\ UNCHANGED <<current, pageFlight, editor, flags>>
    BY <1>8 DEF Page!Choose
  <2> QED BY <2>1 DEF PageInv, AllAsked
<1>9. CASE Page!Submit
  <2> DEFINE r == [Page!Request("status") EXCEPT !.at = draft.at]
  <2>1. Asked(r)
    <3>1. draft.at = Page!Expected("status")
      BY <1>9 DEF Page!Submit, PageInv, Page!Expected
    <3> QED BY <3>1, PageRequest, PageKeeps
  <2>2. Page!Send(r)
    BY <1>9 DEF Page!Submit
  <2> HIDE DEF r
  <2>3. AllAsked(pageFlight')
    BY <2>1, <2>2, PageSend
  <2> QED BY <1>9, <2>3 DEF Page!Submit, Page!panels, PageInv
<1>10. CASE Page!Assign \/ Page!Unassign
  <2>0. Page!SendTarget
    BY <1>10 DEF Page!Assign, Page!Unassign
  <2> DEFINE r == [Page!Request("assign") EXCEPT !.who = target.who]
  <2>1. Asked(r)
    BY PageRequest, PageKeeps
  <2>2. Page!Send(r)
    BY <2>0 DEF Page!SendTarget
  <2> HIDE DEF r
  <2>3. AllAsked(pageFlight')
    BY <2>1, <2>2, PageSend
  <2> QED BY <2>0, <2>3 DEF Page!SendTarget, PageInv
<1>11. ASSUME NEW t, Page!Write(t) PROVE PageInv'
  <2>1. editor' = [open |-> editor.open, text |-> t, touched |-> TRUE, located |-> editor.located, moved |-> editor.moved]
        /\ UNCHANGED <<current, pageFlight, draft, flags>>
    BY <1>11 DEF Page!Write, PageInv
  <2> QED BY <2>1 DEF PageInv, AllAsked
<1>12. ASSUME NEW s, Page!ChooseTarget(s) PROVE PageInv'
  BY <1>12 DEF Page!ChooseTarget, PageInv, AllAsked
<1> QED BY <1>1, <1>2, <1>3, <1>4, <1>5, <1>6, <1>7, <1>8, <1>9, <1>10, <1>11, <1>12, PageServe, PageAnswered
        DEF Page!Next, Page!Answers

LEMMA PageKept == Page!Spec => []PageInv
<1>1. Page!Init => PageInv
  BY DEF Page!Init, Page!Closed, Page!NoDraft, PageInv, AllAsked
<1> QED BY <1>1, PageStep, PTL DEF Page!Spec, Page!vars, page

LEMMA PageIsFit == PageInv => NotDecidedBlind /\ ChoiceKept /\ UntouchedTextKept
BY DEF PageInv, NotDecidedBlind, StaffPage!NotDecidedBlind, ChoiceKept, StaffPage!ChoiceKept,
       UntouchedTextKept, Owner!UntouchedTextKept

-----------------------------------------------------------------------------
(* Sums over the sizes of photos: Count and Total are additive.  A set of      *)
(* numbers has a least one since the finite sets are well-founded; a sum is    *)
(* built, and compared, from the smallest set on which it could go wrong.      *)

LEMMA LeastNumber ==
  ASSUME NEW T, T \subseteq Nat, T # {}
  PROVE  \E m \in T : \A k \in T : m <= k
<1> DEFINE I == {1..k : k \in T}
<1>1. I \subseteq FiniteSubsetsOf(Nat) /\ I # {}
  <2>1. \A k \in T : 1..k \in SUBSET Nat /\ IsFiniteSet(1..k)
    BY FS_Interval
  <2> QED BY <2>1 DEF FiniteSubsetsOf
<1>2. PICK i \in I : \A j \in I : <<j, i>> \notin StrictSubsetOrdering(Nat)
  <2> HIDE DEF I
  <2> QED BY <1>1, WFMin, FS_StrictSubsetOrderingWellFounded
<1>3. PICK m \in T : i = 1..m
  OBVIOUS
<1>4. ASSUME NEW k \in T, k < m PROVE FALSE
  <2>1. 1..k \in I /\ 1..k \subseteq i /\ m \in i /\ m \notin 1..k
    BY <1>3, <1>4
  <2>2. 1..k \in SUBSET Nat /\ i \in SUBSET Nat
    BY <1>3
  <2> QED BY <1>2, <2>1, <2>2 DEF StrictSubsetOrdering
<1> QED BY <1>4

Pick(s) == CHOOSE x \in s : TRUE
Adds(g, w, s) == IF s = {} THEN 0 ELSE w[Pick(s)] + g[s \ {Pick(s)}]


\* Subsets of n members at most.
Upto(n) == {s \in SUBSET Size : Cardinality(s) <= n}

LEMMA Shrinks == ASSUME IsFiniteSet(Size), NEW n \in Nat, NEW s \in Upto(n), s # {}
  PROVE Pick(s) \in s /\ n # 0 /\ s \ {Pick(s)} \in Upto(n - 1)
<1>1. Pick(s) \in s
  BY DEF Pick
<1>2. IsFiniteSet(s) /\ s \ {Pick(s)} \in SUBSET Size /\ Cardinality(s) \in Nat /\ Cardinality(s) # 0 /\ Cardinality(s) <= n
  BY FS_Subset, FS_CardinalityType, FS_EmptySet DEF Upto
<1>3. Cardinality(s \ {Pick(s)}) = Cardinality(s) - 1
  BY <1>1, <1>2, FS_RemoveElement
<1> QED BY <1>1, <1>2, <1>3 DEF Upto

Partial(n, w) == {g \in [Upto(n) -> Nat] : \A s \in Upto(n) : g[s] = Adds(g, w, s)}

LEMMA PartialFolds == ASSUME IsFiniteSet(Size), NEW w \in [Size -> Nat], NEW n \in Nat PROVE Partial(n, w) # {}
<1> DEFINE T == {k \in Nat : Partial(k, w) = {}}
<1> SUFFICES ASSUME T # {} PROVE FALSE
  OBVIOUS
<1>1. PICK m \in T : \A k \in T : m <= k
  <2> HIDE DEF T
  <2>1. T \subseteq Nat
    BY DEF T
  <2> QED BY <2>1, LeastNumber
<1>2. CASE m = 0
  <2> DEFINE g == [s \in Upto(0) |-> 0]
  <2>1. \A s \in Upto(0) : s = {}
    BY Shrinks
  <2>2. g \in Partial(0, w)
    BY <2>1 DEF Partial, Adds
  <2> QED BY <1>2, <2>2
<1>3. CASE m # 0
  <2>0. Upto(m - 1) \subseteq Upto(m)
    BY <1>3, FS_Subset, FS_CardinalityType DEF Upto
  <2>1. m - 1 \in Nat /\ m - 1 \notin T
    BY <1>1, <1>3
  <2>2. PICK h : h \in Partial(m - 1, w)
    BY <2>1
  <2> DEFINE g == [s \in Upto(m) |-> IF s = {} THEN 0 ELSE w[Pick(s)] + h[s \ {Pick(s)}]]
  <2>3. \A s \in Upto(m) : s # {} => Pick(s) \in Size /\ s \ {Pick(s)} \in Upto(m - 1) /\ s \ {Pick(s)} \in Upto(m)
    <3>1. \A s \in Upto(m) : s # {} => Pick(s) \in s /\ s \ {Pick(s)} \in Upto(m - 1)
      BY Shrinks
    <3> QED BY <2>0, <3>1 DEF Upto
  <2>4. g \in [Upto(m) -> Nat]
    BY <2>2, <2>3 DEF Partial
  <2>5. \A s \in Upto(m - 1) : s \in Upto(m) /\ g[s] = h[s]
    BY <2>0, <2>2 DEF Partial, Adds
  <2>6. \A s \in Upto(m) : g[s] = Adds(g, w, s)
    BY <2>3, <2>5 DEF Adds
  <2>7. g \in Partial(m, w)
    BY <2>4, <2>6 DEF Partial
  <2> QED BY <2>7
<1> QED BY <1>2, <1>3


Solves(g, w) == g = [s \in SUBSET Size |-> Adds(g, w, s)]

LEMMA FoldExists == ASSUME IsFiniteSet(Size), NEW w \in [Size -> Nat]
  PROVE \E g \in [SUBSET Size -> Nat] : Solves(g, w)
<1>1. Upto(Cardinality(Size)) = SUBSET Size /\ Cardinality(Size) \in Nat
  BY FS_Subset, FS_CardinalityType DEF Upto
<1>2. PICK g : g \in Partial(Cardinality(Size), w)
  BY <1>1, PartialFolds
<1>3. g \in [SUBSET Size -> Nat] /\ \A s \in SUBSET Size : g[s] = Adds(g, w, s)
  BY <1>1, <1>2 DEF Partial
<1>4. g = [s \in SUBSET Size |-> Adds(g, w, s)]
  BY <1>3
<1> QED BY <1>3, <1>4 DEF Solves

LEMMA FoldAdds ==
  ASSUME IsFiniteSet(Size), NEW p \in [Size -> Nat], NEW q \in [Size -> Nat], NEW r \in [Size -> Nat],
         \A s \in Size : r[s] = p[s] + q[s],
         NEW f, NEW g, NEW h, Solves(f, p), Solves(g, q), Solves(h, r)
  PROVE \A s \in SUBSET Size : f[s] \in Nat /\ g[s] \in Nat /\ h[s] = f[s] + g[s]
<1> DEFINE Good(s) == f[s] \in Nat /\ g[s] \in Nat /\ h[s] = f[s] + g[s]
<1> DEFINE T == {Cardinality(s) : s \in {t \in SUBSET Size : ~Good(t)}}
<1> SUFFICES ASSUME T # {} PROVE FALSE
  OBVIOUS
<1>1. PICK m \in T : \A k \in T : m <= k
  <2> HIDE DEF T
  <2>1. T \subseteq Nat
    BY FS_Subset, FS_CardinalityType DEF T
  <2> QED BY <2>1, LeastNumber
<1>2. PICK s \in SUBSET Size : ~Good(s) /\ m = Cardinality(s)
  BY <1>1
<1>3. f[s] = Adds(f, p, s) /\ g[s] = Adds(g, q, s) /\ h[s] = Adds(h, r, s)
  BY DEF Solves
<1>4. s # {}
  BY <1>2, <1>3 DEF Adds
<1> DEFINE t == s \ {Pick(s)}
<1>5. t \in SUBSET Size /\ Pick(s) \in Size /\ Cardinality(s) \in Nat /\ Cardinality(t) < Cardinality(s)
  <2>1. Pick(s) \in s
    BY <1>4 DEF Pick
  <2>2. IsFiniteSet(s) /\ Cardinality(s) \in Nat
    BY FS_Subset, FS_CardinalityType
  <2>3. Cardinality(t) = Cardinality(s) - 1
    BY <2>1, <2>2, FS_RemoveElement
  <2> QED BY <2>1, <2>2, <2>3
<1>6. Cardinality(t) \in Nat
  BY <1>5, FS_Subset, FS_CardinalityType
<1>7. Good(t)
  <2> HIDE DEF Good
  <2> SUFFICES ASSUME ~Good(t) PROVE FALSE
    OBVIOUS
  <2>1. Cardinality(t) \in T
    BY <1>5
  <2> QED BY <1>1, <1>2, <1>5, <1>6, <2>1
<1> QED BY <1>2, <1>3, <1>4, <1>5, <1>7 DEF Adds

LEMMA CountFolds ==
  ASSUME IsFiniteSet(Size), NEW p \in [Size -> Nat]
  PROVE  \E g : Solves(g, p) /\ Form!Count(p) = g[Size]
<1> DEFINE g == CHOOSE f : f = [s \in SUBSET Size |-> IF s = {} THEN 0 ELSE p[Pick(s)] + f[s \ {Pick(s)}]]
<1>1. PICK h : Solves(h, p)
  BY FoldExists
<1>2. h = [s \in SUBSET Size |-> IF s = {} THEN 0 ELSE p[Pick(s)] + h[s \ {Pick(s)}]]
  BY <1>1 DEF Solves, Adds
<1>3. g = [s \in SUBSET Size |-> IF s = {} THEN 0 ELSE p[Pick(s)] + g[s \ {Pick(s)}]]
  BY <1>2
<1>4. Solves(g, p)
  BY <1>3 DEF Solves, Adds
<1>5. Form!Count(p) = g[Size]
  BY DEF Form!Count, Form!MapThenFoldSet, Pick
<1> QED BY <1>4, <1>5

LEMMA TotalFolds ==
  ASSUME IsFiniteSet(Size), Size \subseteq Nat, NEW p \in [Size -> Nat]
  PROVE  \E g : Solves(g, [s \in Size |-> s * p[s]]) /\ Form!Total(p) = g[Size]
<1> DEFINE w == [s \in Size |-> s * p[s]]
           g == CHOOSE f : f = [s \in SUBSET Size |-> IF s = {} THEN 0 ELSE Pick(s) * p[Pick(s)] + f[s \ {Pick(s)}]]
<1>0. w \in [Size -> Nat]
  OBVIOUS
<1>1. PICK h : Solves(h, w)
  BY <1>0, FoldExists
<1>2. \A s \in SUBSET Size : s # {} => w[Pick(s)] = Pick(s) * p[Pick(s)]
  BY DEF Pick
<1>3. h = [s \in SUBSET Size |-> IF s = {} THEN 0 ELSE Pick(s) * p[Pick(s)] + h[s \ {Pick(s)}]]
  BY <1>1, <1>2 DEF Solves, Adds
<1>4. g = [s \in SUBSET Size |-> IF s = {} THEN 0 ELSE Pick(s) * p[Pick(s)] + g[s \ {Pick(s)}]]
  BY <1>3
<1>5. Solves(g, w)
  BY <1>2, <1>4 DEF Solves, Adds
<1>6. Form!Total(p) = g[Size]
  BY DEF Form!Total, Form!MapThenFoldSet, Pick
<1> QED BY <1>5, <1>6

LEMMA PhotosAdd ==
  ASSUME IsFiniteSet(Size), Size \subseteq Nat, NEW p \in [Size -> Nat], NEW q \in [Size -> Nat], NEW r \in [Size -> Nat],
         \A s \in Size : r[s] = p[s] + q[s]
  PROVE  /\ Form!Count(p) \in Nat /\ Form!Count(q) \in Nat /\ Form!Count(r) = Form!Count(p) + Form!Count(q)
         /\ Form!Total(p) \in Nat /\ Form!Total(q) \in Nat /\ Form!Total(r) = Form!Total(p) + Form!Total(q)
<1>1. PICK f, g, h : Solves(f, p) /\ Solves(g, q) /\ Solves(h, r)
                  /\ Form!Count(p) = f[Size] /\ Form!Count(q) = g[Size] /\ Form!Count(r) = h[Size]
  <2>1. \A u \in [Size -> Nat] : \E f : Solves(f, u) /\ Form!Count(u) = f[Size]
    BY CountFolds
  <2> QED BY <2>1
<1>2. Form!Count(p) \in Nat /\ Form!Count(q) \in Nat /\ Form!Count(r) = Form!Count(p) + Form!Count(q)
  BY <1>1, FoldAdds
<1> DEFINE W(u) == [s \in Size |-> s * u[s]]
<1>3. PICK i, j, k : Solves(i, W(p)) /\ Solves(j, W(q)) /\ Solves(k, W(r))
                  /\ Form!Total(p) = i[Size] /\ Form!Total(q) = j[Size] /\ Form!Total(r) = k[Size]
  BY TotalFolds
<1>4. W(p) \in [Size -> Nat] /\ W(q) \in [Size -> Nat] /\ W(r) \in [Size -> Nat]
  OBVIOUS
<1>5. \A s \in Size : W(r)[s] = W(p)[s] + W(q)[s]
  <2>1. \A a, b, c \in Nat : a * (b + c) = a * b + a * c
    OBVIOUS
  <2>2. ASSUME NEW s \in Size PROVE s * r[s] = s * p[s] + s * q[s]
    BY <2>1
  <2> QED BY <2>2
<1> HIDE DEF W
<1>6. Form!Total(p) \in Nat /\ Form!Total(q) \in Nat /\ Form!Total(r) = Form!Total(p) + Form!Total(q)
  BY <1>3, <1>4, <1>5, FoldAdds
<1> QED BY <1>2, <1>6

-----------------------------------------------------------------------------
(* The page that files a report.                                               *)

FormInv ==
  /\ location = [address |-> location.address, pair |-> location.pair] /\ PairDescribesAddress
  /\ photos \in [Size -> Nat] /\ PhotosWithinLimits

LEMMA PhotoFacts == IsFiniteSet(Size) /\ Size \subseteq Nat /\ MaxPhotos \in Nat /\ MaxTotal \in Nat
BY FormAssumption DEF Form!SizesAssumption, Form!IsFiniteSet, IsFiniteSet

\* Photos are added only as far as the limits go, and taken away one by one.
LEMMA PhotosKept ==
  ASSUME FormInv, Form!AddPhotos \/ \E s \in Size : Form!RemovePhoto(s)
  PROVE  photos' \in [Size -> Nat] /\ PhotosWithinLimits'
<1> USE PhotoFacts DEF PhotosWithinLimits, Form!PhotosWithinLimits
<1>1. CASE Form!AddPhotos
  <2>1. PICK a \in Size, b \in Size :
          LET files == [s \in Size |-> IF s \in {a, b} THEN 1 ELSE 0]
          IN  Form!Accepted(photos, files) /\ photos' = [s \in Size |-> photos[s] + files[s]]
    BY <1>1 DEF Form!AddPhotos
  <2> DEFINE files == [s \in Size |-> IF s \in {a, b} THEN 1 ELSE 0]
  <2>2. files \in [Size -> Nat] /\ photos \in [Size -> Nat] /\ Form!Accepted(photos, files)
        /\ photos' = [s \in Size |-> photos[s] + files[s]]
    BY <2>1 DEF FormInv
  <2> HIDE DEF files
  <2>3. photos' \in [Size -> Nat] /\ \A s \in Size : photos'[s] = photos[s] + files[s]
    BY <2>2
  <2>4. Form!Count(photos') = Form!Count(photos) + Form!Count(files) /\ Form!Total(photos') = Form!Total(photos) + Form!Total(files)
    BY <2>2, <2>3, PhotosAdd
  <2>5. Form!Count(photos) + Form!Count(files) <= MaxPhotos /\ Form!Total(photos) + Form!Total(files) <= MaxTotal
    BY <2>2 DEF Form!Accepted
  <2> QED BY <2>3, <2>4, <2>5
<1>2. ASSUME NEW s \in Size, Form!RemovePhoto(s) PROVE photos' \in [Size -> Nat] /\ PhotosWithinLimits'
  <2> DEFINE one == [k \in Size |-> IF k = s THEN 1 ELSE 0]
  <2>1. one \in [Size -> Nat] /\ photos \in [Size -> Nat] /\ photos' \in [Size -> Nat]
    BY <1>2 DEF Form!RemovePhoto, FormInv
  <2>2. \A k \in Size : photos[k] = photos'[k] + one[k]
    BY <1>2 DEF Form!RemovePhoto, FormInv
  <2> HIDE DEF one
  <2>3. /\ Form!Count(photos') \in Nat /\ Form!Count(one) \in Nat /\ Form!Count(photos) = Form!Count(photos') + Form!Count(one)
        /\ Form!Total(photos') \in Nat /\ Form!Total(one) \in Nat /\ Form!Total(photos) = Form!Total(photos') + Form!Total(one)
    BY <2>1, <2>2, PhotosAdd
  <2>4. Form!Count(photos) <= MaxPhotos /\ Form!Total(photos) <= MaxTotal
    BY DEF FormInv
  <2> QED BY <2>1, <2>3, <2>4
<1> QED BY <1>1, <1>2

\* The place keeps its pair with its address, whoever is answered in between.
LEMMA PlaceKept ==
  ASSUME FormInv, Form!Next
  PROVE  location' = [address |-> location'.address, pair |-> location'.pair] /\ PairDescribesAddress'
<1> USE DEF PairDescribesAddress, Form!PairDescribesAddress
<1>1. CASE UNCHANGED location
  BY <1>1 DEF FormInv
<1>2. ASSUME NEW t, Form!Type(t) PROVE location' = [address |-> location'.address, pair |-> location'.pair] /\ PairDescribesAddress'
  <2>1. location' = [address |-> Form!Typed(t), pair |-> IF location.pair = Form!Device THEN Form!Device ELSE Form!NoPair]
    BY <1>2 DEF Form!Type, Form!Edited
  <2>2. \A u : location'.pair # Form!PairOf(u)
    BY <2>1 DEF Form!Device, Form!NoPair, Form!PairOf
  <2> QED BY <2>1, <2>2
<1>3. ASSUME NEW t, Form!Choose(t) PROVE location' = [address |-> location'.address, pair |-> location'.pair] /\ PairDescribesAddress'
  <2>1. location' = [address |-> Form!Suggested(t), pair |-> Form!PairOf(t)]
    BY <1>3 DEF Form!Choose
  <2>2. \A u : Form!PairOf(u) = Form!PairOf(t) => u = t
    BY DEF Form!PairOf
  <2> QED BY <2>1, <2>2
<1>4. CASE Form!Remove
  <2>1. location' = [address |-> location.address, pair |-> Form!NoPair]
    BY <1>4 DEF Form!Remove, FormInv
  <2>2. \A u : location'.pair # Form!PairOf(u)
    BY <2>1 DEF Form!NoPair, Form!PairOf
  <2> QED BY <2>1, <2>2
<1>5. ASSUME NEW found, Form!Located(found) PROVE location' = [address |-> location'.address, pair |-> location'.pair] /\ PairDescribesAddress'
  <2>1. location' = [address |-> IF found THEN <<"device", "found">> ELSE Form!Typed(""), pair |-> Form!Device]
    BY <1>5 DEF Form!Located
  <2>2. \A u : location'.pair # Form!PairOf(u)
    BY <2>1 DEF Form!Device, Form!PairOf
  <2> QED BY <2>1, <2>2
<1>6. \/ UNCHANGED location
      \/ (\E t : Form!Type(t)) \/ (\E t : Form!Choose(t)) \/ Form!Remove \/ (\E found : Form!Located(found))
  BY DEF Form!Next, Form!field, Form!UseDevice, Form!AddPhotos, Form!RemovePhoto, Form!Submit, Form!Lookup, Form!LookupEnds,
         Form!Positioned, Form!NotPositioned, Form!Answer
<1> QED BY <1>1, <1>2, <1>3, <1>4, <1>5, <1>6

LEMMA FormKept == Form!Spec => []FormInv
<1>1. Form!Init => FormInv
  <2> SUFFICES ASSUME Form!Init PROVE FormInv
    OBVIOUS
  <2>1. location = [address |-> Form!Typed(""), pair |-> Form!NoPair]
    BY DEF Form!Init, Form!EMPTY_LOCATION
  <2>2. \A u : location.pair # Form!PairOf(u)
    BY <2>1 DEF Form!NoPair, Form!PairOf
  <2>3. photos \in [Size -> Nat] /\ \A s \in Size : photos[s] = photos[s] + photos[s]
    <3>1. photos = [s \in Size |-> 0]
      BY DEF Form!Init
    <3> QED BY <3>1
  <2>4. Form!Count(photos) = 0 /\ Form!Total(photos) = 0
    <3>1. Form!Count(photos) \in Nat /\ Form!Count(photos) = Form!Count(photos) + Form!Count(photos)
      BY <2>3, PhotosAdd, PhotoFacts
    <3>2. Form!Total(photos) \in Nat /\ Form!Total(photos) = Form!Total(photos) + Form!Total(photos)
      BY <2>3, PhotosAdd, PhotoFacts
    <3>3. \A n \in Nat : n = n + n => n = 0
      OBVIOUS
    <3> QED BY <3>1, <3>2, <3>3
  <2>5. PhotosWithinLimits
    BY <2>4, PhotoFacts DEF PhotosWithinLimits, Form!PhotosWithinLimits
  <2> QED BY <2>1, <2>2, <2>3, <2>5 DEF FormInv, PairDescribesAddress, Form!PairDescribesAddress
<1>2. FormInv /\ [Form!Next]_form => FormInv'
  <2> SUFFICES ASSUME FormInv, [Form!Next]_form PROVE FormInv'
    OBVIOUS
  <2>1. CASE UNCHANGED form
    BY <2>1 DEF form, FormInv, PairDescribesAddress, Form!PairDescribesAddress, PhotosWithinLimits, Form!PhotosWithinLimits
  <2>2. CASE Form!Next
    <3>1. UNCHANGED photos \/ Form!AddPhotos \/ \E s \in Size : Form!RemovePhoto(s)
      BY <2>2 DEF Form!Next, Form!Type, Form!Choose, Form!UseDevice, Form!Remove, Form!Submit, Form!Lookup,
         Form!LookupEnds, Form!Positioned, Form!NotPositioned, Form!Located, Form!Answer
    <3>2. photos' \in [Size -> Nat] /\ PhotosWithinLimits'
      BY <3>1, PhotosKept DEF FormInv, PhotosWithinLimits, Form!PhotosWithinLimits
    <3> QED BY <2>2, <3>2, PlaceKept DEF FormInv
  <2> QED BY <2>1, <2>2
<1> QED BY <1>1, <1>2, PTL DEF Form!Spec, Form!vars, form

-----------------------------------------------------------------------------
(* The pages of the client together: each may be open, and none shares state   *)
(* with another.                                                               *)

ListsSpec == Jobs!Spec /\ Users!Spec /\ Listed!Spec
FormsSpec == Poll!Spec /\ Page!Spec /\ Form!Spec

\* The jobs and accounts listed are those of the queue and filters on screen and the own action is seen,
\* the reports are those of the address, and a later page is only of its filters: for any jobs, accounts,
\* filters and pages, with any number of loads under way (JobsPage.jsx:62-106, UsersPage.jsx:42-162,
\* ReportsListPage.jsx:61-80).
THEOREM ListsAlwaysFit == ListsSpec => ListsFit
<1>1. JobsInv => JobsOfQueue /\ SeesOwnAction
  BY DEF JobsInv
<1>2. UsersInv => LastLoadHasFilters /\ OneActionAtATime /\ LoadingIsLoading
  BY DEF UsersInv, OneActionAtATime, Users!OneActionAtATime
<1>3. ListInv => ListFollowsAddress
  BY DEF ListInv, ListFollowsAddress, Listed!ListFollowsAddress
<1>4. ListInv /\ [Listed!Next]_listed => [Listed!TurnsWithinFilters]_listed
  BY ListStep
<1>5. Listed!Spec => [][Listed!Next]_listed
  BY PTL DEF Listed!Spec, Listed!vars, listed
<1> QED BY <1>1, <1>2, <1>3, <1>4, <1>5, JobsKept, UsersKept, ListKept, PTL DEF ListsSpec, ListsFit, PageBelongsToFilters

\* What the run of the client does is what the three lists may do.
LEMMA RunIsOfLists == MCSpec => ListsSpec
<1>1. MCInit => Jobs!Init /\ Users!Init /\ Listed!Init
  BY DEF MCInit
<1>2. [MCNext]_all => [Jobs!Next]_jobs /\ [Users!Next]_users /\ [Listed!Next]_listed
  BY DEF MCNext, Only, all
<1> QED BY <1>1, <1>2, PTL DEF MCSpec, ListsSpec, Jobs!Spec, Users!Spec, Listed!Spec, Jobs!vars, jobs, Users!vars, users,
                             Listed!vars, listed

\* So the lists of the run of the client always fit.
THEOREM ListsFitInTheRun == MCSpec => ListsFit
BY ListsAlwaysFit, RunIsOfLists

\* A page that waits for a classification asks once a round, not after its time limit and only as long as
\* it shows what it waits for; what a form sends is what was decided on the version shown, chosen and
\* typed; a pair of coordinates goes with its address, and photos stay within the limits: for any texts,
\* sizes and limits (useClassificationPolling.js:8-39, StaffActionsPanel.jsx:28-35,
\* ResponsibilityPanel.jsx:37-38, OwnerActionsPanel.jsx:26-31, LocationField.jsx, ReportIssuePage.jsx).
THEOREM FormsAlwaysFit == FormsSpec => []FormsFit
<1>1. PollInv /\ PageInv /\ FormInv => FormsFit
  BY PollingIsFit, PageIsFit DEF FormInv, FormsFit
<1> QED BY <1>1, PollKept, PageKept, FormKept, PTL DEF FormsSpec
===============================================================================
