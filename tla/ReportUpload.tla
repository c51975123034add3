----------------------------- MODULE ReportUpload -----------------------------
(* One request that files a report with photos, from the first byte of its     *)
(* form to its answer: the streaming of the files to a directory of its own,   *)
(* their inspection, their upload, and everything that is cleaned up.          *)
(* Sources: multipartUpload.js, imageInspectionService.js, uploadService.js,   *)
(* complaintImageService.js, complaintReferenceService.js and createComplaint  *)
(* of complaintController.js.                                                  *)
(*                                                                             *)
(* Each event callback is an action.  The events of the request, the parser,   *)
(* the file streams and the response come in every order that Node allows: the *)
(* parser finishes only after the whole request has been read, and 'aborted'   *)
(* comes only before that.                                                     *)
EXTENDS Naturals, FiniteSets

CONSTANTS
  Photo,         \* bound: the files a form may hold
  MaxAttempts    \* bound: tries at a reference code

ASSUME BoundsAssumption == IsFiniteSet(Photo) /\ MaxAttempts \in Nat \ {0}

VARIABLES
  client,    \* the connection: sending, sent all, gone before, gone after it
  parser,    \* multipartUpload's flags
  write,     \* the stream of each file to disk
  dir,       \* the request's directory, the files in it and its removal
  handler,   \* the request handler
  cloud      \* the provider's copy of each photo

vars == <<client, parser, write, dir, handler, cloud>>

-----------------------------------------------------------------------------
\* owed: failure handlers that wait for the writes.  next: how often next() was called.
Parser == [open: BOOLEAN, failed: BOOLEAN, failureHandled: BOOLEAN, disconnected: BOOLEAN,
           parserFinished: BOOLEAN, owed: 0..2, next: 0..2]
Write == {"none", "open", "done", "failed"}
\* files: temporary files on disk; "clean" is the sanitized copy of a photo.
\* watched: the end of the response removes the directory; "late" when it had ended before.
Dir == [stage: {"none", "made", "removing", "emptied", "removed", "left"},
        files: SUBSET (Photo \X {"raw", "clean"}), watched: {"no", "yes", "late"}]
Handler == [pc: {"none", "handed", "inspect", "upload", "insert", "retract", "finally", "answered"},
            left: SUBSET Photo, decoded: SUBSET Photo, good: SUBSET Photo, tries: 0..MaxAttempts, filed: BOOLEAN]
\* "lost": stored, while the request does not know it or could not delete it.
Cloud == {"no", "stored", "lost"}

TypeOK ==
  /\ client \in {"sending", "sent", "aborted", "closed"}
  /\ parser \in Parser /\ write \in [Photo -> Write] /\ dir \in Dir
  /\ handler \in Handler /\ cloud \in [Photo -> Cloud]

Settled == \A p \in Photo : write[p] # "open"
Uploaded == {p \in Photo : write[p] = "done"}

\* cleanup(): the directory is removed once, however often it is asked for.
Cleanup(d) == IF d.stage = "made" THEN [d EXCEPT !.stage = "removing"] ELSE d

\* Mutant of OnClose: only a response that is sent removes the directory.
OnCloseIgnored(d) == d
\* The response closes.
OnClose(d) == IF d.watched = "yes" THEN Cleanup(d) ELSE d

\* The failure is handled once: it waits for the writes, then MayClean.
\* Mutant of finishFailure: every call waits for the writes and passes the error on.
finishFailureAgain(p) == [p EXCEPT !.failureHandled = TRUE, !.owed = IF @ = 2 THEN 2 ELSE @ + 1]
finishFailure(p) == IF p.failureHandled THEN p ELSE [p EXCEPT !.failureHandled = TRUE, !.owed = @ + 1]
abort(p) == IF p.failed THEN p ELSE finishFailure([p EXCEPT !.failed = TRUE])

-----------------------------------------------------------------------------
(* multipartUpload *)

Init ==
  /\ client = "sending"
  /\ parser = [open |-> FALSE, failed |-> FALSE, failureHandled |-> FALSE, disconnected |-> FALSE,
               parserFinished |-> FALSE, owed |-> 0, next |-> 0]
  /\ write = [p \in Photo |-> "none"]
  /\ dir = [stage |-> "none", files |-> {}, watched |-> "no"]
  /\ handler = [pc |-> "none", left |-> {}, decoded |-> {}, good |-> {}, tries |-> 0, filed |-> FALSE]
  /\ cloud = [p \in Photo |-> "no"]

\* The directory is made and the parser constructed; either may fail, and next(error) ends it.
Start ==
  /\ ~parser.open /\ parser.next = 0
  /\ \/ parser' = [parser EXCEPT !.open = TRUE] /\ dir' = [dir EXCEPT !.stage = "made"]
     \/ parser' = [parser EXCEPT !.next = 1] /\ dir' \in {dir, [dir EXCEPT !.stage = "removed"]}
  /\ UNCHANGED <<client, write, handler, cloud>>

\* The 'file' event: a stream to disk is opened, unless the request has failed.
File(p) ==
  /\ parser.open /\ ~parser.failed /\ ~parser.parserFinished
  /\ write[p] = "none"
  /\ write' = [write EXCEPT ![p] = "open"]
  /\ dir' = [dir EXCEPT !.files = @ \cup {<<p, "raw">>}]
  /\ UNCHANGED <<client, parser, handler, cloud>>

\* A stream is flushed; or it fails, as every open stream does once the parser is destroyed.
WriteDone(p) ==
  /\ write[p] = "open"
  /\ write' = [write EXCEPT ![p] = "done"]
  /\ UNCHANGED <<client, parser, dir, handler, cloud>>
WriteFails(p) ==
  /\ write[p] = "open"
  /\ write' = [write EXCEPT ![p] = "failed"]
  /\ parser' = abort(parser)
  /\ UNCHANGED <<client, dir, handler, cloud>>

\* A size, count or part limit is passed, or the form is malformed.
LimitOrError ==
  /\ parser.open /\ ~parser.failed /\ ~parser.parserFinished
  /\ parser' = abort(parser)
  /\ UNCHANGED <<client, write, dir, handler, cloud>>

SendAll ==
  /\ client = "sending" /\ parser.open
  /\ client' = "sent"
  /\ UNCHANGED <<parser, write, dir, handler, cloud>>

\* The parser has seen the end of the form; it may report that although it was destroyed.
ParserFinish ==
  /\ client \in {"sent", "closed"} /\ parser.open /\ ~parser.parserFinished
  /\ LET p == [parser EXCEPT !.parserFinished = TRUE] IN
       parser' = IF p.failed THEN finishFailure(p) ELSE p
  /\ UNCHANGED <<client, write, dir, handler, cloud>>

\* The client goes.  Before the end of the request that aborts the upload; after it the
\* response closes, and the directory is removed if the upload has been handed on.
ClientAborts ==
  /\ client = "sending" /\ parser.open
  /\ client' = "aborted"
  /\ parser' = finishFailure([parser EXCEPT !.failed = TRUE, !.disconnected = TRUE])
  /\ UNCHANGED <<write, dir, handler, cloud>>
ClientCloses ==
  /\ client = "sent" /\ handler.pc # "answered"
  /\ client' = "closed"
  /\ dir' = OnClose(dir)
  /\ UNCHANGED <<parser, write, handler, cloud>>

\* Every write has settled after a failure: the directory goes, then the error is passed on.
MayClean == parser.owed > 0 /\ Settled
CleanFailure ==
  /\ MayClean /\ dir.stage = "made"
  /\ dir' = Cleanup(dir)
  /\ UNCHANGED <<client, parser, write, handler, cloud>>
PassError ==
  /\ parser.owed > 0 /\ dir.stage \in {"removed", "left"}
  /\ parser' = [parser EXCEPT !.owed = @ - 1, !.next = IF parser.disconnected THEN @ ELSE @ + 1]
  /\ UNCHANGED <<client, write, dir, handler, cloud>>

\* Every write has settled well: from here on the end of the response removes the directory.
HandOn ==
  /\ parser.parserFinished /\ Settled /\ ~parser.failed
  /\ dir.watched = "no"
  /\ parser' = [parser EXCEPT !.next = @ + 1]
  /\ dir' = [dir EXCEPT !.watched = IF client = "closed" THEN "late" ELSE "yes"]
  /\ handler' = [handler EXCEPT !.pc = "handed"]
  /\ UNCHANGED <<client, write, cloud>>

\* The removal unlinks the files it finds, then the directory, unless a file has come meanwhile.
RemoveFiles ==
  /\ dir.stage = "removing"
  /\ dir' = [dir EXCEPT !.stage = "emptied", !.files = {}]
  /\ UNCHANGED <<client, parser, write, handler, cloud>>
RemoveDir ==
  /\ dir.stage = "emptied"
  /\ dir' = [dir EXCEPT !.stage = IF dir.files = {} THEN "removed" ELSE "left"]
  /\ UNCHANGED <<client, parser, write, handler, cloud>>

-----------------------------------------------------------------------------
(* createComplaint *)

Go(pc) == [handler EXCEPT !.pc = pc]

\* The handlers before it may answer; else createComplaint checks the account and the category,
\* and may go to its finally block at once.
Enter ==
  /\ handler.pc = "handed"
  /\ handler' \in {[handler EXCEPT !.pc = "inspect", !.left = Uploaded], Go("finally"), Go("answered")}
  /\ UNCHANGED <<client, parser, write, dir, cloud>>

\* prepareComplaintImages, a photo at a time: it is read and decoded, then the sanitized copy
\* is written beside the original.
Decode(p) ==
  /\ handler.pc = "inspect" /\ p \in handler.left /\ handler.decoded = {}
  /\ <<p, "raw">> \in dir.files
  /\ handler' = [handler EXCEPT !.left = @ \ {p}, !.decoded = {p}]
  /\ UNCHANGED <<client, parser, write, dir, cloud>>
Sanitize(p) ==
  /\ handler.pc = "inspect" /\ handler.decoded = {p}
  /\ dir.stage # "removed"
  /\ dir' = [dir EXCEPT !.files = @ \cup {<<p, "clean">>}]
  /\ handler' = [handler EXCEPT !.decoded = {}, !.good = @ \cup {p}]
  /\ UNCHANGED <<client, parser, write, cloud>>
\* A photo is refused, missing, or together they are too large: the sanitized copies go.
InspectFails ==
  /\ handler.pc = "inspect"
  /\ dir' = [dir EXCEPT !.files = {f \in @ : f[2] = "raw"}]
  /\ handler' = [handler EXCEPT !.pc = "finally", !.decoded = {}, !.good = {}]
  /\ UNCHANGED <<client, parser, write, cloud>>
Inspected ==
  /\ handler.pc = "inspect" /\ handler.left = {} /\ handler.decoded = {}
  /\ handler' = [handler EXCEPT !.pc = "upload", !.left = handler.good]
  /\ UNCHANGED <<client, parser, write, dir, cloud>>

\* uploadComplaintImages, a photo at a time.  The file may be gone with the client.
Upload(p) ==
  /\ handler.pc = "upload" /\ p \in handler.left
  /\ <<p, "clean">> \in dir.files
  /\ cloud' = [cloud EXCEPT ![p] = "stored"]
  /\ handler' = [handler EXCEPT !.left = @ \ {p}]
  /\ UNCHANGED <<client, parser, write, dir>>
\* An upload fails, perhaps after the provider stored the photo: those before it are deleted.
UploadFails(p) ==
  /\ handler.pc = "upload" /\ p \in handler.left
  /\ cloud' \in {cloud, IF <<p, "clean">> \in dir.files THEN [cloud EXCEPT ![p] = "lost"] ELSE cloud}
  /\ handler' = Go("retract")
  /\ UNCHANGED <<client, parser, write, dir>>
UploadedAll ==
  /\ handler.pc = "upload" /\ handler.left = {}
  /\ handler' = Go("insert")
  /\ UNCHANGED <<client, parser, write, dir, cloud>>

\* createWithUniqueReference: the report is written, its code is taken already, or the insert fails.
Insert ==
  /\ handler.pc = "insert" /\ handler.tries < MaxAttempts
  /\ \/ handler' = [handler EXCEPT !.pc = "finally", !.filed = TRUE]
     \/ handler' = [handler EXCEPT !.tries = @ + 1]
     \/ handler' = Go("retract")
  /\ UNCHANGED <<client, parser, write, dir, cloud>>
OutOfCodes ==
  /\ handler.pc = "insert" /\ handler.tries = MaxAttempts
  /\ handler' = Go("retract")
  /\ UNCHANGED <<client, parser, write, dir, cloud>>

\* cleanupCloudImages: every stored photo is deleted, or the failure is logged.
\* Mutant of Retracted: the first failure ends it.
RetractedFirst(c) == \E p \in Photo : cloud[p] = "stored" /\ c = [cloud EXCEPT ![p] = "lost"]
Retracted(c) == c \in {k \in [Photo -> Cloud] : \A p \in Photo :
                         k[p] \in IF cloud[p] = "stored" THEN {"no", "lost"} ELSE {cloud[p]}}
Retract ==
  /\ handler.pc = "retract"
  /\ Retracted(cloud')
  /\ handler' = Go("finally")
  /\ UNCHANGED <<client, parser, write, dir>>

\* The finally block: originals and sanitized copies are unlinked.  (The answer goes out before
\* it when the report was filed, after it when not; nothing depends on that.)
Finally ==
  /\ handler.pc = "finally"
  /\ dir' = [dir EXCEPT !.files = {}]
  /\ handler' = Go("answered")
  /\ UNCHANGED <<client, parser, write, cloud>>

\* The response has been sent, which a closed connection never sees.
Finish ==
  /\ handler.pc = "answered" /\ client = "sent" /\ dir.watched = "yes"
  /\ dir.stage = "made"
  /\ dir' = Cleanup(dir)
  /\ UNCHANGED <<client, parser, write, handler, cloud>>

Progress ==
  \/ Start \/ ParserFinish \/ CleanFailure \/ PassError \/ HandOn \/ RemoveFiles \/ RemoveDir
  \/ Enter \/ Inspected \/ InspectFails \/ UploadedAll \/ Insert \/ OutOfCodes \/ Retract \/ Finally \/ Finish
  \/ \E p \in Photo : WriteDone(p) \/ WriteFails(p) \/ Decode(p) \/ Sanitize(p) \/ Upload(p) \/ UploadFails(p)

Next ==
  \/ Progress \/ SendAll \/ ClientAborts \/ ClientCloses \/ LimitOrError
  \/ \E p \in Photo : File(p)

Spec == Init /\ [][Next]_vars
\* The server goes on, and a client either sends its form or is cut off (Node's request timeout).
FairSpec == Spec /\ WF_vars(Progress) /\ WF_vars(SendAll \/ ClientAborts)
-----------------------------------------------------------------------------
(* Properties *)

(* The request is handed on, or its error is, once at most, in whatever order  *)
(* limits, stream errors, the end of the form and a disconnection come         *)
(* (multipartUpload.js:65-98, 156-171).                                        *)
NextOnce == parser.next <= 1

(* The directory is never being removed under a stream that still writes to it *)
(* (multipartUpload.js:68).                                                    *)
NoWriteIntoRemoved == dir.stage \in {"removing", "emptied", "removed", "left"} => Settled

(* A filed report has every photo at the provider; a request that ends without *)
(* a report has left none there but those whose deletion failed or whose upload*)
(* went unanswered (complaintImageService.js:44-71, complaintController.js:110). *)
PhotosBelong ==
  handler.pc \in {"finally", "answered"} =>
    \A p \in Photo : IF handler.filed THEN cloud[p] = (IF p \in handler.good THEN "stored" ELSE "no")
                                      ELSE cloud[p] # "stored"

(* What was written to disk for a request is gone in the end, however it ends  *)
(* and even when the client leaves while its photos are being read; except when*)
(* it left between the end of its request and the hand-over, too early for the *)
(* end of the response to be noticed.  That the file system removes what it is *)
(* asked to is taken for granted, as in the code, which ignores a failure      *)
(* (multipartUpload.js:60-70, 167-168, complaintController.js:117).            *)
FilesGo == dir.files # {} ~> (dir.files = {} \/ dir.watched = "late")

(* The same without the exception: request storage is removed when the client  *)
(* disconnects before parsing finishes (multipartUpload.test.js:29).           *)
\* Does not hold: README, section 6.
FilesGoAlways == dir.files # {} ~> dir.files = {}

(* Every request is answered: it is handed on or its error is, unless the      *)
(* client has disconnected (multipartUpload.js:65-73).                         *)
EveryRequestPassed == <>(parser.next = 1 \/ parser.disconnected)

(* One request, one hand-over, and no file under the removal of its directory, *)
(* whatever comes in which order (multipartUpload.js:65-98).                   *)
UploadOrderly == NextOnce /\ NoWriteIntoRemoved
=============================================================================
