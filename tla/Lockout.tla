------------------------------- MODULE Lockout -------------------------------
(* The failure count of one address, login-account: a fixed window in a        *)
(* document of AuthThrottle, shared by sign-in and by every page that asks for *)
(* the current password again.  Sources: authThrottleService.js,               *)
(* currentPasswordService.js, authController.js and accountController.js.  The *)
(* limits per network address count in the same way and are left out.          *)
(*                                                                             *)
(* Times are kept relative to the present: how long the window still lasts,    *)
(* and how old the clock reading of a request is.                              *)
EXTENDS Integers, FiniteSets

CONSTANTS
  Request,   \* requests under way at once
  Limit,     \* 5 in the code
  Window,    \* AUTH_WINDOW_MS, in ticks
  MaxLate    \* bound: how long the database may take to make an update

ASSUME LimitAssumption == Limit \in Nat \ {0} /\ IsFiniteSet(Request)
ASSUME TimeAssumption == Window \in Nat /\ MaxLate \in Nat /\ MaxLate < Window

VARIABLES
  count,     \* the record's count; 0 when there is none, Limit + 1 stands for all above the limit
  left,      \* resetAt - now, down to -Window
  request,   \* the requests under way
  tries,     \* wrong passwords sign-in let through to their comparison before resetAt
  guesses    \* wrong passwords the other pages let through since the record was started

vars == <<count, left, request, tries, guesses>>

Enough == Limit + Cardinality(Request) + 1
Idle == [pc |-> "idle", kind |-> "login", right |-> FALSE, late |-> 0]

TypeOK ==
  /\ count \in 0..(Limit + 1) /\ left \in (-Window)..Window
  /\ request \in [Request -> [pc: {"idle", "peek", "clock", "count", "compare", "clear"},
                              kind: {"login", "verify"}, right: BOOLEAN, late: 0..MaxLate]]
  /\ tries \in 0..Enough /\ guesses \in 0..Enough

Init ==
  /\ count = 0 /\ left = 0
  /\ request = [r \in Request |-> Idle]
  /\ tries = 0 /\ guesses = 0

Least(a, b) == IF a < b THEN a ELSE b
Goto(r, pc) == request' = [request EXCEPT ![r].pc = pc]
Ends(r) == request' = [request EXCEPT ![r] = Idle]
At(r, pc, kind) == request[r].pc = pc /\ request[r].kind = kind

\* The password of this request is let through to its comparison.
LetThrough(r, n) == IF request[r].right THEN n ELSE Least(n + 1, Enough)

-----------------------------------------------------------------------------
(* The throttle.                                                               *)

\* The pipeline of consume compares resetAt with the clock reading of its request.
Expired(late) == count = 0 \/ left <= -late

\* consume, its one update.
Consume(r) ==
  LET late == request[r].late IN
  IF Expired(late) THEN count' = 1 /\ left' = Window - late
                   ELSE count' = Least(count + 1, Limit + 1) /\ UNCHANGED left

\* The guesses since the record was started, if this attempt starts it anew.
Since(r) == IF Expired(request[r].late) THEN 0 ELSE guesses

\* peek
Peeked == IF left <= 0 THEN 0 ELSE count

\* clear; with the count, the tries it stood for are forgotten.
Clear == count' = 0 /\ left' = 0 /\ tries' = 0 /\ guesses' = 0

-----------------------------------------------------------------------------
(* Requests.                                                                   *)

Begin(r) ==
  /\ request[r] = Idle
  /\ \E kind \in {"login", "verify"}, right \in BOOLEAN :
       request' = [request EXCEPT ![r] =
         [pc |-> IF kind = "login" THEN "peek" ELSE "clock", kind |-> kind, right |-> right, late |-> 0]]
  /\ UNCHANGED <<count, left, tries, guesses>>

\* login looks at the count before it loads the account.
LoginPeek(r) ==
  /\ request[r].pc = "peek"
  /\ IF Peeked >= Limit THEN Ends(r) /\ UNCHANGED tries
                        ELSE Goto(r, "compare") /\ tries' = LetThrough(r, tries)
  /\ UNCHANGED <<count, left, guesses>>

\* Mutant of LoginCompare: a wrong password is not counted.
LoginCompareUncounted(r) ==
  /\ At(r, "compare", "login")
  /\ IF request[r].right THEN Goto(r, "clear") ELSE Ends(r)
  /\ UNCHANGED <<count, left, tries, guesses>>

\* Its comparison: a wrong password is counted, a right one opens a session.
LoginCompare(r) ==
  /\ At(r, "compare", "login")
  /\ Goto(r, IF request[r].right THEN "clear" ELSE "clock")
  /\ UNCHANGED <<count, left, tries, guesses>>

\* A suspended account with the right password is refused; nothing is counted and nothing cleared.
LoginSuspended(r) ==
  /\ At(r, "compare", "login") /\ request[r].right
  /\ Ends(r)
  /\ UNCHANGED <<count, left, tries, guesses>>

\* consume reads the clock before its update.
ReadClock(r) ==
  /\ request[r].pc = "clock"
  /\ request' = [request EXCEPT ![r].pc = "count", ![r].late = 0]
  /\ UNCHANGED <<count, left, tries, guesses>>

\* login counts a failure; whatever the count is now, the request ends.
LoginCount(r) ==
  /\ At(r, "count", "login")
  /\ Consume(r) /\ Ends(r)
  /\ guesses' = Since(r) /\ UNCHANGED tries

\* Mutant of Admits: the count before this attempt is compared with the limit.
AdmitsBefore(r) == count <= Limit

\* The count after this attempt is within the limit.
Admits(r) == count' <= Limit

\* verifyCurrentPassword counts first, and compares only within the limit.
VerifyCount(r) ==
  /\ At(r, "count", "verify")
  /\ Consume(r)
  /\ IF Admits(r)
     THEN /\ request' = [request EXCEPT ![r].pc = "compare", ![r].late = 0]
          /\ guesses' = LetThrough(r, Since(r))
     ELSE Ends(r) /\ guesses' = Since(r)
  /\ UNCHANGED tries

VerifyCompare(r) ==
  /\ At(r, "compare", "verify")
  /\ IF request[r].right THEN Goto(r, "clear") ELSE Ends(r)
  /\ UNCHANGED <<count, left, tries, guesses>>

\* A right answer clears the count, in both.
RightAnswer(r) ==
  /\ request[r].pc = "clear"
  /\ Clear /\ Ends(r)

\* A password reset clears it as well.
PasswordReset == count > 0 /\ Clear /\ UNCHANGED request

\* Time passes; when the window closes, the tries made in it no longer count.
Tick ==
  /\ \A r \in Request : request[r].late < MaxLate
  /\ left' = IF left > -Window THEN left - 1 ELSE left
  /\ request' = [r \in Request |-> IF request[r].pc = "count"
                   THEN [request[r] EXCEPT !.late = @ + 1] ELSE request[r]]
  /\ tries' = IF left = 1 THEN 0 ELSE tries
  /\ UNCHANGED <<count, guesses>>

\* The TTL index removes a record whose window is over.
Forget ==
  /\ count > 0 /\ left <= 0
  /\ count' = 0 /\ left' = 0
  /\ UNCHANGED <<request, tries, guesses>>

Step(r) ==
  \/ Begin(r) \/ LoginPeek(r) \/ LoginCompare(r) \/ LoginSuspended(r) \/ ReadClock(r) \/ LoginCount(r)
  \/ VerifyCount(r) \/ VerifyCompare(r) \/ RightAnswer(r)

Next == (\E r \in Request : Step(r)) \/ PasswordReset \/ Tick \/ Forget

Spec == Init /\ [][Next]_vars

\* Time goes on, and the database makes the updates asked of it; requests come as people like.
FairSpec ==
  /\ Spec /\ WF_vars(Tick)
  /\ \A r \in Request : WF_vars(LoginCount(r) \/ VerifyCount(r))

-----------------------------------------------------------------------------
(* Properties.                                                                 *)

\* Between two right answers, the pages that ask for the password again compare at most Limit wrong
\* ones in one window, however many requests come at once and whatever sign-in counts beside them
\* (currentPasswordService.js:4-7).
GuessesLimited == guesses <= Limit

\* Sign-in reads the count before the comparison and counts after it, so requests that are under way
\* together pass the limit (authController.js:80): by their number at most.
TriesBounded == tries <= Limit + Cardinality(Request) - 1

\* A locked address does not stay locked while people keep trying: attempts do not extend the window.
Locked == Peeked >= Limit
LockoutEnds == Locked ~> ~Locked
=============================================================================
