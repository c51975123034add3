-------------------------------- MODULE SignIn --------------------------------
(* Accounts, the ways to sign in to them, and the sessions that come of it.    *)
(* Sources: authController.js, auth.js, authHandler.js, googleIdentityService, *)
(* sessionService.js, passwordChangeService.js, passwordResetService.js,       *)
(* userController.js and accountRetirementService.js.  The failure count is    *)
(* module Lockout, the links are module EmailChange.                           *)
(*                                                                             *)
(* A request that reads first and writes later is a step for each.  The        *)
(* transactions that write the lifecycle guard exclude each other, and those   *)
(* that write whatever else they read take effect at one instant; the one of   *)
(* Google sign-in reads an account it need not write, and sign-up takes no     *)
(* guard, so the former is a snapshot and a commit.                            *)
EXTENDS Naturals, FiniteSets

CONSTANTS
  Account, Address, Subject,   \* accounts, email addresses and Google identities
  Request,        \* requests under way at once
  Kinds,          \* the kinds of things that are asked for
  MaxSessions,    \* bound: refresh tokens issued
  MaxStates,      \* bound: Google sign-ins started
  MaxPasswords,   \* bound: passwords set on one account
  None

ASSUME NamesAssumption ==
  /\ None \notin Account \cup Address \cup Subject \cup Request
  /\ Kinds \subseteq {"signup", "login", "google", "password", "reset", "logout", "suspend", "retire", "move"}
ASSUME BoundsAssumption == {MaxSessions, MaxStates} \subseteq Nat /\ MaxPasswords \in Nat \ {0}

VARIABLES
  user,      \* User documents
  session,   \* RefreshToken documents
  oauth,     \* OAuthState documents, and how often each led to a session
  guard,     \* the request whose open transaction wrote the AdminControl document
  request    \* the requests under way

vars == <<user, session, oauth, guard, request>>

-----------------------------------------------------------------------------
SessionId == 1..MaxSessions
StateId == 1..MaxStates

\* password: 0 for none, else the how manieth it is.  kept: the session that set it, if one did.
User == [made: BOOLEAN, email: Address \cup {None}, provider: {"local", "google"},
         subject: Subject \cup {None}, password: 0..MaxPasswords, kept: 0..MaxSessions,
         isActive: BOOLEAN, retired: BOOLEAN]
\* password: the one it was opened with, 0 for Google.
Session == [user: Account \cup {None}, stage: {"none", "live", "ended"}, password: 0..MaxPasswords]
OAuthState == [stage: {"none", "stored", "used", "expired"}, opened: Nat]
\* What a request remembers.  live: whether its session was live when it came.
RequestRecord ==
  [pc: {"idle", "create", "open", "profile", "identity", "commit", "auth", "password", "logout"},
   user: Account \cup {None}, email: Address \cup {None}, subject: Subject \cup {None},
   password: 0..MaxPasswords, session: 0..MaxSessions, state: 0..MaxStates,
   next: {"none", "password", "logout"}, seen: SUBSET {"user", "session"}, live: BOOLEAN]

Idle == [pc |-> "idle", user |-> None, email |-> None, subject |-> None, password |-> 0, session |-> 0,
         state |-> 0, next |-> "none", seen |-> {}, live |-> FALSE]

Unmade == [made |-> FALSE, email |-> None, provider |-> "local", subject |-> None, password |-> 0,
           kept |-> 0, isActive |-> FALSE, retired |-> FALSE]

TypeOK ==
  /\ user \in [Account -> User]
  /\ \A u \in Account : /\ user[u].provider = "google" => user[u].password = 0
                        /\ ~user[u].made => user[u] = Unmade
  /\ session \in [SessionId -> Session]
  /\ oauth \in [StateId -> OAuthState]
  /\ guard \in Request \cup {None}
  /\ request \in [Request -> RequestRecord]

Init ==
  /\ user = [u \in Account |-> Unmade]
  /\ session = [s \in SessionId |-> [user |-> None, stage |-> "none", password |-> 0]]
  /\ oauth = [st \in StateId |-> [stage |-> "none", opened |-> 0]]
  /\ guard = None
  /\ request = [r \in Request |-> Idle]

Active(u) == user[u].made /\ user[u].isActive /\ ~user[u].retired
Starts(r, kind, what) == kind \in Kinds /\ request[r] = Idle /\ request' = [request EXCEPT ![r] = what]
Goes(r, pc) == request' = [request EXCEPT ![r].pc = pc]
Ends(r) == request' = [request EXCEPT ![r] = Idle]

-----------------------------------------------------------------------------
(* Sessions.                                                                   *)

Live(s) == session[s].stage = "live"
RoomForSession == \E s \in SessionId : session[s].stage = "none"
NextSession == CHOOSE s \in SessionId : session[s].stage = "none"

\* createNewRefreshToken
NewSession(u, password) ==
  [session EXCEPT ![NextSession] = [user |-> u, stage |-> "live", password |-> password]]

\* endSessions: the sessions of u but one.
EndSessions(u, except) ==
  [s \in SessionId |-> IF session[s].user = u /\ s # except
                       THEN [session[s] EXCEPT !.stage = "ended"] ELSE session[s]]

\* The TTL index, and expiresAt before it.
SessionExpires(s) ==
  /\ Live(s)
  /\ session' = [session EXCEPT ![s].stage = "ended"]
  /\ UNCHANGED <<user, oauth, guard, request>>

-----------------------------------------------------------------------------
(* Sign-up and sign-in with a password.                                        *)

\* The unique indexes of the collection.
Unused(a, g, but) ==
  \A u \in Account \ {but} : user[u].made => user[u].email # a /\ (g # None => user[u].subject # g)

NextAccount == CHOOSE u \in Account : ~user[u].made
RoomForAccount == \E u \in Account : ~user[u].made

\* signup looks whether the address is in use,
SignupCheck(r, a) ==
  /\ \A u \in Account : user[u].email # a
  /\ Starts(r, "signup", [Idle EXCEPT !.pc = "create", !.email = a])
  /\ UNCHANGED <<user, session, oauth, guard>>

\* and inserts the account; somebody else may have taken the address since.
SignupCreate(r) ==
  /\ request[r].pc = "create"
  /\ IF Unused(request[r].email, None, None)
     THEN /\ RoomForAccount
          /\ user' = [user EXCEPT ![NextAccount] = [Unmade EXCEPT
               !.made = TRUE, !.email = request[r].email, !.password = 1, !.isActive = TRUE]]
          /\ request' = [request EXCEPT ![r] = [Idle EXCEPT !.pc = "open", !.user = NextAccount, !.password = 1]]
     ELSE Ends(r) /\ UNCHANGED user
  /\ UNCHANGED <<session, oauth, guard>>

\* login loads the account with its password and finds that it matches; every other outcome is a
\* refusal, and Lockout's.
LoginRead(r, u) ==
  /\ Active(u) /\ user[u].password # 0
  /\ Starts(r, "login", [Idle EXCEPT !.pc = "open", !.user = u, !.password = user[u].password])
  /\ UNCHANGED <<user, session, oauth, guard>>

\* The session is written by itself, after the comparison.
Open(r) ==
  /\ request[r].pc = "open" /\ RoomForSession
  /\ session' = NewSession(request[r].user, request[r].password)
  /\ Ends(r)
  /\ UNCHANGED <<user, oauth, guard>>

-----------------------------------------------------------------------------
(* Sign-in with Google.                                                        *)

\* googleAuthRedirect
GoogleRedirect ==
  /\ "google" \in Kinds
  /\ \E st \in StateId : /\ oauth[st].stage = "none" /\ \A t \in 1..(st - 1) : oauth[t].stage # "none"
                         /\ oauth' = [oauth EXCEPT ![st].stage = "stored"]
  /\ UNCHANGED <<user, session, guard, request>>

StateExpires(st) ==
  /\ oauth[st].stage = "stored"
  /\ oauth' = [oauth EXCEPT ![st].stage = "expired"]
  /\ UNCHANGED <<user, session, guard, request>>

\* Mutant of ConsumeState: the state is found and left in place.
FindState(st) == oauth[st].stage = "stored" /\ UNCHANGED oauth

\* findOneAndDelete: of two uses at once, one gets the state.
ConsumeState(st) == oauth[st].stage = "stored" /\ oauth' = [oauth EXCEPT ![st].stage = "used"]

\* googleAuthCallback, which a browser may send more than once.
GoogleCallback(r, st) ==
  /\ ConsumeState(st)
  /\ Starts(r, "google", [Idle EXCEPT !.pc = "profile", !.state = st])
  /\ UNCHANGED <<user, session, guard>>

\* exchangeCodeForProfile: the identity and its present address, or a failure.
GoogleProfile(r) ==
  /\ request[r].pc = "profile"
  /\ \/ Ends(r)
     \/ \E g \in Subject, a \in Address :
          request' = [request EXCEPT ![r].pc = "identity", ![r].subject = g, ![r].email = a]
  /\ UNCHANGED <<user, session, oauth, guard>>

\* Mutant of TouchGuard: the transaction reads the guard document and writes nothing.
ReadGuard(r) == UNCHANGED guard

\* touchAccountLifecycleGuard, kept until the commit.
TouchGuard(r) == guard = None /\ guard' = r

\* Mutant of Resolved: an account with this address is taken as the identity's.
ResolvedByEmail(g, a) == {u \in Account : user[u].subject = g \/ user[u].email = a}

\* The account this identity has already.
Resolved(g, a) == {u \in Account : user[u].subject = g}

\* resolveGoogleIdentity, in its snapshot: an account it has must be active and, like a new one, may
\* not take an address that is in use.
GoogleResolve(r) ==
  LET g == request[r].subject
      a == request[r].email
      has == Resolved(g, a) IN
  /\ request[r].pc = "identity" /\ guard = None
  /\ IF IF has # {} THEN \A u \in has : Active(u) /\ Unused(a, None, u) ELSE Unused(a, g, None)
     THEN /\ TouchGuard(r)
          /\ request' = [request EXCEPT ![r].pc = "commit",
               ![r].user = IF has = {} THEN None ELSE CHOOSE u \in has : TRUE]
     ELSE Ends(r) /\ UNCHANGED guard
  /\ UNCHANGED <<user, session, oauth>>

\* The commit: the account as it is now known, and its session.  A sign-up may have taken the address
\* since; what the transaction did not write may have changed.
GoogleCommit(r) ==
  LET req == request[r]
      u == IF req.user = None THEN NextAccount ELSE req.user IN
  /\ req.pc = "commit"
  /\ guard' = IF guard = r THEN None ELSE guard
  /\ Ends(r)
  /\ IF Unused(req.email, IF req.user = None THEN req.subject ELSE None, req.user)
     THEN /\ RoomForSession /\ (req.user = None => RoomForAccount)
          /\ user' = [user EXCEPT ![u] =
               IF req.user # None THEN [@ EXCEPT !.email = req.email]
               ELSE [Unmade EXCEPT !.made = TRUE, !.email = req.email, !.provider = "google",
                                   !.subject = req.subject, !.isActive = TRUE]]
          /\ session' = NewSession(u, 0)
          /\ oauth' = [oauth EXCEPT ![req.state].opened = @ + 1]
     ELSE UNCHANGED <<user, session, oauth>>

-----------------------------------------------------------------------------
(* Requests that bring a session with them.                                    *)

\* A request with the cookies of a session, live or not.
Come(r, s, next) ==
  /\ session[s].stage # "none"
  /\ Starts(r, next, [Idle EXCEPT !.pc = "auth", !.user = session[s].user, !.session = s, !.next = next,
                                  !.live = Live(s)])
  /\ UNCHANGED <<user, session, oauth, guard>>

\* liveSession
LiveSession(s) == Live(s)

\* authentication reads the account and the session, in no order; without either the request is
\* refused (it may come again with its refresh token, which is the same two reads).
Authenticate(r, part) ==
  LET seen == request[r].seen \cup {part} IN
  /\ request[r].pc = "auth" /\ part \notin request[r].seen
  /\ IF (part = "user" /\ Active(request[r].user)) \/ (part = "session" /\ LiveSession(request[r].session))
     THEN request' = [request EXCEPT ![r].seen = seen,
            ![r].pc = IF seen = {"user", "session"} THEN request[r].next ELSE "auth"]
     ELSE Ends(r)
  /\ UNCHANGED <<user, session, oauth, guard>>

\* changePassword checks the account and the current password again, and changes it later; its
\* transaction does not look whether the account is still active.
ChangePassword(r) ==
  LET u == request[r].user IN
  /\ request[r].pc = "password"
  /\ IF request[r].password = 0
     THEN /\ UNCHANGED <<user, session>>
          /\ IF Active(u) /\ user[u].password # 0
             THEN request' = [request EXCEPT ![r].password = user[u].password]
             ELSE Ends(r)
     ELSE /\ guard = None /\ user[u].password < MaxPasswords
          /\ user' = [user EXCEPT ![u].password = @ + 1, ![u].kept = request[r].session]
          /\ session' = EndSessions(u, request[r].session)
          /\ Ends(r)
  /\ UNCHANGED <<oauth, guard>>

Logout(r) ==
  /\ request[r].pc = "logout"
  /\ session' = EndSessions(request[r].user, 0)
  /\ Ends(r)
  /\ UNCHANGED <<user, oauth, guard>>

-----------------------------------------------------------------------------
(* What happens to accounts, each in a transaction under the guard.            *)

MayReset(u) == Active(u) /\ user[u].provider = "local"

\* resetPassword, with a link EmailChange knows of.
ResetPassword(u) ==
  /\ "reset" \in Kinds /\ guard = None
  /\ MayReset(u) /\ user[u].password < MaxPasswords
  /\ user' = [user EXCEPT ![u].password = @ + 1, ![u].kept = 0]
  /\ session' = EndSessions(u, 0)
  /\ UNCHANGED <<oauth, guard, request>>

\* A suspension, which ends every session, and its end.
Suspend(u) ==
  /\ "suspend" \in Kinds /\ guard = None /\ Active(u)
  /\ user' = [user EXCEPT ![u].isActive = FALSE]
  /\ session' = EndSessions(u, 0)
  /\ UNCHANGED <<oauth, guard, request>>

Reactivate(u) ==
  /\ guard = None /\ user[u].made /\ ~user[u].isActive /\ ~user[u].retired
  /\ user' = [user EXCEPT ![u].isActive = TRUE]
  /\ UNCHANGED <<session, oauth, guard, request>>

\* A change of role ends every session too; what the role allows is read from the account.
ChangeRole(u) ==
  /\ "suspend" \in Kinds /\ guard = None /\ user[u].made /\ ~user[u].retired
  /\ session' = EndSessions(u, 0)
  /\ UNCHANGED <<user, oauth, guard, request>>

Retire(u) ==
  /\ "retire" \in Kinds /\ guard = None /\ user[u].made /\ ~user[u].retired
  /\ user' = [user EXCEPT ![u] = [@ EXCEPT !.email = None, !.subject = None, !.password = 0, !.kept = 0,
                                           !.isActive = FALSE, !.retired = TRUE]]
  /\ session' = EndSessions(u, 0)
  /\ UNCHANGED <<oauth, guard, request>>

\* confirmEmailChange: a local account moves to an address nobody has.
MoveAddress(u, a) ==
  /\ "move" \in Kinds /\ guard = None
  /\ Active(u) /\ user[u].provider = "local" /\ user[u].email # a /\ Unused(a, None, u)
  /\ user' = [user EXCEPT ![u].email = a]
  /\ UNCHANGED <<session, oauth, guard, request>>

-----------------------------------------------------------------------------
RequestNext(r) ==
  \/ \E a \in Address : SignupCheck(r, a)
  \/ SignupCreate(r)
  \/ \E u \in Account : LoginRead(r, u)
  \/ Open(r)
  \/ \E st \in StateId : GoogleCallback(r, st)
  \/ GoogleProfile(r) \/ GoogleResolve(r) \/ GoogleCommit(r)
  \/ \E s \in SessionId, next \in {"password", "logout"} : Come(r, s, next)
  \/ \E part \in {"user", "session"} : Authenticate(r, part)
  \/ ChangePassword(r) \/ Logout(r)

AccountNext(u) ==
  \/ ResetPassword(u) \/ Suspend(u) \/ Reactivate(u) \/ ChangeRole(u) \/ Retire(u)
  \/ \E a \in Address : MoveAddress(u, a)

Next ==
  \/ \E r \in Request : RequestNext(r)
  \/ \E u \in Account : AccountNext(u)
  \/ GoogleRedirect
  \/ \E st \in StateId : StateExpires(st)
  \/ \E s \in SessionId : SessionExpires(s)

Spec == Init /\ [][Next]_vars

-----------------------------------------------------------------------------
(* Properties.                                                                 *)

\* No two accounts use one address or one Google identity, however sign-ups, Google sign-ins and
\* email changes that all found it free follow on each other (authController.js:65).
IdentitiesUnique ==
  \A u, v \in Account : u # v /\ user[u].made /\ user[v].made =>
    /\ user[u].email # None => user[u].email # user[v].email
    /\ user[u].subject # None => user[u].subject # user[v].subject

\* A suspension or a retirement ends every session of an account that signs in with Google for good:
\* a sign-in under way at that moment cannot leave one behind (googleIdentityService.js:76).
GoogleSessionsEnd ==
  \A s \in SessionId : Live(s) /\ user[session[s].user].provider = "google" => Active(session[s].user)

\* Google opens no account that has a password, whatever address the identity shows
\* (googleIdentityService.js:53).
GoogleOpensGoogle ==
  \A s \in SessionId : session[s].stage # "none" =>
    (session[s].password = 0 <=> user[session[s].user].provider = "google")

\* One sign-in started leads to one session at most, though the callback is sent twice
\* (authController.js:141).
StateUsedOnce == \A st \in StateId : oauth[st].opened <= 1

\* A request that comes after its session ended is not served, although its token is signed and its
\* account is active (auth.js:53-54).
AccessEndsAtOnce ==
  \A r \in Request : request[r].pc \in {"password", "logout"} => request[r].live

\* Once a password was changed or reset, the sessions opened with an earlier one have ended, but for
\* the session that changed it (passwordChangeService.js:13).
\* Does not hold: README, section 6.
OtherSessionsEnd ==
  \A s \in SessionId : LET u == user[session[s].user] IN
    Live(s) /\ u.provider = "local" /\ ~u.retired => session[s].password = u.password \/ u.kept = s

\* An address or a Google identity leads to the one account that has it, by the way in it was given, on
\* a state of the right types (authController.js:65, googleIdentityService.js:53).
IdentitiesKept == TypeOK /\ IdentitiesUnique /\ GoogleOpensGoogle

\* A sign-in that was used, and a session that has ended, give nothing any more (authController.js:141,
\* auth.js:53-54).
SpentIsSpent == StateUsedOnce /\ AccessEndsAtOnce
==============================================================================
