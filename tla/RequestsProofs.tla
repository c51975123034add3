---------------------------- MODULE RequestsProofs ----------------------------
(* Proofs about the modules of MCRequests: about SignIn, for any number of     *)
(* accounts, addresses, Google identities, sessions and requests under way;    *)
(* about Readiness, for any number of calls and any limits.                    *)
EXTENDS MCRequests, Sequences, TLAPS

-------------------------------------------------------------------------------
(* What is always true of requests and sessions.                               *)

\* What the request r remembers at each point is of a kind that fits the point.
Fits(r) ==
  LET req == request[r] IN
    /\ req.pc = "create" => req.email \in Address
    /\ req.pc = "open" => /\ req.user \in Account /\ user[req.user].made
                          /\ user[req.user].provider = "local" /\ req.password # 0
    /\ req.pc \in {"profile", "identity", "commit"} => req.state \in StateId
    /\ req.pc \in {"identity", "commit"} => req.subject \in Subject /\ req.email \in Address
    /\ req.pc = "commit" => /\ guard = r
                            /\ req.user # None => Active(req.user) /\ user[req.user].provider = "google"
    /\ req.pc \in {"auth", "password", "logout"} =>
         req.session \in SessionId /\ session[req.session].stage # "none" /\ req.user = session[req.session].user
    /\ req.pc = "auth" => req.next \in {"password", "logout"} /\ req.password = 0
    /\ req.pc = "password" /\ req.password # 0 => user[req.user].provider = "local"

RequestInv == \A r \in Request : Fits(r)

\* A session that was opened is of an account that was made, by the way in that the account has.
SessionInv ==
  /\ \A s \in SessionId : session[s].stage = "none" <=> session[s].user = None
  /\ \A s \in SessionId : session[s].stage # "none" => user[session[s].user].made
  /\ GoogleOpensGoogle
  /\ GoogleSessionsEnd

\* Google identities belong to accounts of that kind.
AccountInv ==
  /\ \A u \in Account : user[u].subject # None => user[u].provider = "google"
  /\ IdentitiesUnique

Inv == TypeOK /\ RequestInv /\ SessionInv /\ AccountInv

-------------------------------------------------------------------------------
(* What a step may do to the accounts and to the sessions.                     *)

\* A new account u, local or of a Google identity.
Makes(u) ==
  /\ ~user[u].made
  /\ \E r \in Request :
       \/ /\ request[r].pc = "create" /\ Unused(request[r].email, None, None)
          /\ user' = [user EXCEPT ![u] = [Unmade EXCEPT
               !.made = TRUE, !.email = request[r].email, !.password = 1, !.isActive = TRUE]]
          /\ UNCHANGED session
       \/ /\ request[r].pc = "commit" /\ Unused(request[r].email, request[r].subject, None)
          /\ user' = [user EXCEPT ![u] = [Unmade EXCEPT
               !.made = TRUE, !.email = request[r].email, !.provider = "google",
               !.subject = request[r].subject, !.isActive = TRUE]]
          /\ RoomForSession /\ session' = NewSession(u, 0)

\* The account u moves to an address nobody else has; with Google it is signed in as well.
Moves(u) ==
  /\ user[u].made /\ Active(u)
  /\ \E a \in Address : Unused(a, None, u) /\ user' = [user EXCEPT ![u].email = a]
  /\ UNCHANGED session \/ (user[u].provider = "google" /\ RoomForSession /\ session' = NewSession(u, 0))

\* The account u gets another password, and sessions of it end.
Repasses(u) ==
  /\ user[u].made /\ user[u].provider = "local" /\ user[u].password < MaxPasswords
  /\ \E kept \in 0..MaxSessions :
       /\ user' = [user EXCEPT ![u].password = @ + 1, ![u].kept = kept]
       /\ session' = EndSessions(u, kept)

\* The account u is suspended or retired, and all its sessions end.
Closes(u) ==
  /\ user[u].made /\ guard = None
  /\ \/ user' = [user EXCEPT ![u].isActive = FALSE]
     \/ user' = [user EXCEPT ![u] = [@ EXCEPT !.email = None, !.subject = None, !.password = 0, !.kept = 0,
                                              !.isActive = FALSE, !.retired = TRUE]]
  /\ session' = EndSessions(u, 0)

\* The account u is active again.
Reopens(u) ==
  user[u].made /\ user' = [user EXCEPT ![u].isActive = TRUE] /\ UNCHANGED session

\* A session of an account with a password is opened, or sessions end.
Sessions ==
  /\ UNCHANGED user
  /\ \/ UNCHANGED session
     \/ \E r \in Request : /\ request[r].pc = "open" /\ RoomForSession
                           /\ session' = NewSession(request[r].user, request[r].password)
     \/ \E u \in Account : session' = EndSessions(u, 0)
     \/ \E s \in SessionId : Live(s) /\ session' = [session EXCEPT ![s].stage = "ended"]

\* Every step is one of these.
LEMMA Steps ==
  ASSUME Inv, [Next]_vars
  PROVE  Sessions \/ \E u \in Account : Makes(u) \/ Moves(u) \/ Repasses(u) \/ Closes(u) \/ Reopens(u)
<1> USE DEF Inv
<1>0. \A r \in Request : request[r].pc \in {"auth", "password", "logout"} => request[r].user \in Account
  BY DEF RequestInv, Fits, SessionInv, TypeOK, Session
<1>1. ASSUME NEW r \in Request, SignupCreate(r) PROVE Sessions \/ \E u \in Account : Makes(u)
  <2>1. RoomForAccount => NextAccount \in Account /\ ~user[NextAccount].made
    BY DEF RoomForAccount, NextAccount
  <2> HIDE DEF NextAccount
  <2> QED BY <1>1, <2>1 DEF SignupCreate, Sessions, Makes
<1>2. ASSUME NEW r \in Request, GoogleCommit(r) PROVE Sessions \/ \E u \in Account : Makes(u) \/ Moves(u)
  <2>0. RoomForAccount => NextAccount \in Account /\ ~user[NextAccount].made
    BY DEF RoomForAccount, NextAccount
  <2>1. /\ request[r].pc = "commit" /\ request[r].email \in Address
        /\ request[r].user # None => /\ request[r].user \in Account /\ Active(request[r].user)
                                     /\ user[request[r].user].provider = "google"
    BY <1>2 DEF GoogleCommit, RequestInv, Fits, TypeOK, RequestRecord
  <2> HIDE DEF NextAccount
  <2>2. CASE UNCHANGED <<user, session>>
    BY <2>2 DEF Sessions
  <2>3. CASE ~UNCHANGED <<user, session>> /\ request[r].user = None
    <3>1. /\ Unused(request[r].email, request[r].subject, None) /\ RoomForSession /\ RoomForAccount
          /\ user' = [user EXCEPT ![NextAccount] = [Unmade EXCEPT !.made = TRUE, !.email = request[r].email,
                        !.provider = "google", !.subject = request[r].subject, !.isActive = TRUE]]
          /\ session' = NewSession(NextAccount, 0)
      BY <1>2, <2>3 DEF GoogleCommit
    <3> QED BY <2>0, <2>1, <3>1 DEF Makes
  <2>4. CASE ~UNCHANGED <<user, session>> /\ request[r].user # None
    <3>1. /\ Unused(request[r].email, None, request[r].user) /\ RoomForSession
          /\ user' = [user EXCEPT ![request[r].user].email = request[r].email]
          /\ session' = NewSession(request[r].user, 0)
      BY <1>2, <2>4 DEF GoogleCommit
    <3>2. PICK u \in Account : u = request[r].user
      BY <2>1, <2>4
    <3>3. PICK a \in Address : a = request[r].email
      BY <2>1
    <3>4. Unused(a, None, u) /\ user' = [user EXCEPT ![u].email = a]
      BY <3>1, <3>2, <3>3
    <3>5. user[u].made /\ Active(u) /\ user[u].provider = "google" /\ RoomForSession /\ session' = NewSession(u, 0)
      BY <2>1, <2>4, <3>1, <3>2 DEF Active
    <3> QED BY <3>4, <3>5 DEF Moves
  <2> QED BY <2>2, <2>3, <2>4
<1>3. ASSUME NEW r \in Request, ChangePassword(r) PROVE Sessions \/ \E u \in Account : Repasses(u)
  <2>1. CASE request[r].password = 0
    BY <1>3, <2>1 DEF ChangePassword, Sessions
  <2>2. CASE request[r].password # 0
    <3>1. /\ request[r].user \in Account /\ user[request[r].user].made /\ user[request[r].user].provider = "local"
          /\ request[r].session \in 0..MaxSessions
      BY <1>0, <1>3, <2>2, BoundsAssumption DEF ChangePassword, RequestInv, Fits, SessionInv, SessionId
    <3> QED BY <1>3, <2>2, <3>1 DEF ChangePassword, Repasses
  <2> QED BY <2>1, <2>2
<1>4. ASSUME NEW u \in Account, AccountNext(u)
      PROVE  Sessions \/ Moves(u) \/ Repasses(u) \/ Closes(u) \/ Reopens(u)
  <2>1. 0 \in 0..MaxSessions
    BY BoundsAssumption
  <2>2. CASE ResetPassword(u)
    BY <2>1, <2>2 DEF ResetPassword, MayReset, Active, Repasses
  <2>3. CASE Suspend(u) \/ Retire(u)
    BY <2>3 DEF Suspend, Retire, Active, Closes
  <2>4. CASE Reactivate(u) \/ ChangeRole(u)
    BY <2>4 DEF Reactivate, ChangeRole, Reopens, Sessions
  <2>5. CASE \E a \in Address : MoveAddress(u, a)
    BY <2>5 DEF MoveAddress, Moves, Active
  <2> QED BY <1>4, <2>2, <2>3, <2>4, <2>5 DEF AccountNext
<1>5. ASSUME NEW r \in Request, Open(r) \/ Logout(r) PROVE Sessions
  BY <1>0, <1>5 DEF Open, Logout, Sessions
<1>6. ASSUME NEW r \in Request, RequestNext(r)
      PROVE  Sessions \/ \E u \in Account : Makes(u) \/ Moves(u) \/ Repasses(u)
  BY <1>1, <1>2, <1>3, <1>5, <1>6
     DEF RequestNext, SignupCheck, LoginRead, GoogleCallback, GoogleProfile, GoogleResolve, Come, Authenticate, Sessions
<1>7. CASE UNCHANGED vars \/ GoogleRedirect \/ (\E st \in StateId : StateExpires(st))
           \/ \E s \in SessionId : SessionExpires(s)
  BY <1>7 DEF vars, GoogleRedirect, StateExpires, SessionExpires, Sessions
<1> QED BY <1>4, <1>6, <1>7 DEF Next

\* A new session takes a place that was free; the others stay as they are.
LEMMA NewSessionStep ==
  ASSUME TypeOK, NEW u, NEW password, RoomForSession, session' = NewSession(u, password)
  PROVE  \E n \in SessionId :
           /\ session[n].stage = "none"
           /\ session'[n] = [user |-> u, stage |-> "live", password |-> password]
           /\ \A s \in SessionId \ {n} : session'[s] = session[s]
           /\ session' = [session EXCEPT ![n] = [user |-> u, stage |-> "live", password |-> password]]
<1>1. NextSession \in SessionId /\ session[NextSession].stage = "none"
  BY DEF RoomForSession, NextSession
<1> HIDE DEF NextSession
<1> QED BY <1>1 DEF NewSession, TypeOK

\* Sessions that end keep all else, and so do those that go on.
LEMMA EndSessionsStep ==
  ASSUME TypeOK, SessionInv, NEW u \in Account, NEW except, session' = EndSessions(u, except)
  PROVE  /\ session' \in [SessionId -> Session]
         /\ \A s \in SessionId :
              /\ session'[s].user = session[s].user /\ session'[s].password = session[s].password
              /\ session'[s].stage = "none" <=> session[s].stage = "none"
              /\ session'[s].stage = "live" => session[s].stage = "live" /\ (session[s].user # u \/ s = except)
<1>1. ASSUME NEW s \in SessionId
      PROVE  /\ session'[s] \in Session
             /\ session'[s].user = session[s].user /\ session'[s].password = session[s].password
             /\ session'[s].stage = "none" <=> session[s].stage = "none"
             /\ session'[s].stage = "live" => session[s].stage = "live" /\ (session[s].user # u \/ s = except)
  <2>1. session[s] \in Session /\ session'[s] = (IF session[s].user = u /\ s # except
                                   THEN [session[s] EXCEPT !.stage = "ended"] ELSE session[s])
    BY DEF EndSessions, TypeOK
  <2>2. session[s].user = u => session[s].stage # "none"
    BY NamesAssumption DEF SessionInv
  <2> QED BY <2>1, <2>2 DEF Session
<1>2. session' \in [SessionId -> Session]
  <2>1. session' = [s \in SessionId |-> session'[s]]
    BY DEF EndSessions
  <2> QED BY <1>1, <2>1
<1> QED BY <1>1, <1>2

\* The accounts keep their types.
LEMMA UserType ==
  ASSUME Inv, [Next]_vars
  PROVE  /\ user' \in [Account -> User]
         /\ \A u \in Account : /\ user'[u].provider = "google" => user'[u].password = 0
                               /\ ~user'[u].made => user'[u] = Unmade
<1>0. /\ user \in [Account -> User]
      /\ \A u \in Account : /\ user[u].provider = "google" => user[u].password = 0
                            /\ ~user[u].made => user[u] = Unmade
      /\ 1 \in 0..MaxPasswords /\ 0 \in 0..MaxPasswords /\ 0 \in 0..MaxSessions
  BY BoundsAssumption DEF Inv, TypeOK
<1> DEFINE Goal == /\ user' \in [Account -> User]
                   /\ \A u \in Account : /\ user'[u].provider = "google" => user'[u].password = 0
                                         /\ ~user'[u].made => user'[u] = Unmade
<1>1. ASSUME NEW u \in Account, NEW r \in User, user' = [user EXCEPT ![u] = r],
             r.provider = "google" => r.password = 0, r.made
      PROVE  Goal
  BY <1>0, <1>1
<1> HIDE DEF Goal
<1>2. ASSUME NEW u \in Account, Makes(u) PROVE Goal
  <2>1. ASSUME NEW r \in Request, request[r].email \in Address,
               user' = [user EXCEPT ![u] = [Unmade EXCEPT
                          !.made = TRUE, !.email = request[r].email, !.password = 1, !.isActive = TRUE]]
        PROVE  Goal
    <3> DEFINE new == [Unmade EXCEPT !.made = TRUE, !.email = request[r].email, !.password = 1, !.isActive = TRUE]
    <3>1. new \in User /\ new.provider = "local" /\ new.made
      BY <1>0, <2>1 DEF Unmade, User
    <3> HIDE DEF new
    <3> QED BY <1>1, <2>1, <3>1 DEF new
  <2>2. ASSUME NEW r \in Request, request[r].email \in Address, request[r].subject \in Subject,
               user' = [user EXCEPT ![u] = [Unmade EXCEPT
                          !.made = TRUE, !.email = request[r].email, !.provider = "google",
                          !.subject = request[r].subject, !.isActive = TRUE]]
        PROVE  Goal
    <3> DEFINE new == [Unmade EXCEPT !.made = TRUE, !.email = request[r].email, !.provider = "google",
                                     !.subject = request[r].subject, !.isActive = TRUE]
    <3>1. new \in User /\ new.password = 0 /\ new.made
      BY <1>0, <2>2 DEF Unmade, User
    <3> HIDE DEF new
    <3> QED BY <1>1, <2>2, <3>1 DEF new
  <2> QED BY <1>2, <2>1, <2>2 DEF Makes, Inv, RequestInv, Fits
<1>3. ASSUME NEW u \in Account, Moves(u) PROVE Goal
  <2>1. PICK a \in Address : user' = [user EXCEPT ![u].email = a]
    BY <1>3 DEF Moves
  <2>2. user[u] \in User /\ user[u].made /\ (user[u].provider = "google" => user[u].password = 0)
    BY <1>0, <1>3 DEF Moves
  <2>3. /\ [user[u] EXCEPT !.email = a] \in User /\ [user[u] EXCEPT !.email = a].made
        /\ [user[u] EXCEPT !.email = a].provider = "google" => [user[u] EXCEPT !.email = a].password = 0
    BY <2>2 DEF User
  <2> QED BY <1>0, <1>1, <2>1, <2>3
<1>4. ASSUME NEW u \in Account, Repasses(u) PROVE Goal
  <2>1. PICK kept \in 0..MaxSessions : user' = [user EXCEPT ![u].password = user[u].password + 1, ![u].kept = kept]
    BY <1>0, <1>4 DEF Repasses
  <2>2. /\ user[u] \in User /\ user[u].made /\ user[u].provider = "local"
        /\ user[u].password + 1 \in 0..MaxPasswords
    BY <1>0, <1>4, BoundsAssumption DEF Repasses, User
  <2> DEFINE r == [user[u] EXCEPT !.password = user[u].password + 1, !.kept = kept]
  <2>3. r \in User /\ r.made /\ r.provider = "local"
    BY <2>2, Zenon DEF User
  <2>4. user' = [user EXCEPT ![u] = r]
    BY <1>0, <2>1
  <2> HIDE DEF r
  <2> QED BY <1>1, <2>3, <2>4
<1>5. ASSUME NEW u \in Account, Closes(u) PROVE Goal
  <2> DEFINE off == [user[u] EXCEPT !.isActive = FALSE]
             gone == [user[u] EXCEPT !.email = None, !.subject = None, !.password = 0, !.kept = 0,
                                     !.isActive = FALSE, !.retired = TRUE]
  <2>1. user[u] \in User /\ user[u].made /\ (user[u].provider = "google" => user[u].password = 0)
    BY <1>0, <1>5 DEF Closes
  <2>2. /\ off \in User /\ off.made /\ (off.provider = "google" => off.password = 0)
        /\ gone \in User /\ gone.made /\ gone.password = 0
    BY <1>0, <2>1 DEF User
  <2>3. user' = [user EXCEPT ![u] = off] \/ user' = [user EXCEPT ![u] = gone]
    BY <1>0, <1>5 DEF Closes
  <2> HIDE DEF off, gone
  <2> QED BY <1>1, <2>2, <2>3
<1>6. ASSUME NEW u \in Account, Reopens(u) PROVE Goal
  <2>1. user[u] \in User /\ user[u].made /\ (user[u].provider = "google" => user[u].password = 0)
    BY <1>0, <1>6 DEF Reopens
  <2> DEFINE r == [user[u] EXCEPT !.isActive = TRUE]
  <2>2. r \in User /\ r.made /\ (r.provider = "google" => r.password = 0)
    BY <2>1 DEF User
  <2>3. user' = [user EXCEPT ![u] = r]
    BY <1>0, <1>6 DEF Reopens
  <2> HIDE DEF r
  <2> QED BY <1>1, <2>2, <2>3
<1>7. ASSUME UNCHANGED user PROVE Goal
  BY <1>0, <1>7 DEF Goal
<1>8. Sessions \/ \E u \in Account : Makes(u) \/ Moves(u) \/ Repasses(u) \/ Closes(u) \/ Reopens(u)
  BY Steps
<1>9. ASSUME Sessions PROVE Goal
  BY <1>7, <1>9 DEF Sessions
<1>10. ASSUME NEW u \in Account, Makes(u) \/ Moves(u) \/ Repasses(u) \/ Closes(u) \/ Reopens(u) PROVE Goal
  BY <1>2, <1>3, <1>4, <1>5, <1>6, <1>10
<1>11. Goal
  BY <1>8, <1>9, <1>10
<1> QED BY <1>11 DEF Goal

\* An account stays made, and keeps its provider; its address and its identity change only as said.
LEMMA AccountKept ==
  ASSUME Inv, [Next]_vars, NEW u \in Account, user[u].made
  PROVE  user'[u].made /\ user'[u].provider = user[u].provider
<1>0. user \in [Account -> User] /\ user[u] \in User
  BY DEF Inv, TypeOK
<1>1. ASSUME NEW v \in Account, Makes(v) PROVE user'[u] = user[u]
  BY <1>0, <1>1 DEF Makes
<1>2. ASSUME NEW v \in Account, Moves(v) PROVE user'[u].made /\ user'[u].provider = user[u].provider
  <2>1. PICK a \in Address : user' = [user EXCEPT ![v].email = a]
    BY <1>2 DEF Moves
  <2> QED BY <1>0, <2>1 DEF User
<1>3. ASSUME NEW v \in Account, Repasses(v) PROVE user'[u].made /\ user'[u].provider = user[u].provider
  <2>1. PICK kept \in 0..MaxSessions : user' = [user EXCEPT ![v].password = @ + 1, ![v].kept = kept]
    BY <1>3 DEF Repasses
  <2> QED BY <1>0, <2>1 DEF User
<1>4. ASSUME NEW v \in Account, Closes(v) PROVE user'[u].made /\ user'[u].provider = user[u].provider
  <2>1. CASE user' = [user EXCEPT ![v].isActive = FALSE]
    BY <1>0, <2>1 DEF User
  <2> DEFINE gone == [user[v] EXCEPT !.email = None, !.subject = None, !.password = 0, !.kept = 0,
                                     !.isActive = FALSE, !.retired = TRUE]
  <2>2. CASE user' = [user EXCEPT ![v] = gone]
    <3>1. user[v] \in User
      BY DEF Inv, TypeOK
    <3>2. gone.made = user[v].made /\ gone.provider = user[v].provider
      BY <3>1 DEF User
    <3> HIDE DEF gone
    <3> QED BY <1>0, <2>2, <3>2
  <2> QED BY <1>4, <2>1, <2>2 DEF Closes
<1>5. ASSUME NEW v \in Account, Reopens(v) PROVE user'[u].made /\ user'[u].provider = user[u].provider
  BY <1>0, <1>5 DEF Reopens, User
<1>6. CASE Sessions
  BY <1>6 DEF Sessions
<1>7. Sessions \/ \E v \in Account : Makes(v) \/ Moves(v) \/ Repasses(v) \/ Closes(v) \/ Reopens(v)
  BY Steps
<1> QED BY <1>1, <1>2, <1>3, <1>4, <1>5, <1>6, <1>7

\* The sessions keep their types, their accounts and their passwords, and none begins again.
LEMMA SessionKept ==
  ASSUME Inv, [Next]_vars
  PROVE  /\ session' \in [SessionId -> Session]
         /\ \A s \in SessionId : session[s].stage # "none" =>
              /\ session'[s].user = session[s].user /\ session'[s].password = session[s].password
              /\ session'[s].stage # "none"
              /\ session'[s].stage = "live" => session[s].stage = "live"
<1> DEFINE Goal ==
      /\ session' \in [SessionId -> Session]
      /\ \A s \in SessionId : session[s].stage # "none" =>
              /\ session'[s].user = session[s].user /\ session'[s].password = session[s].password
              /\ session'[s].stage # "none"
              /\ session'[s].stage = "live" => session[s].stage = "live"
<1>0. TypeOK /\ SessionInv /\ session \in [SessionId -> Session]
  BY DEF Inv, TypeOK
<1>1. ASSUME NEW u \in Account, NEW password \in 0..MaxPasswords, RoomForSession, session' = NewSession(u, password)
      PROVE  Goal
  <2>1. PICK n \in SessionId :
           /\ session[n].stage = "none"
           /\ \A s \in SessionId \ {n} : session'[s] = session[s]
           /\ session' = [session EXCEPT ![n] = [user |-> u, stage |-> "live", password |-> password]]
    BY <1>0, <1>1, NewSessionStep
  <2>2. [user |-> u, stage |-> "live", password |-> password] \in Session
    BY DEF Session
  <2> QED BY <1>0, <2>1, <2>2
<1>2. ASSUME NEW u \in Account, NEW except, session' = EndSessions(u, except) PROVE Goal
  BY <1>0, <1>2, EndSessionsStep
<1>3. ASSUME NEW s \in SessionId, Live(s), session' = [session EXCEPT ![s].stage = "ended"] PROVE Goal
  BY <1>0, <1>3 DEF Session
<1>4. ASSUME UNCHANGED session PROVE Goal
  BY <1>0, <1>4
<1> HIDE DEF Goal
<1>5. ASSUME NEW r \in Request, request[r].pc = "open"
      PROVE  request[r].user \in Account /\ request[r].password \in 0..MaxPasswords
  BY <1>5 DEF Inv, RequestInv, Fits, TypeOK, RequestRecord
<1>6. 0 \in 0..MaxPasswords
  BY BoundsAssumption
<1>7. ASSUME Sessions PROVE Goal
  <2>1. ASSUME NEW r \in Request, request[r].pc = "open", RoomForSession,
               session' = NewSession(request[r].user, request[r].password)
        PROVE  Goal
    BY <1>1, <1>5, <2>1
  <2>2. ASSUME NEW u \in Account, session' = EndSessions(u, 0) PROVE Goal
    BY <1>2, <2>2
  <2> QED BY <1>3, <1>4, <1>7, <2>1, <2>2 DEF Sessions
<1>8. ASSUME NEW u \in Account, Makes(u) PROVE Goal
  BY <1>1, <1>4, <1>6, <1>8 DEF Makes
<1>9. ASSUME NEW u \in Account, Moves(u) PROVE Goal
  BY <1>1, <1>4, <1>6, <1>9 DEF Moves
<1>10. ASSUME NEW u \in Account, Repasses(u) PROVE Goal
  <2>1. PICK kept \in 0..MaxSessions : session' = EndSessions(u, kept)
    BY <1>10 DEF Repasses
  <2> QED BY <1>2, <2>1
<1>11. ASSUME NEW u \in Account, Closes(u) PROVE Goal
  <2>1. session' = EndSessions(u, 0)
    BY <1>11 DEF Closes
  <2> QED BY <1>2, <2>1
<1>12. ASSUME NEW u \in Account, Reopens(u) PROVE Goal
  BY <1>4, <1>12 DEF Reopens
<1>13. Sessions \/ \E u \in Account : Makes(u) \/ Moves(u) \/ Repasses(u) \/ Closes(u) \/ Reopens(u)
  BY Steps
<1>14. Goal
  BY <1>7, <1>8, <1>9, <1>10, <1>11, <1>12, <1>13
<1> QED BY <1>14 DEF Goal

\* One account that changes without taking an address or an identity of another keeps AccountInv.
LEMMA OneAccount ==
  ASSUME Inv, NEW u \in Account, NEW new \in User, user' = [user EXCEPT ![u] = new],
         new.subject # None => new.provider = "google",
         \A v \in Account \ {u} : user[v].made =>
           /\ new.email # None => user[v].email # new.email
           /\ new.subject # None => user[v].subject # new.subject
  PROVE  AccountInv'
<1>1. user \in [Account -> User] /\ AccountInv
  BY DEF Inv, TypeOK
<1>2. \A v \in Account : user'[v] = IF v = u THEN new ELSE user[v]
  BY <1>1
<1>3. ASSUME NEW v \in Account PROVE user'[v].subject # None => user'[v].provider = "google"
  BY <1>1, <1>2 DEF AccountInv
<1>4. ASSUME NEW v \in Account, NEW w \in Account, v # w, user'[v].made, user'[w].made
      PROVE  /\ user'[v].email # None => user'[v].email # user'[w].email
             /\ user'[v].subject # None => user'[v].subject # user'[w].subject
  <2>1. CASE v = u
    BY <1>2, <1>4, <2>1
  <2>2. CASE w = u
    BY <1>2, <1>4, <2>2
  <2>3. CASE v # u /\ w # u
    BY <1>1, <1>2, <1>4, <2>3 DEF AccountInv, IdentitiesUnique
  <2> QED BY <2>1, <2>2, <2>3
<1> QED BY <1>3, <1>4 DEF AccountInv, IdentitiesUnique

\* No step gives an address or an identity to a second account.
LEMMA AccountStep ==
  ASSUME Inv, [Next]_vars
  PROVE  AccountInv'
<1>0. /\ user \in [Account -> User] /\ AccountInv /\ None \notin Account
      /\ \A u \in Account : ~user[u].made => user[u] = Unmade
      /\ user' \in [Account -> User]
  BY UserType, NamesAssumption DEF Inv, TypeOK
<1>1. ASSUME NEW u \in Account, NEW r \in Request, ~user[u].made, request[r].email \in Address,
             Unused(request[r].email, None, None),
             user' = [user EXCEPT ![u] = [Unmade EXCEPT
               !.made = TRUE, !.email = request[r].email, !.password = 1, !.isActive = TRUE]]
      PROVE  AccountInv'
  <2> DEFINE new == [Unmade EXCEPT !.made = TRUE, !.email = request[r].email, !.password = 1, !.isActive = TRUE]
  <2>1. new.email = request[r].email /\ new.subject = None
    BY DEF Unmade
  <2> HIDE DEF new
  <2>2. user' = [user EXCEPT ![u] = new]
    BY <1>1 DEF new
  <2>3. new \in User
    BY <1>0, <2>2
  <2>4. \A v \in Account \ {u} : user[v].made => user[v].email # new.email
    BY <1>0, <1>1, <2>1 DEF Unused
  <2> QED BY <2>1, <2>2, <2>3, <2>4, OneAccount
<1>2. ASSUME NEW u \in Account, NEW r \in Request, ~user[u].made, request[r].subject \in Subject,
             Unused(request[r].email, request[r].subject, None),
             user' = [user EXCEPT ![u] = [Unmade EXCEPT
               !.made = TRUE, !.email = request[r].email, !.provider = "google",
               !.subject = request[r].subject, !.isActive = TRUE]]
      PROVE  AccountInv'
  <2> DEFINE new == [Unmade EXCEPT !.made = TRUE, !.email = request[r].email, !.provider = "google",
                                   !.subject = request[r].subject, !.isActive = TRUE]
  <2>1. new.email = request[r].email /\ new.subject = request[r].subject /\ new.provider = "google"
    BY DEF Unmade
  <2> HIDE DEF new
  <2>2. user' = [user EXCEPT ![u] = new]
    BY <1>2 DEF new
  <2>3. new \in User
    BY <1>0, <2>2
  <2>4. \A v \in Account \ {u} : user[v].made =>
          user[v].email # new.email /\ (new.subject # None => user[v].subject # new.subject)
    BY <1>0, <1>2, <2>1 DEF Unused
  <2> QED BY <2>1, <2>2, <2>3, <2>4, OneAccount
<1>3. ASSUME NEW u \in Account, Makes(u) PROVE AccountInv'
  BY <1>1, <1>2, <1>3 DEF Makes, Inv, RequestInv, Fits
<1>4. ASSUME NEW u \in Account, Moves(u) PROVE AccountInv'
  <2>1. PICK a \in Address : Unused(a, None, u) /\ user' = [user EXCEPT ![u].email = a]
    BY <1>4 DEF Moves
  <2> DEFINE new == [user[u] EXCEPT !.email = a]
  <2>2. user[u] \in User
    BY <1>0
  <2>3. new \in User /\ new.email = a /\ new.subject = user[u].subject /\ new.provider = user[u].provider
    BY <2>2 DEF User
  <2>4. user' = [user EXCEPT ![u] = new] /\ user[u].made
    BY <1>0, <1>4, <2>1 DEF Moves
  <2> HIDE DEF new
  <2>5. \A v \in Account \ {u} : user[v].made => user[v].email # new.email
    BY <2>1, <2>3 DEF Unused
  <2>6. \A v \in Account \ {u} : user[v].made /\ new.subject # None => user[v].subject # new.subject
    BY <1>0, <2>3, <2>4 DEF AccountInv, IdentitiesUnique
  <2>7. new.subject # None => new.provider = "google"
    BY <1>0, <2>3 DEF AccountInv
  <2> QED BY <2>3, <2>4, <2>5, <2>6, <2>7, OneAccount
<1>5. ASSUME NEW u \in Account, NEW new \in User, user[u].made, user' = [user EXCEPT ![u] = new],
             new.provider = user[u].provider, new.email \in {user[u].email, None},
             new.subject \in {user[u].subject, None}
      PROVE  AccountInv'
  <2>1. \A v \in Account \ {u} : user[v].made =>
          /\ new.email # None => user[v].email # new.email
          /\ new.subject # None => user[v].subject # new.subject
    BY <1>0, <1>5 DEF AccountInv, IdentitiesUnique
  <2>2. new.subject # None => new.provider = "google"
    BY <1>0, <1>5 DEF AccountInv
  <2> QED BY <1>5, <2>1, <2>2, OneAccount
<1>6. ASSUME NEW u \in Account, Repasses(u) PROVE AccountInv'
  <2>1. PICK kept \in 0..MaxSessions : user' = [user EXCEPT ![u].password = @ + 1, ![u].kept = kept]
    BY <1>6 DEF Repasses
  <2> DEFINE new == [user[u] EXCEPT !.password = user[u].password + 1, !.kept = kept]
  <2>2. user[u] \in User /\ user[u].made
    BY <1>0, <1>6 DEF Repasses
  <2>3. new.provider = user[u].provider /\ new.email = user[u].email /\ new.subject = user[u].subject
    BY <2>2 DEF User
  <2>4. user' = [user EXCEPT ![u] = new]
    BY <1>0, <2>1
  <2> HIDE DEF new
  <2>5. new \in User
    BY <1>0, <2>4
  <2> QED BY <1>5, <2>2, <2>3, <2>4, <2>5
<1>7. ASSUME NEW u \in Account, Closes(u) PROVE AccountInv'
  <2> DEFINE off == [user[u] EXCEPT !.isActive = FALSE]
             gone == [user[u] EXCEPT !.email = None, !.subject = None, !.password = 0, !.kept = 0,
                                     !.isActive = FALSE, !.retired = TRUE]
  <2>1. user[u] \in User /\ user[u].made
    BY <1>0, <1>7 DEF Closes
  <2>2. /\ off.provider = user[u].provider /\ off.email = user[u].email /\ off.subject = user[u].subject
        /\ gone.provider = user[u].provider /\ gone.email = None /\ gone.subject = None
    BY <2>1 DEF User
  <2>3. user' = [user EXCEPT ![u] = off] \/ user' = [user EXCEPT ![u] = gone]
    BY <1>0, <1>7 DEF Closes
  <2> HIDE DEF off, gone
  <2>4. CASE user' = [user EXCEPT ![u] = off]
    <3>1. off \in User
      BY <1>0, <2>4
    <3> QED BY <1>5, <2>1, <2>2, <2>4, <3>1
  <2>5. CASE user' = [user EXCEPT ![u] = gone]
    <3>1. gone \in User
      BY <1>0, <2>5
    <3> QED BY <1>5, <2>1, <2>2, <2>5, <3>1
  <2> QED BY <2>3, <2>4, <2>5
<1>8. ASSUME NEW u \in Account, Reopens(u) PROVE AccountInv'
  <2> DEFINE new == [user[u] EXCEPT !.isActive = TRUE]
  <2>1. user[u] \in User /\ user[u].made
    BY <1>0, <1>8 DEF Reopens
  <2>2. new.provider = user[u].provider /\ new.email = user[u].email /\ new.subject = user[u].subject
    BY <2>1 DEF User
  <2>3. user' = [user EXCEPT ![u] = new]
    BY <1>0, <1>8 DEF Reopens
  <2> HIDE DEF new
  <2>4. new \in User
    BY <1>0, <2>3
  <2> QED BY <1>5, <2>1, <2>2, <2>3, <2>4
<1>9. CASE Sessions
  BY <1>0, <1>9 DEF Sessions, AccountInv, IdentitiesUnique
<1>10. Sessions \/ \E u \in Account : Makes(u) \/ Moves(u) \/ Repasses(u) \/ Closes(u) \/ Reopens(u)
  BY Steps
<1> QED BY <1>3, <1>4, <1>6, <1>7, <1>8, <1>9, <1>10

\* The account u is active after the step.
ActiveThen(u) == user'[u].made /\ user'[u].isActive /\ ~user'[u].retired

\* A session that begins is of an account that was made, by the way in that the account has, and with
\* Google only while the account is active.
LEMMA BeginsRight ==
  ASSUME Inv, [Next]_vars, NEW s \in SessionId, session[s].stage = "none"
  PROVE  \/ session'[s] = session[s]
         \/ /\ session'[s].user \in Account /\ user'[session'[s].user].made /\ session'[s].stage = "live"
            /\ session'[s].password = 0 <=> user'[session'[s].user].provider = "google"
            /\ user'[session'[s].user].provider = "google" => ActiveThen(session'[s].user)
<1> DEFINE Begins == /\ session'[s].user \in Account /\ user'[session'[s].user].made /\ session'[s].stage = "live"
                     /\ session'[s].password = 0 <=> user'[session'[s].user].provider = "google"
                     /\ user'[session'[s].user].provider = "google" => ActiveThen(session'[s].user)
<1>0. /\ TypeOK /\ SessionInv /\ user \in [Account -> User] /\ session \in [SessionId -> Session]
      /\ None \notin Account
  BY NamesAssumption DEF Inv, TypeOK
<1>1. ASSUME NEW u \in Account, NEW password, RoomForSession, session' = NewSession(u, password), user'[u].made,
             password = 0 <=> user'[u].provider = "google", user'[u].provider = "google" => ActiveThen(u)
      PROVE  session'[s] = session[s] \/ Begins
  <2>1. PICK n \in SessionId :
           /\ session'[n] = [user |-> u, stage |-> "live", password |-> password]
           /\ \A t \in SessionId \ {n} : session'[t] = session[t]
    BY <1>0, <1>1, NewSessionStep
  <2>2. CASE s = n
    <3>1. session'[s].user = u /\ session'[s].stage = "live" /\ session'[s].password = password
      BY <2>1, <2>2
    <3>2. u \in Account
      OBVIOUS
    <3>3. session'[s].password = 0 <=> user'[u].provider = "google"
      BY <1>1, <3>1
    <3> QED BY <1>1, <3>1, <3>2, <3>3
  <2> QED BY <2>1, <2>2
<1>2. ASSUME NEW u \in Account, NEW except, session' = EndSessions(u, except) PROVE session'[s] = session[s]
  <2>1. session[s].user # u
    BY <1>0, <1>2 DEF SessionInv
  <2> QED BY <1>2, <2>1 DEF EndSessions
<1> HIDE DEF Begins
<1>3. ASSUME Sessions PROVE session'[s] = session[s] \/ Begins
  <2>1. ASSUME NEW r \in Request, request[r].pc = "open", RoomForSession,
               session' = NewSession(request[r].user, request[r].password)
        PROVE  session'[s] = session[s] \/ Begins
    <3>1. /\ request[r].user \in Account /\ user'[request[r].user].made
          /\ user'[request[r].user].provider = "local" /\ request[r].password # 0
      BY <1>3, <2>1 DEF Inv, RequestInv, Fits, Sessions
    <3> QED BY <1>1, <2>1, <3>1
  <2>2. ASSUME NEW t \in SessionId, Live(t), session' = [session EXCEPT ![t].stage = "ended"]
        PROVE  session'[s] = session[s]
    BY <1>0, <2>2 DEF Live
  <2>3. ASSUME UNCHANGED session PROVE session'[s] = session[s]
    BY <2>3
  <2>4. ASSUME NEW u \in Account, session' = EndSessions(u, 0) PROVE session'[s] = session[s]
    BY <1>2, <2>4
  <2> QED BY <1>3, <2>1, <2>2, <2>3, <2>4 DEF Sessions
<1>4. ASSUME NEW u \in Account, Makes(u) PROVE session'[s] = session[s] \/ Begins
  <2>1. ASSUME NEW r \in Request,
               user' = [user EXCEPT ![u] = [Unmade EXCEPT
                 !.made = TRUE, !.email = request[r].email, !.provider = "google",
                 !.subject = request[r].subject, !.isActive = TRUE]],
               RoomForSession, session' = NewSession(u, 0)
        PROVE  session'[s] = session[s] \/ Begins
    <3>1. user'[u].made /\ user'[u].provider = "google" /\ ActiveThen(u)
      BY <1>0, <2>1 DEF Unmade, ActiveThen
    <3> QED BY <1>1, <2>1, <3>1
  <2>2. ASSUME UNCHANGED session PROVE session'[s] = session[s]
    BY <2>2
  <2> QED BY <1>4, <2>1, <2>2 DEF Makes
<1>5. ASSUME NEW u \in Account, Moves(u) PROVE session'[s] = session[s] \/ Begins
  <2>1. ASSUME user[u].provider = "google", RoomForSession, session' = NewSession(u, 0)
        PROVE  session'[s] = session[s] \/ Begins
    <3>1. PICK a \in Address : user' = [user EXCEPT ![u].email = a]
      BY <1>5 DEF Moves
    <3>2. user'[u].made /\ user'[u].provider = "google" /\ ActiveThen(u)
      BY <1>0, <1>5, <2>1, <3>1 DEF Moves, Active, ActiveThen, User
    <3> QED BY <1>1, <2>1, <3>2
  <2>2. ASSUME UNCHANGED session PROVE session'[s] = session[s]
    BY <2>2
  <2> QED BY <1>5, <2>1, <2>2 DEF Moves
<1>6. ASSUME NEW u \in Account, Repasses(u) PROVE session'[s] = session[s]
  <2>1. PICK kept \in 0..MaxSessions : session' = EndSessions(u, kept)
    BY <1>6 DEF Repasses
  <2> QED BY <1>2, <2>1
<1>7. ASSUME NEW u \in Account, Closes(u) \/ Reopens(u) PROVE session'[s] = session[s]
  BY <1>2, <1>7 DEF Closes, Reopens
<1>8. Sessions \/ \E u \in Account : Makes(u) \/ Moves(u) \/ Repasses(u) \/ Closes(u) \/ Reopens(u)
  BY Steps
<1>9. session'[s] = session[s] \/ Begins
  BY <1>3, <1>4, <1>5, <1>6, <1>7, <1>8
<1> QED BY <1>9 DEF Begins

\* While a session stays live its account stays as active as it was.
LEMMA StaysActive ==
  ASSUME Inv, [Next]_vars, NEW s \in SessionId, Live(s), session'[s].stage = "live", Active(session[s].user)
  PROVE  ActiveThen(session[s].user)
<1> DEFINE a == session[s].user
<1>0. /\ TypeOK /\ SessionInv /\ user \in [Account -> User] /\ a \in Account
      /\ user[a].made /\ user[a].isActive /\ ~user[a].retired
  BY NamesAssumption DEF Inv, TypeOK, SessionInv, Live, Active, Session
<1> HIDE DEF a
<1>1. ASSUME NEW u \in Account, Makes(u) PROVE user'[a] = user[a]
  BY <1>0, <1>1 DEF Makes
<1>2. ASSUME NEW u \in Account, Moves(u) PROVE user'[a].made /\ user'[a].isActive /\ ~user'[a].retired
  <2>1. PICK e \in Address : user' = [user EXCEPT ![u].email = e]
    BY <1>2 DEF Moves
  <2> QED BY <1>0, <2>1 DEF User
<1>3. ASSUME NEW u \in Account, Repasses(u) PROVE user'[a].made /\ user'[a].isActive /\ ~user'[a].retired
  <2>1. PICK kept \in 0..MaxSessions : user' = [user EXCEPT ![u].password = @ + 1, ![u].kept = kept]
    BY <1>3 DEF Repasses
  <2> QED BY <1>0, <2>1 DEF User
<1>4. ASSUME NEW u \in Account, Closes(u) PROVE user'[a] = user[a]
  <2>1. session' = EndSessions(u, 0)
    BY <1>4 DEF Closes
  <2>2. a # u
    <3>1. session[s].user # u \/ s = 0
      BY <1>0, <2>1, EndSessionsStep
    <3>2. s # 0
      BY DEF SessionId
    <3> QED BY <3>1, <3>2 DEF a
  <2> QED BY <1>0, <1>4, <2>2 DEF Closes
<1>5. ASSUME NEW u \in Account, Reopens(u) PROVE user'[a].made /\ user'[a].isActive /\ ~user'[a].retired
  BY <1>0, <1>5 DEF Reopens, User
<1>6. ASSUME Sessions PROVE user'[a] = user[a]
  BY <1>6 DEF Sessions
<1>7. Sessions \/ \E u \in Account : Makes(u) \/ Moves(u) \/ Repasses(u) \/ Closes(u) \/ Reopens(u)
  BY Steps
<1>8. user'[a].made /\ user'[a].isActive /\ ~user'[a].retired
  BY <1>0, <1>1, <1>2, <1>3, <1>4, <1>5, <1>6, <1>7
<1> QED BY <1>8 DEF ActiveThen, a

\* Every step keeps SessionInv.
LEMMA SessionStep ==
  ASSUME Inv, [Next]_vars
  PROVE  SessionInv'
<1>0. /\ SessionInv /\ session \in [SessionId -> Session] /\ session' \in [SessionId -> Session]
      /\ None \notin Account
  BY SessionKept, NamesAssumption DEF Inv, TypeOK
<1>1. ASSUME NEW s \in SessionId, session[s].stage # "none"
      PROVE  /\ session'[s].stage # "none" /\ session'[s].user # None /\ user'[session'[s].user].made
             /\ session'[s].password = 0 <=> user'[session'[s].user].provider = "google"
             /\ Live(s)' /\ user'[session'[s].user].provider = "google" => ActiveThen(session'[s].user)
  <2>1. /\ session[s].user \in Account /\ session[s].user # None /\ user[session[s].user].made
        /\ session[s].password = 0 <=> user[session[s].user].provider = "google"
        /\ Live(s) /\ user[session[s].user].provider = "google" => Active(session[s].user)
    BY <1>0, <1>1 DEF SessionInv, Session, GoogleOpensGoogle, GoogleSessionsEnd
  <2>2. /\ session'[s].user = session[s].user /\ session'[s].password = session[s].password
        /\ session'[s].stage # "none" /\ (session'[s].stage = "live" => session[s].stage = "live")
    BY <1>1, SessionKept
  <2>3. user'[session[s].user].made /\ user'[session[s].user].provider = user[session[s].user].provider
    BY <2>1, AccountKept
  <2>4. Live(s)' /\ user'[session'[s].user].provider = "google" => ActiveThen(session'[s].user)
    <3>1. SUFFICES ASSUME Live(s)', user'[session'[s].user].provider = "google" PROVE ActiveThen(session'[s].user)
      OBVIOUS
    <3>2. Live(s) /\ session'[s].stage = "live" /\ Active(session[s].user)
      BY <2>1, <2>2, <2>3, <3>1 DEF Live
    <3>3. ActiveThen(session[s].user)
      BY <3>2, StaysActive
    <3> QED BY <2>2, <3>3
  <2> QED BY <2>1, <2>2, <2>3, <2>4
<1>2. ASSUME NEW s \in SessionId, session[s].stage = "none"
      PROVE  /\ session'[s].stage = "none" <=> session'[s].user = None
             /\ session'[s].stage # "none" =>
                  /\ user'[session'[s].user].made
                  /\ session'[s].password = 0 <=> user'[session'[s].user].provider = "google"
             /\ Live(s)' /\ user'[session'[s].user].provider = "google" => ActiveThen(session'[s].user)
  BY <1>0, <1>2, BeginsRight DEF SessionInv, Live
<1> QED BY <1>1, <1>2 DEF SessionInv, GoogleOpensGoogle, GoogleSessionsEnd, Active, ActiveThen

\* Under the guard of a transaction an active account stays active.
LEMMA GuardKeepsActive ==
  ASSUME Inv, [Next]_vars, guard # None, NEW u \in Account, Active(u)
  PROVE  ActiveThen(u)
<1>0. user \in [Account -> User] /\ user[u].made /\ user[u].isActive /\ ~user[u].retired
  BY DEF Inv, TypeOK, Active
<1>1. ASSUME NEW v \in Account, Makes(v) PROVE user'[u] = user[u]
  BY <1>0, <1>1 DEF Makes
<1>2. ASSUME NEW v \in Account, Moves(v) PROVE ActiveThen(u)
  <2>1. PICK e \in Address : user' = [user EXCEPT ![v].email = e]
    BY <1>2 DEF Moves
  <2> QED BY <1>0, <2>1 DEF User, ActiveThen
<1>3. ASSUME NEW v \in Account, Repasses(v) PROVE ActiveThen(u)
  <2>1. PICK kept \in 0..MaxSessions : user' = [user EXCEPT ![v].password = @ + 1, ![v].kept = kept]
    BY <1>3 DEF Repasses
  <2> QED BY <1>0, <2>1 DEF User, ActiveThen
<1>4. ASSUME NEW v \in Account, Reopens(v) PROVE ActiveThen(u)
  BY <1>0, <1>4 DEF Reopens, User, ActiveThen
<1>5. ASSUME Sessions PROVE user'[u] = user[u]
  BY <1>5 DEF Sessions
<1>6. Sessions \/ \E v \in Account : Makes(v) \/ Moves(v) \/ Repasses(v) \/ Closes(v) \/ Reopens(v)
  BY Steps
<1>7. \A v \in Account : ~Closes(v)
  BY DEF Closes
<1> QED BY <1>0, <1>1, <1>2, <1>3, <1>4, <1>5, <1>6, <1>7 DEF ActiveThen

\* What a request remembers goes on to fit while others take steps, if its transaction stays open.
LEMMA OthersFit ==
  ASSUME Inv, [Next]_vars, NEW q \in Request, request'[q] = request[q], guard = q => guard' = q
  PROVE  Fits(q)'
<1> DEFINE req == request[q]
<1>0. Fits(q) /\ q # None /\ req \in RequestRecord
  BY NamesAssumption DEF Inv, RequestInv, TypeOK
<1>1. req.pc = "open" => /\ req.user \in Account /\ user'[req.user].made
                         /\ user'[req.user].provider = "local" /\ req.password # 0
  BY <1>0, AccountKept DEF Fits
<1>2. req.pc = "commit" => /\ guard' = q
                           /\ req.user # None => ActiveThen(req.user) /\ user'[req.user].provider = "google"
  <2>1. SUFFICES ASSUME req.pc = "commit"
                 PROVE  /\ guard' = q
                        /\ req.user # None => ActiveThen(req.user) /\ user'[req.user].provider = "google"
    OBVIOUS
  <2>2. guard = q /\ guard' = q /\ (req.user # None => Active(req.user) /\ user[req.user].provider = "google")
    BY <1>0, <2>1 DEF Fits
  <2>3. ASSUME req.user # None PROVE ActiveThen(req.user) /\ user'[req.user].provider = "google"
    <3>1. req.user \in Account /\ user[req.user].made
      BY <1>0, <2>2, <2>3 DEF RequestRecord, Active
    <3> QED BY <1>0, <2>2, <2>3, <3>1, GuardKeepsActive, AccountKept
  <2> QED BY <2>2, <2>3
<1>3. ASSUME req.pc \in {"auth", "password", "logout"}
      PROVE  req.session \in SessionId /\ session'[req.session].stage # "none" /\ req.user = session'[req.session].user
  BY <1>0, <1>3, SessionKept DEF Fits
<1>4. ASSUME req.pc = "password", req.password # 0 PROVE user'[req.user].provider = "local"
  <2>1. /\ req.session \in SessionId /\ session[req.session].stage # "none"
        /\ req.user = session[req.session].user /\ user[req.user].provider = "local"
    BY <1>0, <1>4 DEF Fits
  <2>2. req.user \in Account /\ user[req.user].made
    BY <1>0, <2>1 DEF Inv, SessionInv, RequestRecord
  <2> QED BY <2>1, <2>2, AccountKept
<1>5. req = request'[q]
  OBVIOUS
<1>6. /\ req.pc = "create" => req.email \in Address
      /\ req.pc \in {"profile", "identity", "commit"} => req.state \in StateId
      /\ req.pc \in {"identity", "commit"} => req.subject \in Subject /\ req.email \in Address
      /\ req.pc = "auth" => req.next \in {"password", "logout"} /\ req.password = 0
  BY <1>0 DEF Fits
<1> HIDE DEF req
<1> QED BY <1>1, <1>2, <1>3, <1>4, <1>5, <1>6 DEF Fits, Active, ActiveThen

\* A step of the request r gives it a record of its own kind that fits.
LEMMA OwnFits ==
  ASSUME Inv, NEW r \in Request, RequestNext(r)
  PROVE  \E new \in RequestRecord : request' = [request EXCEPT ![r] = new] /\ Fits(r)'
<1>0. /\ request \in [Request -> RequestRecord] /\ request[r] \in RequestRecord /\ Fits(r)
      /\ user \in [Account -> User] /\ session \in [SessionId -> Session] /\ SessionInv /\ AccountInv
      /\ \A u \in Account : user[u].provider = "google" => user[u].password = 0
      /\ 1 \in 0..MaxPasswords /\ 0 \in 0..MaxPasswords /\ 0 \in 0..MaxSessions /\ 0 \in 0..MaxStates
      /\ SessionId \subseteq 0..MaxSessions /\ StateId \subseteq 0..MaxStates
      /\ None \notin Account \cup Address \cup Subject \cup Request
  BY BoundsAssumption, NamesAssumption DEF Inv, RequestInv, TypeOK, SessionId, StateId
<1> DEFINE Goal == \E new \in RequestRecord : request' = [request EXCEPT ![r] = new] /\ Fits(r)'
<1>1. Idle \in RequestRecord /\ Idle.pc = "idle"
  BY <1>0 DEF Idle, RequestRecord
<1>2. ASSUME NEW new \in RequestRecord, request' = [request EXCEPT ![r] = new],
             request'[r] = new => Fits(r)'
      PROVE  Goal
  BY <1>0, <1>2
<1> HIDE DEF Goal
<1>3. ASSUME request' = [request EXCEPT ![r] = Idle] PROVE Goal
  <2>1. request'[r] = Idle => Fits(r)'
    BY <1>1 DEF Fits
  <2> QED BY <1>1, <1>2, <1>3, <2>1
<1>4. ASSUME NEW a \in Address, SignupCheck(r, a) PROVE Goal
  <2> DEFINE new == [Idle EXCEPT !.pc = "create", !.email = a]
  <2>1. new \in RequestRecord /\ new.pc = "create" /\ new.email = a
    BY <1>0 DEF Idle, RequestRecord
  <2>2. request' = [request EXCEPT ![r] = new]
    BY <1>4 DEF SignupCheck, Starts
  <2> HIDE DEF new
  <2>3. request'[r] = new => Fits(r)'
    BY <2>1 DEF Fits
  <2> QED BY <1>2, <2>1, <2>2, <2>3
<1>5. ASSUME SignupCreate(r) PROVE Goal
  <2> DEFINE new == [Idle EXCEPT !.pc = "open", !.user = NextAccount, !.password = 1]
  <2>1. RoomForAccount => NextAccount \in Account
    BY DEF RoomForAccount, NextAccount
  <2> HIDE DEF NextAccount
  <2>2. CASE Ends(r)
    BY <1>3, <2>2 DEF Ends
  <2>3. CASE ~Ends(r)
    <3>1. /\ request' = [request EXCEPT ![r] = new] /\ NextAccount \in Account
          /\ user' = [user EXCEPT ![NextAccount] = [Unmade EXCEPT
               !.made = TRUE, !.email = request[r].email, !.password = 1, !.isActive = TRUE]]
      BY <1>5, <2>1, <2>3 DEF SignupCreate
    <3>2. new \in RequestRecord /\ new.pc = "open" /\ new.user = NextAccount /\ new.password = 1
      BY <1>0, <3>1 DEF Idle, RequestRecord
    <3>3. user'[NextAccount].made /\ user'[NextAccount].provider = "local"
      BY <1>0, <3>1 DEF Unmade
    <3> HIDE DEF new
    <3>4. request'[r] = new => Fits(r)'
      BY <3>1, <3>2, <3>3 DEF Fits
    <3> QED BY <1>2, <3>1, <3>2, <3>4
  <2> QED BY <2>2, <2>3
<1>6. ASSUME NEW u \in Account, LoginRead(r, u) PROVE Goal
  <2> DEFINE new == [Idle EXCEPT !.pc = "open", !.user = u, !.password = user[u].password]
  <2>1. user[u].made /\ user[u].password # 0 /\ user[u] \in User /\ user'[u] = user[u]
    BY <1>0, <1>6 DEF LoginRead, Active
  <2>2. user[u].provider = "local" /\ user[u].password \in 0..MaxPasswords
    BY <1>0, <2>1 DEF User
  <2>3. new \in RequestRecord /\ new.pc = "open" /\ new.user = u /\ new.password = user[u].password
    BY <1>0, <2>2 DEF Idle, RequestRecord
  <2>4. request' = [request EXCEPT ![r] = new]
    BY <1>6 DEF LoginRead, Starts
  <2> HIDE DEF new
  <2>5. request'[r] = new => Fits(r)'
    BY <2>1, <2>2, <2>3 DEF Fits
  <2> QED BY <1>2, <2>3, <2>4, <2>5
<1>7. ASSUME Open(r) \/ GoogleCommit(r) \/ Logout(r) PROVE Goal
  BY <1>3, <1>7 DEF Open, GoogleCommit, Logout, Ends
<1>8. ASSUME NEW st \in StateId, GoogleCallback(r, st) PROVE Goal
  <2> DEFINE new == [Idle EXCEPT !.pc = "profile", !.state = st]
  <2>1. new \in RequestRecord /\ new.pc = "profile" /\ new.state = st
    BY <1>0 DEF Idle, RequestRecord
  <2>2. request' = [request EXCEPT ![r] = new]
    BY <1>8 DEF GoogleCallback, Starts
  <2> HIDE DEF new
  <2>3. request'[r] = new => Fits(r)'
    BY <2>1 DEF Fits
  <2> QED BY <1>2, <2>1, <2>2, <2>3
<1>9. ASSUME GoogleProfile(r) PROVE Goal
  <2>1. ASSUME NEW g \in Subject, NEW a \in Address,
               request' = [request EXCEPT ![r].pc = "identity", ![r].subject = g, ![r].email = a]
        PROVE  Goal
    <3> DEFINE new == [request[r] EXCEPT !.pc = "identity", !.subject = g, !.email = a]
    <3>1. /\ new \in RequestRecord /\ new.pc = "identity" /\ new.subject = g /\ new.email = a
          /\ new.state = request[r].state
      BY <1>0 DEF RequestRecord
    <3>2. request' = [request EXCEPT ![r] = new]
      BY <1>0, <2>1
    <3>3. request[r].state \in StateId
      BY <1>0, <1>9 DEF GoogleProfile, Fits
    <3> HIDE DEF new
    <3>4. request'[r] = new => Fits(r)'
      BY <3>1, <3>3 DEF Fits
    <3> QED BY <1>2, <3>1, <3>2, <3>4
  <2> QED BY <1>3, <1>9, <2>1 DEF GoogleProfile, Ends
<1>10. ASSUME GoogleResolve(r) PROVE Goal
  <2> DEFINE has == Resolved(request[r].subject, request[r].email)
             who == IF has = {} THEN None ELSE CHOOSE u \in has : TRUE
             new == [request[r] EXCEPT !.pc = "commit", !.user = who]
  <2>1. CASE Ends(r)
    BY <1>3, <2>1 DEF Ends
  <2>2. CASE ~Ends(r)
    <3>1. /\ request' = [request EXCEPT ![r].pc = "commit", ![r].user = who]
          /\ guard' = r /\ user' = user /\ request[r].pc = "identity"
          /\ \A u \in has : Active(u)
      BY <1>10, <2>2 DEF GoogleResolve, TouchGuard
    <3>2. has \subseteq Account /\ \A u \in has : user[u].provider = "google"
      BY <1>0, <3>1 DEF Resolved, AccountInv, Fits
    <3>3. who \in Account \cup {None} /\ (who # None => Active(who) /\ user[who].provider = "google")
      BY <3>1, <3>2
    <3> HIDE DEF who
    <3>4. /\ new \in RequestRecord /\ new.pc = "commit" /\ new.user = who /\ new.state = request[r].state
          /\ new.subject = request[r].subject /\ new.email = request[r].email
      BY <1>0, <3>3 DEF RequestRecord
    <3>5. request' = [request EXCEPT ![r] = new]
      BY <1>0, <3>1
    <3>6. request[r].state \in StateId /\ request[r].subject \in Subject /\ request[r].email \in Address
      BY <1>0, <3>1 DEF Fits
    <3> HIDE DEF new
    <3>7. request'[r] = new => Fits(r)'
      BY <3>1, <3>3, <3>4, <3>6 DEF Fits, Active
    <3> QED BY <1>2, <3>4, <3>5, <3>7
  <2> QED BY <2>1, <2>2
<1>11. ASSUME NEW s \in SessionId, NEW next \in {"password", "logout"}, Come(r, s, next) PROVE Goal
  <2> DEFINE new == [Idle EXCEPT !.pc = "auth", !.user = session[s].user, !.session = s, !.next = next,
                                 !.live = Live(s)]
  <2>1. session[s].user \in Account \cup {None} /\ session[s].stage # "none" /\ session' = session
    BY <1>0, <1>11 DEF Come, Session
  <2>2. Live(s) \in BOOLEAN
    BY DEF Live
  <2>3. /\ new \in RequestRecord /\ new.pc = "auth" /\ new.user = session[s].user /\ new.session = s
        /\ new.next = next /\ new.password = 0
    BY <1>0, <2>1, <2>2 DEF Idle, RequestRecord
  <2>4. request' = [request EXCEPT ![r] = new]
    BY <1>11 DEF Come, Starts
  <2> HIDE DEF new
  <2>5. request'[r] = new => Fits(r)'
    BY <2>1, <2>3 DEF Fits
  <2> QED BY <1>2, <2>3, <2>4, <2>5
<1>12. ASSUME NEW part \in {"user", "session"}, Authenticate(r, part) PROVE Goal
  <2> DEFINE saw == request[r].seen \cup {part}
             pc == IF saw = {"user", "session"} THEN request[r].next ELSE "auth"
             new == [request[r] EXCEPT !.seen = saw, !.pc = pc]
  <2>1. CASE Ends(r)
    BY <1>3, <2>1 DEF Ends
  <2>2. CASE ~Ends(r)
    <3>1. /\ request' = [request EXCEPT ![r].seen = saw, ![r].pc = pc]
          /\ session' = session /\ request[r].pc = "auth"
      BY <1>12, <2>2 DEF Authenticate
    <3>2. /\ request[r].next \in {"password", "logout"} /\ request[r].password = 0
          /\ request[r].session \in SessionId /\ session[request[r].session].stage # "none"
          /\ request[r].user = session[request[r].session].user
      BY <1>0, <3>1 DEF Fits
    <3>3. saw \in SUBSET {"user", "session"} /\ pc \in {"auth", "password", "logout"}
      BY <1>0, <3>2 DEF RequestRecord
    <3> HIDE DEF saw, pc
    <3>4. /\ new \in RequestRecord /\ new.pc = pc /\ new.user = request[r].user
          /\ new.session = request[r].session /\ new.next = request[r].next /\ new.password = request[r].password
      BY <1>0, <3>3 DEF RequestRecord
    <3>5. request' = [request EXCEPT ![r] = new]
      BY <1>0, <3>1
    <3> HIDE DEF new
    <3>6. request'[r] = new => Fits(r)'
      BY <3>1, <3>2, <3>3, <3>4 DEF Fits
    <3> QED BY <1>2, <3>4, <3>5, <3>6
  <2> QED BY <2>1, <2>2
<1>13. ASSUME ChangePassword(r) PROVE Goal
  <2> DEFINE u == request[r].user
             new == [request[r] EXCEPT !.password = user[u].password]
  <2>1. CASE Ends(r)
    BY <1>3, <2>1 DEF Ends
  <2>2. CASE ~Ends(r)
    <3>1. /\ request' = [request EXCEPT ![r].password = user[u].password]
          /\ user' = user /\ session' = session /\ request[r].pc = "password" /\ user[u].password # 0
      BY <1>13, <2>2 DEF ChangePassword
    <3>2. /\ request[r].session \in SessionId /\ session[request[r].session].stage # "none"
          /\ u = session[request[r].session].user
      BY <1>0, <3>1 DEF Fits
    <3>3. u \in Account
      BY <1>0, <3>2 DEF SessionInv, RequestRecord
    <3>4. user[u].provider = "local" /\ user[u].password \in 0..MaxPasswords
      BY <1>0, <3>1, <3>3 DEF User
    <3>5. /\ new \in RequestRecord /\ new.pc = "password" /\ new.user = u
          /\ new.session = request[r].session
      BY <1>0, <3>1, <3>4 DEF RequestRecord
    <3>6. request' = [request EXCEPT ![r] = new]
      BY <1>0, <3>1
    <3> HIDE DEF new
    <3>7. request'[r] = new => Fits(r)'
      BY <3>1, <3>2, <3>4, <3>5 DEF Fits
    <3> QED BY <1>2, <3>5, <3>6, <3>7
  <2> QED BY <2>1, <2>2
<1>14. Goal
  BY <1>4, <1>5, <1>6, <1>7, <1>8, <1>9, <1>10, <1>11, <1>12, <1>13 DEF RequestNext
<1> QED BY <1>14 DEF Goal

\* The guard changes hands only from nobody or to nobody.
LEMMA GuardStep ==
  ASSUME Inv, [Next]_vars
  PROVE  guard' \in Request \cup {None}
<1>0. guard \in Request \cup {None}
  BY DEF Inv, TypeOK
<1>1. ASSUME NEW r \in Request, RequestNext(r) PROVE guard' \in Request \cup {None}
  BY <1>0, <1>1 DEF RequestNext, SignupCheck, SignupCreate, LoginRead, Open, GoogleCallback, GoogleProfile,
                    GoogleResolve, TouchGuard, GoogleCommit, Come, Authenticate, ChangePassword, Logout
<1>2. ASSUME NEW u \in Account, AccountNext(u) PROVE guard' = guard
  BY <1>2 DEF AccountNext, ResetPassword, Suspend, Reactivate, ChangeRole, Retire, MoveAddress
<1>3. ASSUME GoogleRedirect \/ (\E st \in StateId : StateExpires(st)) \/ (\E s \in SessionId : SessionExpires(s))
             \/ UNCHANGED vars
      PROVE  guard' = guard
  BY <1>3 DEF GoogleRedirect, StateExpires, SessionExpires, vars
<1> QED BY <1>0, <1>1, <1>2, <1>3 DEF Next

\* The states of Google sign-ins keep their type.
LEMMA OAuthStep ==
  ASSUME Inv, [Next]_vars
  PROVE  oauth' \in [StateId -> OAuthState]
<1>0. oauth \in [StateId -> OAuthState]
  BY DEF Inv, TypeOK
<1>1. ASSUME NEW st \in StateId, NEW stage \in {"none", "stored", "used", "expired"},
             oauth' = [oauth EXCEPT ![st].stage = stage]
      PROVE  oauth' \in [StateId -> OAuthState]
  BY <1>0, <1>1 DEF OAuthState
<1>2. ASSUME NEW st \in StateId, oauth' = [oauth EXCEPT ![st].opened = @ + 1]
      PROVE  oauth' \in [StateId -> OAuthState]
  BY <1>0, <1>2 DEF OAuthState
<1>3. ASSUME NEW r \in Request, RequestNext(r) PROVE oauth' \in [StateId -> OAuthState]
  <2>1. CASE \E st \in StateId : GoogleCallback(r, st)
    BY <1>1, <2>1 DEF GoogleCallback, ConsumeState
  <2>2. CASE GoogleCommit(r)
    <3>1. request[r].state \in StateId
      BY <2>2 DEF GoogleCommit, Inv, RequestInv, Fits
    <3>2. oauth' = oauth \/ oauth' = [oauth EXCEPT ![request[r].state].opened = @ + 1]
      BY <2>2 DEF GoogleCommit
    <3> QED BY <1>0, <1>2, <3>1, <3>2
  <2>3. CASE ~(\E st \in StateId : GoogleCallback(r, st)) /\ ~GoogleCommit(r)
    <3>1. oauth' = oauth
      BY <1>3, <2>3 DEF RequestNext, SignupCheck, SignupCreate, LoginRead, Open, GoogleProfile, GoogleResolve, Come,
                        Authenticate, ChangePassword, Logout
    <3> QED BY <1>0, <3>1
  <2> QED BY <2>1, <2>2, <2>3
<1>4. ASSUME NEW u \in Account, AccountNext(u) PROVE oauth' = oauth
  BY <1>4 DEF AccountNext, ResetPassword, Suspend, Reactivate, ChangeRole, Retire, MoveAddress
<1>5. ASSUME (\E s \in SessionId : SessionExpires(s)) \/ UNCHANGED vars PROVE oauth' = oauth
  BY <1>5 DEF SessionExpires, vars
<1>6. ASSUME GoogleRedirect \/ \E st \in StateId : StateExpires(st) PROVE oauth' \in [StateId -> OAuthState]
  BY <1>1, <1>6 DEF GoogleRedirect, StateExpires
<1> QED BY <1>0, <1>3, <1>4, <1>5, <1>6 DEF Next

\* Every step keeps what is true of the requests.
LEMMA RequestStep ==
  ASSUME Inv, [Next]_vars
  PROVE  request' \in [Request -> RequestRecord] /\ RequestInv'
<1>0. request \in [Request -> RequestRecord] /\ None \notin Request
  BY NamesAssumption DEF Inv, TypeOK
<1>1. ASSUME NEW r \in Request, RequestNext(r)
      PROVE  request' \in [Request -> RequestRecord] /\ RequestInv'
  <2>1. PICK new \in RequestRecord : request' = [request EXCEPT ![r] = new] /\ Fits(r)'
    BY <1>1, OwnFits
  <2>2. ASSUME NEW q \in Request, q # r PROVE Fits(q)'
    <3>1. request'[q] = request[q]
      BY <1>0, <2>1, <2>2
    <3>2. guard = q => guard' = q
      BY <1>0, <1>1, <2>2
         DEF RequestNext, SignupCheck, SignupCreate, LoginRead, Open, GoogleCallback, GoogleProfile,
             GoogleResolve, TouchGuard, GoogleCommit, Come, Authenticate, ChangePassword, Logout
    <3> QED BY <3>1, <3>2, OthersFit
  <2> QED BY <1>0, <2>1, <2>2 DEF RequestInv
<1>2. ASSUME UNCHANGED <<guard, request>> PROVE request' \in [Request -> RequestRecord] /\ RequestInv'
  <2>1. ASSUME NEW q \in Request PROVE Fits(q)'
    BY <1>2, OthersFit
  <2> QED BY <1>0, <1>2, <2>1 DEF RequestInv
<1>3. ASSUME NEW u \in Account, AccountNext(u) PROVE UNCHANGED <<guard, request>>
  BY <1>3 DEF AccountNext, ResetPassword, Suspend, Reactivate, ChangeRole, Retire, MoveAddress
<1>4. ASSUME GoogleRedirect \/ (\E st \in StateId : StateExpires(st)) \/ (\E s \in SessionId : SessionExpires(s))
             \/ UNCHANGED vars
      PROVE  UNCHANGED <<guard, request>>
  BY <1>4 DEF GoogleRedirect, StateExpires, SessionExpires, vars
<1> QED BY <1>1, <1>2, <1>3, <1>4 DEF Next

-------------------------------------------------------------------------------
(* The theorems.                                                               *)

\* At the start there is no account, no session and no request.
LEMMA InitInv == Init => Inv
<1> SUFFICES ASSUME Init PROVE Inv
  OBVIOUS
<1>0. /\ 0 \in 0..MaxPasswords /\ 0 \in 0..MaxSessions /\ 0 \in 0..MaxStates /\ None \notin Account
  BY BoundsAssumption, NamesAssumption
<1>1. Unmade \in User /\ Idle \in RequestRecord
  BY <1>0 DEF Unmade, User, Idle, RequestRecord
<1>2. [user |-> None, stage |-> "none", password |-> 0] \in Session /\ [stage |-> "none", opened |-> 0] \in OAuthState
  BY <1>0 DEF Session, OAuthState
<1>3. \A u \in Account : user[u] = Unmade
  BY DEF Init
<1>4. TypeOK
  <2>1. Unmade.provider = "local" /\ ~Unmade.made
    BY DEF Unmade
  <2> QED BY <1>1, <1>2, <1>3, <2>1 DEF Init, TypeOK
<1>5. RequestInv
  BY DEF Init, RequestInv, Fits, Idle
<1>6. SessionInv
  BY <1>0 DEF Init, SessionInv, GoogleOpensGoogle, GoogleSessionsEnd, Live
<1>7. AccountInv
  BY <1>3 DEF AccountInv, IdentitiesUnique, Unmade
<1> QED BY <1>4, <1>5, <1>6, <1>7 DEF Inv

\* Inv always holds.
LEMMA Invariance == Spec => []Inv
<1>1. Inv /\ [Next]_vars => Inv'
  <2>1. SUFFICES ASSUME Inv, [Next]_vars PROVE Inv'
    OBVIOUS
  <2>2. TypeOK'
    BY <2>1, UserType, SessionKept, OAuthStep, GuardStep, RequestStep DEF TypeOK
  <2> QED BY <2>1, <2>2, RequestStep, SessionStep, AccountStep DEF Inv
<1> QED BY <1>1, InitInv, PTL DEF Spec

\* The documents and what requests remember have their types (User.js, RefreshToken.js, OAuthState.js).
THEOREM TypeCorrect == Spec => []TypeOK
<1>1. Inv => TypeOK
  BY DEF Inv
<1> QED BY <1>1, Invariance, PTL

\* No two accounts use one address or one Google identity (authController.js:65).
THEOREM NoSecondAccount == Spec => []IdentitiesUnique
<1>1. Inv => IdentitiesUnique
  BY DEF Inv, AccountInv
<1> QED BY <1>1, Invariance, PTL

\* No Google sign-in leaves a session of a suspended or retired account behind
\* (googleIdentityService.js:76).
THEOREM NoSessionOutlives == Spec => []GoogleSessionsEnd
<1>1. Inv => GoogleSessionsEnd
  BY DEF Inv, SessionInv
<1> QED BY <1>1, Invariance, PTL

\* Google opens no account that has a password (googleIdentityService.js:53).
THEOREM PasswordAccountsAreKept == Spec => []GoogleOpensGoogle
<1>1. Inv => GoogleOpensGoogle
  BY DEF Inv, SessionInv
<1> QED BY <1>1, Invariance, PTL

\* An address or a Google identity leads to the one account that has it, by its own way in, whatever
\* requests overlap (authController.js:65, googleIdentityService.js:53).
THEOREM IdentitiesAreKept == Spec => []IdentitiesKept
<1>1. TypeOK /\ IdentitiesUnique /\ GoogleOpensGoogle => IdentitiesKept
  BY DEF IdentitiesKept
<1> QED
  BY <1>1, TypeCorrect, NoSecondAccount, PasswordAccountsAreKept, PTL

-------------------------------------------------------------------------------
(* What is used up: the state of a Google sign-in, and a session.              *)

\* The request r comes of a Google sign-in that has not led to a session yet.
Callback(r) == request[r].pc \in {"profile", "identity", "commit"}

\* A stored sign-in is used by one request, which alone can open a session with it.
StateInv ==
  /\ \A st \in StateId : oauth[st].stage # "used" => oauth[st].opened = 0
  /\ \A r \in Request : Callback(r) => oauth[request[r].state].stage = "used" /\ oauth[request[r].state].opened = 0
  /\ \A q, r \in Request : q # r /\ Callback(q) /\ Callback(r) => request[q].state # request[r].state
  /\ StateUsedOnce

\* A session that is live was live when the request with it came, and so was one the request found live.
LiveInv ==
  /\ \A r \in Request : request[r].pc = "auth" /\ (Live(request[r].session) \/ "session" \in request[r].seen) =>
                         request[r].live
  /\ AccessEndsAtOnce

\* What a request may do to Google sign-ins.
LEMMA CallbackSteps ==
  ASSUME Inv, NEW r \in Request, RequestNext(r)
  PROVE  \/ /\ UNCHANGED oauth
            /\ \A q \in Request \ {r} : request'[q] = request[q]
            /\ Callback(r)' => Callback(r) /\ request'[r].state = request[r].state
         \/ \E st \in StateId : /\ oauth[st].stage = "stored" /\ oauth' = [oauth EXCEPT ![st].stage = "used"]
                                /\ request[r] = Idle
                                /\ \A q \in Request \ {r} : request'[q] = request[q]
                                /\ request'[r].state = st
         \/ /\ Callback(r) /\ request'[r] = Idle
            /\ \A q \in Request \ {r} : request'[q] = request[q]
            /\ oauth' = [oauth EXCEPT ![request[r].state].opened = @ + 1]
<1>0. request \in [Request -> RequestRecord] /\ request[r] \in RequestRecord /\ Fits(r)
  BY DEF Inv, TypeOK, RequestInv
<1>1. PICK new \in RequestRecord : request' = [request EXCEPT ![r] = new]
  BY OwnFits
<1>2. request'[r] = new /\ \A q \in Request \ {r} : request'[q] = request[q]
  BY <1>0, <1>1
<1>3. ASSUME NEW st \in StateId, GoogleCallback(r, st)
      PROVE  /\ oauth[st].stage = "stored" /\ oauth' = [oauth EXCEPT ![st].stage = "used"]
             /\ request[r] = Idle /\ request'[r].state = st
  BY <1>0, <1>3 DEF GoogleCallback, ConsumeState, Starts, Idle
<1>4. CASE GoogleCommit(r)
  <2>1. Callback(r) /\ request'[r] = Idle
    BY <1>0, <1>4 DEF GoogleCommit, Callback, Ends
  <2>2. UNCHANGED oauth \/ oauth' = [oauth EXCEPT ![request[r].state].opened = @ + 1]
    BY <1>4 DEF GoogleCommit
  <2> QED BY <1>2, <2>1, <2>2 DEF Callback, Idle
<1>5. CASE GoogleProfile(r)
  <2>1. ASSUME NEW g \in Subject, NEW a \in Address,
               request' = [request EXCEPT ![r].pc = "identity", ![r].subject = g, ![r].email = a]
        PROVE  request'[r].state = request[r].state
    <3>1. request'[r] = [request[r] EXCEPT !.pc = "identity", !.subject = g, !.email = a]
      BY <1>0, <2>1
    <3> QED BY <1>0, <3>1 DEF RequestRecord
  <2>2. request'[r] = Idle \/ request'[r].state = request[r].state
    BY <1>0, <1>5, <2>1 DEF GoogleProfile, Ends
  <2>3. request[r].pc = "profile" /\ UNCHANGED oauth
    BY <1>5 DEF GoogleProfile
  <2> QED BY <1>2, <2>2, <2>3 DEF Callback, Idle
<1>6. CASE GoogleResolve(r)
  <2>1. ASSUME NEW u, request' = [request EXCEPT ![r].pc = "commit", ![r].user = u]
        PROVE  request'[r].state = request[r].state
    <3>1. request'[r] = [request[r] EXCEPT !.pc = "commit", !.user = u]
      BY <1>0, <2>1
    <3> QED BY <1>0, <3>1 DEF RequestRecord
  <2>2. request'[r] = Idle \/ request'[r].state = request[r].state
    BY <1>0, <1>6, <2>1 DEF GoogleResolve, Ends
  <2> QED BY <1>2, <1>6, <2>2 DEF GoogleResolve, Callback, Idle
<1>7. ASSUME NEW a \in Address, SignupCheck(r, a) PROVE request'[r].pc = "create" /\ UNCHANGED oauth
  BY <1>0, <1>7 DEF SignupCheck, Starts, Idle
<1>8. ASSUME NEW u \in Account, LoginRead(r, u) PROVE request'[r].pc = "open" /\ UNCHANGED oauth
  BY <1>0, <1>8 DEF LoginRead, Starts, Idle
<1>9. ASSUME SignupCreate(r) PROVE request'[r].pc \in {"open", "idle"} /\ UNCHANGED oauth
  <2> HIDE DEF NextAccount
  <2>1. CASE Ends(r)
    BY <1>0, <1>9, <2>1 DEF SignupCreate, Ends, Idle
  <2>2. CASE ~Ends(r)
    <3>1. request' = [request EXCEPT ![r] = [Idle EXCEPT !.pc = "open", !.user = NextAccount, !.password = 1]]
      BY <1>9, <2>2 DEF SignupCreate
    <3>2. request'[r] = [Idle EXCEPT !.pc = "open", !.user = NextAccount, !.password = 1]
      BY <1>0, <3>1
    <3> QED BY <1>9, <3>2 DEF SignupCreate, Idle
  <2> QED BY <2>1, <2>2
<1>10. ASSUME Open(r) \/ Logout(r) PROVE request'[r].pc = "idle" /\ UNCHANGED oauth
  BY <1>0, <1>10 DEF Open, Logout, Ends, Idle
<1>11. ASSUME NEW s \in SessionId, NEW next \in {"password", "logout"}, Come(r, s, next)
       PROVE  request'[r].pc = "auth" /\ UNCHANGED oauth
  BY <1>0, <1>11 DEF Come, Starts, Idle
<1>12. ASSUME NEW part \in {"user", "session"}, Authenticate(r, part)
       PROVE  request'[r].pc \in {"auth", "password", "logout", "idle"} /\ UNCHANGED oauth
  <2>1. request[r].next \in {"password", "logout"}
    BY <1>0, <1>12 DEF Authenticate, Fits
  <2> DEFINE saw == request[r].seen \cup {part}
             pc == IF saw = {"user", "session"} THEN request[r].next ELSE "auth"
  <2>2. Ends(r) \/ request' = [request EXCEPT ![r] = [request[r] EXCEPT !.seen = saw, !.pc = pc]]
    BY <1>0, <1>12 DEF Authenticate
  <2>3. pc \in {"auth", "password", "logout"}
    BY <2>1
  <2> HIDE DEF saw, pc
  <2>4. CASE Ends(r)
    BY <1>0, <1>12, <2>4 DEF Authenticate, Ends, Idle
  <2>5. CASE request' = [request EXCEPT ![r] = [request[r] EXCEPT !.seen = saw, !.pc = pc]]
    <3>1. request'[r].pc = pc
      BY <1>0, <2>5 DEF RequestRecord
    <3> QED BY <1>12, <2>3, <3>1 DEF Authenticate
  <2> QED BY <2>2, <2>4, <2>5
<1>13. ASSUME ChangePassword(r) PROVE request'[r].pc \in {"password", "idle"} /\ UNCHANGED oauth
  <2>1. ASSUME NEW p, request' = [request EXCEPT ![r].password = p] PROVE request'[r].pc = request[r].pc
    <3>1. request'[r] = [request[r] EXCEPT !.password = p]
      BY <1>0, <2>1
    <3> QED BY <1>0, <3>1 DEF RequestRecord
  <2>2. Ends(r) => request'[r].pc = "idle"
    BY <1>0 DEF Ends, Idle
  <2>3. Ends(r) \/ \E p : request' = [request EXCEPT ![r].password = p]
    BY <1>13 DEF ChangePassword
  <2> QED BY <1>13, <2>1, <2>2, <2>3 DEF ChangePassword
<1>14. CASE request'[r].pc \notin {"profile", "identity", "commit"} /\ UNCHANGED oauth
  BY <1>2, <1>14 DEF Callback
<1> QED BY <1>2, <1>3, <1>4, <1>5, <1>6, <1>7, <1>8, <1>9, <1>10, <1>11, <1>12, <1>13, <1>14 DEF RequestNext

\* Every step keeps a used sign-in with its one request.
LEMMA StateStep == Inv /\ StateInv /\ [Next]_vars => StateInv'
<1> SUFFICES ASSUME Inv, StateInv, [Next]_vars PROVE StateInv'
  OBVIOUS
<1>0. /\ oauth \in [StateId -> OAuthState] /\ request \in [Request -> RequestRecord]
      /\ \A r \in Request : Callback(r) => request[r].state \in StateId
  BY DEF Inv, TypeOK, RequestInv, Fits, Callback
<1>1. ASSUME NEW st \in StateId, NEW stage \in {"stored", "expired"}, oauth[st].stage \in {"none", "stored"},
             oauth' = [oauth EXCEPT ![st].stage = stage], UNCHANGED request
      PROVE  StateInv'
  <2>1. \A t \in StateId : /\ oauth'[t].opened = oauth[t].opened
                           /\ oauth[t].stage = "used" <=> oauth'[t].stage = "used"
    BY <1>0, <1>1 DEF OAuthState
  <2> QED BY <1>0, <1>1, <2>1 DEF StateInv, StateUsedOnce, Callback
<1>2. ASSUME UNCHANGED <<oauth, request>> PROVE StateInv'
  BY <1>2 DEF StateInv, StateUsedOnce, Callback
<1>3. ASSUME NEW r \in Request, RequestNext(r) PROVE StateInv'
  <2>1. CASE /\ UNCHANGED oauth
             /\ \A q \in Request \ {r} : request'[q] = request[q]
             /\ Callback(r)' => Callback(r) /\ request'[r].state = request[r].state
    <3>1. \A q \in Request : Callback(q)' => Callback(q) /\ request'[q].state = request[q].state
      BY <2>1 DEF Callback
    <3> QED BY <2>1, <3>1 DEF StateInv, StateUsedOnce
  <2>2. ASSUME NEW st \in StateId, oauth[st].stage = "stored", oauth' = [oauth EXCEPT ![st].stage = "used"],
               \A q \in Request \ {r} : request'[q] = request[q],
               request'[r].state = st
        PROVE  StateInv'
    <3>1. /\ \A t \in StateId : /\ oauth'[t].opened = oauth[t].opened
                                /\ oauth'[t].stage = IF t = st THEN "used" ELSE oauth[t].stage
      BY <1>0, <2>2 DEF OAuthState
    <3>2. \A q \in Request \ {r} : Callback(q)' => Callback(q) /\ request'[q].state = request[q].state
                                                    /\ request[q].state # st
      BY <2>2 DEF Callback, StateInv
    <3>3. oauth[st].opened = 0
      BY <2>2 DEF StateInv
    <3>4. \A t \in StateId : /\ oauth'[t].stage # "used" => oauth'[t].opened = 0
                             /\ oauth'[t].opened <= 1
      BY <3>1 DEF StateInv, StateUsedOnce
    <3>5. \A q \in Request : Callback(q)' => /\ oauth'[request'[q].state].stage = "used"
                                             /\ oauth'[request'[q].state].opened = 0
      BY <1>0, <2>2, <3>1, <3>2, <3>3 DEF StateInv
    <3>6. \A p, q \in Request : p # q /\ Callback(p)' /\ Callback(q)' => request'[p].state # request'[q].state
      BY <2>2, <3>2 DEF StateInv
    <3> QED BY <3>4, <3>5, <3>6 DEF StateInv, StateUsedOnce
  <2>3. CASE /\ Callback(r) /\ request'[r] = Idle
             /\ \A q \in Request \ {r} : request'[q] = request[q]
             /\ oauth' = [oauth EXCEPT ![request[r].state].opened = @ + 1]
    <3> DEFINE st == request[r].state
    <3>1. st \in StateId /\ oauth[st].stage = "used" /\ oauth[st].opened = 0
      BY <1>0, <2>3 DEF StateInv
    <3>2. /\ oauth'[st].opened = 1 /\ oauth'[st].stage = "used"
          /\ \A t \in StateId \ {st} : oauth'[t] = oauth[t]
      BY <1>0, <2>3, <3>1 DEF OAuthState
    <3>3. ~Callback(r)'
      BY <2>3 DEF Callback, Idle
    <3>4. \A q \in Request \ {r} : Callback(q)' => Callback(q) /\ request'[q].state = request[q].state
                                                    /\ request[q].state # st
      BY <2>3 DEF Callback, StateInv
    <3> HIDE DEF st
    <3>5. \A t \in StateId : /\ oauth'[t].stage # "used" => oauth'[t].opened = 0
                             /\ oauth'[t].opened <= 1
      BY <3>1, <3>2 DEF StateInv, StateUsedOnce
    <3>6. \A q \in Request : Callback(q)' => /\ oauth'[request'[q].state].stage = "used"
                                             /\ oauth'[request'[q].state].opened = 0
      BY <1>0, <3>2, <3>3, <3>4 DEF StateInv
    <3>7. \A p, q \in Request : p # q /\ Callback(p)' /\ Callback(q)' => request'[p].state # request'[q].state
      BY <3>3, <3>4 DEF StateInv
    <3> QED BY <3>5, <3>6, <3>7 DEF StateInv, StateUsedOnce
  <2> QED BY <1>3, <2>1, <2>2, <2>3, CallbackSteps
<1>4. ASSUME NEW u \in Account, AccountNext(u) PROVE UNCHANGED <<oauth, request>>
  BY <1>4 DEF AccountNext, ResetPassword, Suspend, Reactivate, ChangeRole, Retire, MoveAddress
<1>5. ASSUME (\E s \in SessionId : SessionExpires(s)) \/ UNCHANGED vars PROVE UNCHANGED <<oauth, request>>
  BY <1>5 DEF SessionExpires, vars
<1>6. CASE GoogleRedirect \/ \E st \in StateId : StateExpires(st)
  BY <1>1, <1>6 DEF GoogleRedirect, StateExpires
<1> QED BY <1>2, <1>3, <1>4, <1>5, <1>6 DEF Next

\* A request is served only after it found its session live.
LEMMA LiveStep == Inv /\ LiveInv /\ [Next]_vars => LiveInv'
<1> SUFFICES ASSUME Inv, LiveInv, [Next]_vars PROVE LiveInv'
  OBVIOUS
<1>0. /\ request \in [Request -> RequestRecord] /\ session \in [SessionId -> Session]
      /\ \A r \in Request : request[r].pc = "auth" => /\ request[r].session \in SessionId
                                                      /\ session[request[r].session].stage # "none"
                                                      /\ request[r].next \in {"password", "logout"}
  BY DEF Inv, TypeOK, RequestInv, Fits
<1> DEFINE Good(r) == /\ request'[r].pc = "auth" /\ (session'[request'[r].session].stage = "live" \/ "session" \in request'[r].seen) =>
                           request'[r].live
                      /\ request'[r].pc \in {"password", "logout"} => request'[r].live
<1>1. ASSUME NEW r \in Request, request'[r] = request[r] PROVE Good(r)
  <2>1. request[r].pc = "auth" /\ session'[request[r].session].stage = "live" => Live(request[r].session)
    BY <1>0, SessionKept DEF Live
  <2> QED BY <1>1, <2>1 DEF LiveInv, AccessEndsAtOnce
<1>2. ASSUME NEW r \in Request, RequestNext(r) PROVE Good(r)
  <2>0. request[r] \in RequestRecord
    BY <1>0
  <2>1. ASSUME NEW s \in SessionId, NEW next \in {"password", "logout"}, Come(r, s, next) PROVE Good(r)
    <3> DEFINE new == [Idle EXCEPT !.pc = "auth", !.user = session[s].user, !.session = s, !.next = next,
                                   !.live = Live(s)]
    <3>1. request'[r] = new /\ UNCHANGED session
      BY <1>0, <2>1 DEF Come, Starts
    <3>2. new.pc = "auth" /\ new.session = s /\ new.live = Live(s) /\ new.seen = {}
      BY DEF Idle
    <3> HIDE DEF new
    <3>3. session'[s].stage = "live" <=> Live(s)
      BY <3>1 DEF Live
    <3> QED BY <3>1, <3>2, <3>3
  <2>2. ASSUME NEW part \in {"user", "session"}, Authenticate(r, part), ~Ends(r) PROVE Good(r)
    <3> DEFINE saw == request[r].seen \cup {part}
               pc == IF saw = {"user", "session"} THEN request[r].next ELSE "auth"
    <3>1. /\ request' = [request EXCEPT ![r] = [request[r] EXCEPT !.seen = saw, !.pc = pc]]
          /\ request[r].pc = "auth" /\ (part = "session" => Live(request[r].session)) /\ UNCHANGED session
      BY <1>0, <2>2 DEF Authenticate, LiveSession
    <3>2. /\ pc \in {"password", "logout"} => "session" \in saw
          /\ "session" \in saw => "session" \in request[r].seen \/ part = "session"
      <4>1. "session" \in saw => "session" \in request[r].seen \/ part = "session"
        OBVIOUS
      <4>2. pc # "auth" => saw = {"user", "session"}
        OBVIOUS
      <4> QED BY <4>1, <4>2
    <3> HIDE DEF saw, pc
    <3>3. /\ request'[r].pc = pc /\ request'[r].seen = saw /\ request'[r].session = request[r].session
          /\ request'[r].live = request[r].live
      BY <1>0, <2>0, <3>1 DEF RequestRecord
    <3>4. session'[request[r].session].stage = "live" => Live(request[r].session)
      BY <3>1 DEF Live
    <3>5. Live(request[r].session) \/ "session" \in request[r].seen => request[r].live
      BY <3>1 DEF LiveInv
    <3> QED BY <3>1, <3>2, <3>3, <3>4, <3>5
  <2>3. CASE ChangePassword(r) /\ ~Ends(r)
    <3>1. /\ request[r].pc = "password"
          /\ \E p : request' = [request EXCEPT ![r] = [request[r] EXCEPT !.password = p]]
      BY <1>0, <2>3 DEF ChangePassword
    <3>2. request'[r].pc = "password" /\ request'[r].live = request[r].live
      BY <1>0, <2>0, <3>1 DEF RequestRecord
    <3> QED BY <3>1, <3>2 DEF LiveInv, AccessEndsAtOnce
  <2>4. CASE Ends(r)
    BY <1>0, <2>4 DEF Ends, Idle
  <2>5. ASSUME request'[r].pc \in {"create", "open", "profile", "identity", "commit"} PROVE Good(r)
    BY <2>5
  <2> HIDE DEF Good
  <2>6. CASE \/ \E a \in Address : SignupCheck(r, a)
             \/ SignupCreate(r) \/ Open(r) \/ Logout(r) \/ GoogleProfile(r) \/ GoogleResolve(r) \/ GoogleCommit(r)
             \/ \E u \in Account : LoginRead(r, u)
             \/ \E st \in StateId : GoogleCallback(r, st)
    <3>1. Ends(r) \/ request'[r].pc \in {"create", "open", "profile", "identity", "commit"}
      <4>1. ASSUME NEW a \in Address, SignupCheck(r, a) PROVE request'[r].pc = "create"
        BY <1>0, <4>1 DEF SignupCheck, Starts, Idle
      <4>2. ASSUME NEW u \in Account, LoginRead(r, u) PROVE request'[r].pc = "open"
        BY <1>0, <4>2 DEF LoginRead, Starts, Idle
      <4>3. ASSUME NEW st \in StateId, GoogleCallback(r, st) PROVE request'[r].pc = "profile"
        BY <1>0, <4>3 DEF GoogleCallback, Starts, Idle
      <4>4. ASSUME SignupCreate(r), ~Ends(r) PROVE request'[r].pc = "open"
        BY <1>0, <4>4 DEF SignupCreate, Idle
      <4>5. ASSUME GoogleProfile(r), ~Ends(r) PROVE request'[r].pc = "identity"
        <5>1. PICK g \in Subject, a \in Address :
                request' = [request EXCEPT ![r].pc = "identity", ![r].subject = g, ![r].email = a]
          BY <4>5 DEF GoogleProfile
        <5>2. request'[r] = [request[r] EXCEPT !.pc = "identity", !.subject = g, !.email = a]
          BY <1>0, <5>1
        <5> QED BY <2>0, <5>2 DEF RequestRecord
      <4>6. ASSUME GoogleResolve(r), ~Ends(r) PROVE request'[r].pc = "commit"
        BY <1>0, <2>0, <4>6 DEF GoogleResolve, RequestRecord
      <4> QED BY <2>6, <4>1, <4>2, <4>3, <4>4, <4>5, <4>6 DEF Open, Logout, GoogleCommit
    <3> QED BY <2>4, <2>5, <3>1
  <2> QED BY <1>2, <2>1, <2>2, <2>3, <2>4, <2>6 DEF RequestNext
<1>3. ASSUME NEW r \in Request, RequestNext(r), NEW q \in Request, q # r PROVE request'[q] = request[q]
  <2>1. PICK new \in RequestRecord : request' = [request EXCEPT ![r] = new]
    BY <1>3, OwnFits
  <2> QED BY <1>0, <1>3, <2>1
<1>4. ASSUME NEW u \in Account, AccountNext(u) PROVE UNCHANGED request
  BY <1>4 DEF AccountNext, ResetPassword, Suspend, Reactivate, ChangeRole, Retire, MoveAddress
<1>5. ASSUME GoogleRedirect \/ (\E st \in StateId : StateExpires(st)) \/ (\E s \in SessionId : SessionExpires(s))
             \/ UNCHANGED vars
      PROVE  UNCHANGED request
  BY <1>5 DEF GoogleRedirect, StateExpires, SessionExpires, vars
<1>6. \A r \in Request : Good(r)
  <2> HIDE DEF Good
  <2> QED BY <1>1, <1>2, <1>3, <1>4, <1>5 DEF Next
<1> QED BY <1>6 DEF LiveInv, AccessEndsAtOnce, Live

\* A sign-in that was used gives no second session, and a session that has ended serves no request that
\* comes after it, whatever requests overlap (authController.js:141, auth.js:53-54).
THEOREM SpentGivesNothing == Spec => []SpentIsSpent
<1>1. Init => StateInv /\ LiveInv
  BY DEF Init, StateInv, LiveInv, StateUsedOnce, AccessEndsAtOnce, Callback, Idle
<1>2. StateInv /\ LiveInv => SpentIsSpent
  BY DEF StateInv, LiveInv, SpentIsSpent
<1> QED BY <1>1, <1>2, StateStep, LiveStep, Invariance, PTL DEF Spec

-------------------------------------------------------------------------------
(* Readiness.                                                                  *)

\* The commands of a check take their limits one after the other.
LEMMA Times ==
  ASSUME NEW t \in Nat, NEW i \in 0..4
  PROVE  i * t \in Nat /\ (i + 1) * t = i * t + t /\ (i + 1) * t <= 5 * t
<1>1. CASE i = 0
  BY <1>1
<1>2. CASE i = 1
  BY <1>2
<1>3. CASE i = 2
  BY <1>3
<1>4. CASE i = 3
  BY <1>4
<1>5. CASE i = 4
  BY <1>5
<1> QED BY <1>1, <1>2, <1>3, <1>4, <1>5

ProbeRecord == [inFlight: 0..5, spent: Nat, begun: Nat, cached: BOOLEAN, at: Nat, age: Nat, result: Ready!Status]

ReadyCall == [pc: {"idle", "database", "ask", "background", "answered"}, database: Ready!Status, age: Nat,
               status: {"none", "ready", "degraded", "unavailable"}]

ReadyTypes ==
  /\ probe \in [Ready!Kind -> ProbeRecord]
  /\ checks \in [Ready!Kind -> Nat]
  /\ call \in [Request -> ReadyCall]

\* A check has run no longer than the commands before, and this one; a result in use is no older than
\* the check it came from and the time since.
CheckTimed(n, p, k) ==
  /\ n = IF p.inFlight > 0 THEN 1 ELSE 0
  /\ p.inFlight <= Ready!Commands(k)
  /\ p.inFlight > 0 => p.begun <= (p.inFlight - 1) * Timeout + p.spent /\ p.spent <= Timeout
  /\ p.cached /\ p.at < CacheMs => p.age <= Ready!Commands(k) * Timeout + p.at

ChecksTimed == \A k \in Ready!Kind : CheckTimed(checks[k], probe[k], k)

\* A call that waits for the background check has waited no longer than that has run.
CallsTimed == \A c \in Request :
  /\ call[c].pc = "ask" => call[c].age <= CacheMs + 5 * Timeout
  /\ call[c].pc = "background" => /\ probe["background"].inFlight > 0
                                  /\ call[c].age <= CacheMs + 5 * Timeout + probe["background"].begun
  /\ call[c].pc = "answered" => call[c].age <= Ready!Longest

ReadyInv == ReadyTypes /\ ChecksTimed /\ CallsTimed

\* What the bounds amount to.
LEMMA Bounds ==
  ASSUME Ready!LimitsAssumption
  PROVE  /\ Timeout \in Nat /\ CacheMs \in Nat /\ Timeout > 0
         /\ Ready!Commands("database") = 5 /\ Ready!Commands("background") = 1
         /\ Ready!Kind = {"database", "background"}
         /\ Ready!Longest = CacheMs + 5 * Timeout + Timeout /\ Ready!Longest \in Nat
         /\ Ready!Beyond = CacheMs + 5 * Timeout + Timeout + 1
BY DEF Ready!LimitsAssumption, Ready!Commands, Ready!Kind, Ready!Longest, Ready!Beyond

\* A check begins.
LEMMA CheckBegins ==
  ASSUME Ready!LimitsAssumption, ReadyTypes, ChecksTimed, NEW k \in Ready!Kind, probe[k].inFlight = 0, Ready!Begin(k)
  PROVE  /\ probe' \in [Ready!Kind -> ProbeRecord] /\ checks' \in [Ready!Kind -> Nat] /\ ChecksTimed'
         /\ probe'[k].inFlight = 1 /\ probe'[k].begun = 0 /\ \A l \in Ready!Kind \ {k} : probe'[l] = probe[l]
<1>1. /\ probe' = [probe EXCEPT ![k] = [@ EXCEPT !.inFlight = 1, !.spent = 0, !.begun = 0]]
      /\ checks' = [checks EXCEPT ![k] = 1]
  <2>1. checks[k] = 0 /\ 0 < 2 /\ 0 + 1 = 1
    BY DEF ChecksTimed, CheckTimed
  <2>2. checks' = [checks EXCEPT ![k] = IF checks[k] < 2 THEN checks[k] + 1 ELSE 2]
    BY DEF Ready!Begin
  <2>3. checks' = [checks EXCEPT ![k] = 1]
    BY <2>1, <2>2
  <2> QED BY <2>3 DEF Ready!Begin
<1>2. probe' \in [Ready!Kind -> ProbeRecord] /\ checks' \in [Ready!Kind -> Nat]
  <2> DEFINE p == probe[k]
  <2>1. p \in ProbeRecord
    BY DEF ReadyTypes
  <2>2. probe' = [probe EXCEPT ![k] = [p EXCEPT !.inFlight = 1, !.spent = 0, !.begun = 0]]
    BY <1>1
  <2> HIDE DEF p
  <2>3. [p EXCEPT !.inFlight = 1, !.spent = 0, !.begun = 0] \in ProbeRecord
    <3>1. 1 \in 0..5 /\ 0 \in Nat
      OBVIOUS
    <3> QED BY <2>1, <3>1, Zenon DEF ProbeRecord
  <2> QED BY <1>1, <2>2, <2>3 DEF ReadyTypes
<1>3. /\ probe'[k].inFlight = 1 /\ probe'[k].begun = 0 /\ probe'[k].spent = 0 /\ checks'[k] = 1
      /\ probe'[k].cached = probe[k].cached /\ probe'[k].at = probe[k].at /\ probe'[k].age = probe[k].age
      /\ \A l \in Ready!Kind \ {k} : probe'[l] = probe[l] /\ checks'[l] = checks[l]
  BY <1>1 DEF ReadyTypes, ProbeRecord
<1>4. CheckTimed(checks'[k], probe'[k], k)
  BY <1>3, Bounds DEF CheckTimed, ChecksTimed
<1> QED BY <1>2, <1>3, <1>4 DEF ChecksTimed

\* A call is answered, or goes on, with what the database's check found.
LEMMA DatabaseSeen ==
  ASSUME ReadyTypes, NEW c \in Request, NEW result \in Ready!Status, NEW a \in Nat
  PROVE  /\ Ready!WithDatabase(c, result, a) \in ReadyCall
         /\ Ready!WithDatabase(c, result, a).age = a
         /\ Ready!WithDatabase(c, result, a).pc \in {"ask", "answered"}
BY DEF ReadyTypes, ReadyCall, Ready!WithDatabase

\* A call is answered with what the background check found, beside what it knows of the database.
LEMMA BackgroundSeen ==
  ASSUME ReadyTypes, NEW c \in Request, NEW result
  PROVE  /\ Ready!WithBackground(c, result) \in ReadyCall
         /\ Ready!WithBackground(c, result).age = call[c].age
         /\ Ready!WithBackground(c, result).pc = "answered"
<1> DEFINE status == IF result = "ok" /\ call[c].database = "ok" THEN "ready" ELSE "degraded"
<1>1. status \in {"none", "ready", "degraded", "unavailable"}
  OBVIOUS
<1>2. Ready!WithBackground(c, result) = [call[c] EXCEPT !.pc = "answered", !.status = status]
  BY DEF Ready!WithBackground
<1>3. call[c] \in ReadyCall
  BY DEF ReadyTypes
<1> HIDE DEF status
<1> DEFINE r == [call[c] EXCEPT !.pc = "answered", !.status = status]
<1>4. r \in ReadyCall
  BY <1>1, <1>3 DEF ReadyCall
<1>5. r.age = call[c].age /\ r.pc = "answered"
  BY <1>3 DEF ReadyCall
<1> QED BY <1>2, <1>4, <1>5

\* A call asks for the database.
LEMMA AskDatabaseStep ==
  ASSUME Ready!LimitsAssumption, ReadyInv, NEW c \in Request, Ready!AskDatabase(c)
  PROVE  ReadyInv'
<1> DEFINE p == probe["database"]
<1>0. ReadyTypes /\ ChecksTimed /\ CallsTimed /\ p \in ProbeRecord /\ call \in [Request -> ReadyCall]
  BY Bounds DEF ReadyInv, ReadyTypes
<1>1. CASE Ready!Fresh(p)
  <2>1. /\ call' = [call EXCEPT ![c] = Ready!WithDatabase(c, p.result, p.age)] /\ UNCHANGED <<probe, checks>>
    BY <1>1 DEF Ready!AskDatabase
  <2>2. p.result \in Ready!Status /\ p.age \in Nat /\ p.age <= CacheMs + 5 * Timeout
    BY <1>0, <1>1, Bounds DEF ProbeRecord, Ready!Fresh, ChecksTimed, CheckTimed
  <2>3. /\ call' \in [Request -> ReadyCall] /\ call'[c].pc \in {"ask", "answered"} /\ call'[c].age = p.age
        /\ \A d \in Request \ {c} : call'[d] = call[d]
    BY <1>0, <2>1, <2>2, DatabaseSeen
  <2> QED BY <1>0, <2>1, <2>2, <2>3, Bounds DEF ReadyInv, ReadyTypes, ChecksTimed, CallsTimed
<1>2. CASE ~Ready!Fresh(p)
  <2>1. call' = [call EXCEPT ![c] = Ready!Waiting]
    BY <1>2 DEF Ready!AskDatabase
  <2>2. /\ call' \in [Request -> ReadyCall] /\ call'[c].pc = "database" /\ \A d \in Request \ {c} : call'[d] = call[d]
    BY <1>0, <2>1 DEF ReadyCall, Ready!Waiting, Ready!Status
  <2>3. CASE UNCHANGED <<probe, checks>>
    BY <1>0, <2>2, <2>3 DEF ReadyInv, ReadyTypes, ChecksTimed, CallsTimed
  <2>4. CASE Ready!Begin("database") /\ ~Ready!Joined(p)
    <3>1. p.inFlight = 0
      BY <1>0, <2>4 DEF Ready!Joined, ProbeRecord
    <3>2. /\ probe' \in [Ready!Kind -> ProbeRecord] /\ checks' \in [Ready!Kind -> Nat] /\ ChecksTimed'
          /\ probe'["background"] = probe["background"]
      BY <1>0, <2>4, <3>1, CheckBegins, Bounds
    <3> QED BY <1>0, <2>2, <3>2 DEF ReadyInv, ReadyTypes, CallsTimed
  <2> QED BY <1>2, <2>3, <2>4 DEF Ready!AskDatabase
<1> QED BY <1>1, <1>2

\* A call asks for background work.
LEMMA AskBackgroundStep ==
  ASSUME Ready!LimitsAssumption, ReadyInv, NEW c \in Request, Ready!AskBackground(c)
  PROVE  ReadyInv'
<1> DEFINE p == probe["background"]
<1>0. ReadyTypes /\ ChecksTimed /\ CallsTimed /\ p \in ProbeRecord /\ call \in [Request -> ReadyCall]
  BY Bounds DEF ReadyInv, ReadyTypes
<1>1. call[c].age \in Nat /\ call[c].age <= CacheMs + 5 * Timeout
  BY <1>0 DEF Ready!AskBackground, CallsTimed, ReadyCall
<1>2. CASE Ready!Fresh(p)
  <2>1. /\ call' = [call EXCEPT ![c] = Ready!WithBackground(c, p.result)] /\ UNCHANGED <<probe, checks>>
    BY <1>2 DEF Ready!AskBackground
  <2>2. /\ call' \in [Request -> ReadyCall] /\ call'[c].pc = "answered" /\ call'[c].age = call[c].age
        /\ \A d \in Request \ {c} : call'[d] = call[d]
    BY <1>0, <2>1, BackgroundSeen
  <2> QED BY <1>0, <1>1, <2>1, <2>2, Bounds DEF ReadyInv, ReadyTypes, ChecksTimed, CallsTimed
<1>3. CASE ~Ready!Fresh(p)
  <2>1. call' = [call EXCEPT ![c].pc = "background"]
    BY <1>3 DEF Ready!AskBackground
  <2>2. /\ call' \in [Request -> ReadyCall] /\ call'[c].pc = "background" /\ call'[c].age = call[c].age
        /\ \A d \in Request \ {c} : call'[d] = call[d]
    BY <1>0, <2>1 DEF ReadyCall
  <2>3. CASE Ready!Joined(p) /\ UNCHANGED <<probe, checks>>
    <3>1. p.inFlight > 0 /\ p.begun \in Nat
      BY <1>0, <2>3 DEF Ready!Joined, ProbeRecord
    <3> QED BY <1>0, <1>1, <2>2, <2>3, <3>1, Bounds DEF ReadyInv, ReadyTypes, ChecksTimed, CallsTimed
  <2>4. CASE Ready!Begin("background") /\ ~Ready!Joined(p)
    <3>1. p.inFlight = 0
      BY <1>0, <2>4 DEF Ready!Joined, ProbeRecord
    <3>2. /\ probe' \in [Ready!Kind -> ProbeRecord] /\ checks' \in [Ready!Kind -> Nat] /\ ChecksTimed'
          /\ probe'["background"].inFlight = 1 /\ probe'["background"].begun = 0
      BY <1>0, <2>4, <3>1, CheckBegins, Bounds
    <3>3. \A d \in Request : call[d].pc # "background"
      BY <1>0, <3>1 DEF CallsTimed
    <3> QED BY <1>0, <1>1, <2>2, <3>2, <3>3, Bounds DEF ReadyInv, ReadyTypes, CallsTimed
  <2> QED BY <1>3, <2>3, <2>4 DEF Ready!AskBackground
<1> QED BY <1>2, <1>3

\* A check never outlives the limits of its commands.
LEMMA CheckWithinLimits ==
  ASSUME Ready!LimitsAssumption, ReadyTypes, NEW k \in Ready!Kind, CheckTimed(checks[k], probe[k], k),
         probe[k].inFlight > 0
  PROVE  probe[k].begun <= Ready!Commands(k) * Timeout
<1> DEFINE i == probe[k].inFlight - 1
<1>1. i \in 0..4 /\ probe[k] \in ProbeRecord
  BY DEF ReadyTypes, ProbeRecord
<1>2. /\ probe[k].begun \in Nat /\ probe[k].spent \in Nat /\ probe[k].begun <= i * Timeout + probe[k].spent
      /\ probe[k].spent <= Timeout /\ i + 1 <= Ready!Commands(k) /\ Timeout \in Nat
  BY <1>1, Bounds DEF CheckTimed, ProbeRecord
<1> HIDE DEF i
<1>3. i * Timeout \in Nat /\ (i + 1) * Timeout = i * Timeout + Timeout /\ (i + 1) * Timeout <= 5 * Timeout
  BY <1>1, <1>2, Times
<1>4. CASE k = "database"
  BY <1>2, <1>3, <1>4, Bounds
<1>5. CASE k = "background"
  <2>1. i = 0
    BY <1>1, <1>2, <1>5, Bounds
  <2>2. 0 * Timeout = 0 /\ 1 * Timeout = Timeout
    BY <1>2
  <2> QED BY <1>2, <1>5, <2>1, <2>2, Bounds
<1> QED BY <1>4, <1>5, Bounds

\* A check ends, and those who wait for it go on with what it found.
LEMMA EndsStep ==
  ASSUME Ready!LimitsAssumption, ReadyInv, NEW k \in Ready!Kind, NEW result \in Ready!Status,
         probe[k].inFlight > 0, Ready!Ends(k, result)
  PROVE  ReadyInv'
<1> DEFINE p == probe[k]
           q == [p EXCEPT !.inFlight = 0, !.spent = 0, !.cached = TRUE, !.at = 0, !.age = p.begun, !.result = result]
           n == checks[k] - 1
<1>0. ReadyTypes /\ ChecksTimed /\ CallsTimed /\ p \in ProbeRecord /\ CheckTimed(checks[k], p, k)
  BY DEF ReadyInv, ReadyTypes, ChecksTimed
<1>1. p.begun \in Nat /\ p.begun <= Ready!Commands(k) * Timeout
  BY <1>0, CheckWithinLimits DEF ProbeRecord
<1>2. n = 0
  BY <1>0 DEF CheckTimed
<1>3. probe' = [probe EXCEPT ![k] = q] /\ checks' = [checks EXCEPT ![k] = n]
  BY DEF Ready!Ends
<1>4. q \in ProbeRecord /\ q.inFlight = 0 /\ q.at = 0 /\ q.age = p.begun
  <2> HIDE DEF p
  <2>1. 0 \in 0..5 /\ 0 \in Nat
    OBVIOUS
  <2>2. q \in ProbeRecord
    BY <1>0, <1>1, <2>1, Zenon DEF ProbeRecord
  <2>3. q.inFlight = 0 /\ q.at = 0 /\ q.age = p.begun
    BY <1>0 DEF ProbeRecord
  <2> QED BY <2>2, <2>3
<1> HIDE DEF p, q, n
<1>5. CheckTimed(n, q, k)
  BY <1>1, <1>2, <1>4, Bounds DEF CheckTimed
<1>6. /\ probe' \in [Ready!Kind -> ProbeRecord] /\ checks' \in [Ready!Kind -> Nat]
      /\ probe'[k] = q /\ checks'[k] = n
      /\ \A l \in Ready!Kind \ {k} : probe'[l] = probe[l] /\ checks'[l] = checks[l]
  BY <1>0, <1>2, <1>3, <1>4 DEF ReadyTypes
<1>7. ChecksTimed'
  <2>1. \A l \in Ready!Kind \ {k} : CheckTimed(checks[l], probe[l], l)
    BY <1>0 DEF ChecksTimed
  <2> QED BY <1>5, <1>6, <2>1 DEF ChecksTimed, CheckTimed
<1>8. CASE k = "database"
  <2>1. call' = [c \in Request |-> IF call[c].pc # "database" THEN call[c] ELSE Ready!WithDatabase(c, result, p.begun)]
    BY <1>8 DEF Ready!Ends, p
  <2>2. ASSUME NEW c \in Request
        PROVE  /\ call'[c] \in ReadyCall
               /\ \/ call'[c] = call[c]
                  \/ call'[c].age = p.begun /\ call'[c].pc \in {"ask", "answered"}
    BY <1>0, <1>1, <2>1, DatabaseSeen DEF ReadyTypes
  <2>3. call' \in [Request -> ReadyCall]
    BY <2>1, <2>2
  <2>4. p.begun <= CacheMs + 5 * Timeout /\ p.begun <= Ready!Longest /\ probe'["background"] = probe["background"]
    BY <1>1, <1>6, <1>8, Bounds
  <2>5. CallsTimed'
    BY <1>0, <2>2, <2>4 DEF CallsTimed
  <2> QED BY <1>6, <1>7, <2>3, <2>5 DEF ReadyInv, ReadyTypes
<1>9. CASE k = "background"
  <2>1. call' = [c \in Request |-> IF call[c].pc # "background" THEN call[c] ELSE Ready!WithBackground(c, result)]
    BY <1>9 DEF Ready!Ends
  <2>2. ASSUME NEW c \in Request
        PROVE  /\ call'[c] \in ReadyCall
               /\ \/ call'[c] = call[c] /\ call[c].pc # "background"
                  \/ call'[c].age = call[c].age /\ call[c].pc = "background" /\ call'[c].pc = "answered"
    BY <1>0, <2>1, BackgroundSeen DEF ReadyTypes
  <2>3. call' \in [Request -> ReadyCall]
    BY <2>1, <2>2
  <2>4. \A c \in Request : call[c].pc = "background" => call[c].age <= Ready!Longest
    <3> SUFFICES ASSUME NEW c \in Request, call[c].pc = "background" PROVE call[c].age <= Ready!Longest
      OBVIOUS
    <3>1. call[c].age \in Nat /\ call[c].age <= CacheMs + 5 * Timeout + p.begun
      BY <1>0, <1>9 DEF CallsTimed, ReadyTypes, ReadyCall, p
    <3>2. p.begun <= Timeout
      BY <1>1, <1>9, Bounds
    <3> QED BY <1>1, <3>1, <3>2, Bounds
  <2>5. CallsTimed'
    BY <1>0, <2>2, <2>4 DEF CallsTimed
  <2> QED BY <1>6, <1>7, <2>3, <2>5 DEF ReadyInv, ReadyTypes
<1> QED BY <1>8, <1>9, Bounds

\* A command answers, or its limit is over.
LEMMA CheckStep ==
  ASSUME Ready!LimitsAssumption, ReadyInv, NEW k \in Ready!Kind, Ready!Answers(k) \/ Ready!TimesOut(k)
  PROVE  ReadyInv'
<1>0. ReadyTypes /\ ChecksTimed /\ CallsTimed /\ probe[k] \in ProbeRecord /\ CheckTimed(checks[k], probe[k], k)
  BY DEF ReadyInv, ReadyTypes, ChecksTimed
<1>1. CASE Ready!TimesOut(k)
  <2>1. probe[k].inFlight > 0 /\ Ready!Ends(k, IF k = "database" THEN "unavailable" ELSE "degraded")
    BY <1>1 DEF Ready!TimesOut, Ready!Expired
  <2> QED BY <2>1, EndsStep DEF Ready!Status
<1>2. ASSUME NEW finding \in Ready!Findings(k), Ready!Ends(k, finding), probe[k].inFlight > 0 PROVE ReadyInv'
  BY <1>2, EndsStep DEF Ready!Findings, Ready!Status
<1>3. CASE /\ probe[k].inFlight > 0 /\ probe[k].inFlight # Ready!Commands(k)
           /\ probe' = [probe EXCEPT ![k].inFlight = @ + 1, ![k].spent = 0] /\ UNCHANGED <<checks, call>>
  <2> DEFINE p == probe[k]
             n == p.inFlight + 1
             q == [p EXCEPT !.inFlight = n, !.spent = 0]
  <2>1. p.inFlight \in 1..4 /\ n \in 0..5 /\ n <= Ready!Commands(k) /\ n > 0
    BY <1>0, <1>3, Bounds DEF ProbeRecord, CheckTimed
  <2>2. probe' = [probe EXCEPT ![k] = q]
    BY <1>3
  <2>3. p \in ProbeRecord /\ 0 \in Nat
    BY <1>0
  <2>4. p.begun \in Nat /\ p.spent \in Nat /\ p.begun <= (p.inFlight - 1) * Timeout + p.spent /\ p.spent <= Timeout
        /\ checks[k] = 1 /\ Timeout \in Nat
    BY <1>0, <1>3, Bounds DEF CheckTimed, ProbeRecord
  <2>5. p.begun <= (n - 1) * Timeout
    <3> DEFINE i == p.inFlight - 1
    <3>1. i \in 0..4 /\ p.begun <= i * Timeout + p.spent /\ n - 1 = i + 1
      BY <2>1, <2>4
    <3> HIDE DEF i, p, n
    <3>2. i * Timeout \in Nat /\ (i + 1) * Timeout = i * Timeout + Timeout
      BY <2>4, <3>1, Times
    <3> QED BY <2>4, <3>1, <3>2
  <2> HIDE DEF p
  <2>6. q \in ProbeRecord
    <3> HIDE DEF n
    <3> QED BY <2>1, <2>3, Zenon DEF ProbeRecord
  <2>7. /\ q.inFlight = n /\ q.spent = 0 /\ q.begun = p.begun /\ q.cached = p.cached /\ q.at = p.at /\ q.age = p.age
    BY <2>3 DEF ProbeRecord
  <2> HIDE DEF n, q
  <2>8. CheckTimed(checks[k], q, k)
    <3>1. (n - 1) * Timeout \in Nat
      BY <2>1, <2>4
    <3>2. q.begun <= (q.inFlight - 1) * Timeout + q.spent
      BY <2>4, <2>5, <2>7, <3>1
    <3>3. q.cached /\ q.at < CacheMs => q.age <= Ready!Commands(k) * Timeout + q.at
      BY <1>0, <2>7 DEF CheckTimed, p
    <3> QED BY <2>1, <2>4, <2>7, <3>2, <3>3 DEF CheckTimed
  <2>9. ChecksTimed'
    BY <1>0, <1>3, <2>2, <2>8 DEF ChecksTimed, ReadyTypes
  <2>10. probe' \in [Ready!Kind -> ProbeRecord]
    BY <1>0, <2>2, <2>6 DEF ReadyTypes
  <2>11. /\ probe["background"].inFlight > 0 => probe'["background"].inFlight > 0
         /\ probe'["background"].begun = probe["background"].begun
    <3>1. CASE k = "background"
      BY <1>0, <2>1, <2>2, <2>7, <3>1 DEF ReadyTypes, p
    <3>2. CASE k # "background"
      BY <1>0, <2>2, <3>2
    <3> QED BY <3>1, <3>2
  <2> QED BY <1>0, <1>3, <2>9, <2>10, <2>11 DEF ReadyInv, ReadyTypes, CallsTimed
<1> QED BY <1>1, <1>2, <1>3 DEF Ready!Answers

\* Time passes for a check under way and for a result.
LEMMA TickProbe ==
  ASSUME Ready!LimitsAssumption, ReadyInv, Ready!Tick, NEW k \in Ready!Kind
  PROVE  /\ probe'[k] \in ProbeRecord /\ CheckTimed(checks[k], probe'[k], k)
         /\ probe'[k].inFlight = probe[k].inFlight
         /\ probe[k].inFlight > 0 => \/ probe[k].begun > Ready!Commands(k) * Timeout
                                     \/ probe'[k].begun = probe[k].begun + 1
<1> DEFINE p == probe[k]
           spent == IF p.inFlight > 0 /\ p.spent < Timeout THEN p.spent + 1 ELSE p.spent
           begun == IF p.inFlight > 0 THEN Ready!Capped(p.begun) ELSE 0
           at == IF p.at < CacheMs THEN p.at + 1 ELSE p.at
           a == Ready!Capped(p.age)
           q == [p EXCEPT !.spent = spent, !.begun = begun, !.at = at, !.age = a]
<1>0. p \in ProbeRecord /\ CheckTimed(checks[k], p, k) /\ ~Ready!Expired(p) /\ ReadyTypes
  BY DEF ReadyInv, ReadyTypes, ChecksTimed, Ready!Tick
<1>1. probe'[k] = q
  BY DEF Ready!Tick
<1>2. /\ p.inFlight \in 0..5 /\ p.spent \in Nat /\ p.begun \in Nat /\ p.at \in Nat /\ p.age \in Nat
  BY <1>0 DEF ProbeRecord
<1>3. \A n \in Nat : Ready!Capped(n) \in Nat /\ Ready!Capped(n) <= n + 1 /\ (n < Ready!Beyond => Ready!Capped(n) = n + 1)
  BY Bounds DEF Ready!Capped
<1>4. spent \in Nat /\ begun \in Nat /\ at \in Nat /\ a \in Nat
  BY <1>2, <1>3, Bounds
<1>5. /\ p.inFlight > 0 => spent = p.spent + 1 /\ spent <= Timeout /\ begun <= p.begun + 1
      /\ at < CacheMs => at = p.at + 1 /\ p.at < CacheMs
      /\ a <= p.age + 1
  BY <1>0, <1>2, <1>3, Bounds DEF CheckTimed, Ready!Expired
<1>6. p.inFlight > 0 /\ p.begun <= Ready!Commands(k) * Timeout => begun = p.begun + 1
  BY <1>2, <1>3, Bounds
<1> HIDE DEF p, spent, begun, at, a
<1>7. q \in ProbeRecord
  BY <1>0, <1>4, Zenon DEF ProbeRecord
<1>8. /\ q.inFlight = p.inFlight /\ q.spent = spent /\ q.begun = begun /\ q.at = at /\ q.age = a
      /\ q.cached = p.cached
  BY <1>0 DEF ProbeRecord
<1> HIDE DEF q
<1>9. CheckTimed(checks[k], q, k)
  <2>1. checks[k] = (IF q.inFlight > 0 THEN 1 ELSE 0) /\ q.inFlight <= Ready!Commands(k)
    BY <1>0, <1>8 DEF CheckTimed
  <2>2. q.inFlight > 0 => q.begun <= (q.inFlight - 1) * Timeout + q.spent /\ q.spent <= Timeout
    <3> SUFFICES ASSUME p.inFlight > 0 PROVE begun <= (p.inFlight - 1) * Timeout + spent /\ spent <= Timeout
      BY <1>8
    <3>1. p.begun <= (p.inFlight - 1) * Timeout + p.spent
      BY <1>0 DEF CheckTimed
    <3>2. (p.inFlight - 1) * Timeout \in Nat
      <4> DEFINE i == p.inFlight - 1
      <4>1. i \in 0..4 /\ Timeout \in Nat
        BY <1>2, Bounds
      <4> HIDE DEF i
      <4>2. i * Timeout \in Nat
        BY <4>1, Times
      <4> QED BY <4>2 DEF i
    <3> QED BY <1>2, <1>4, <1>5, <3>1, <3>2
  <2>3. q.cached /\ q.at < CacheMs => q.age <= Ready!Commands(k) * Timeout + q.at
    <3> SUFFICES ASSUME p.cached, at < CacheMs PROVE a <= Ready!Commands(k) * Timeout + at
      BY <1>8
    <3>1. p.age <= Ready!Commands(k) * Timeout + p.at
      BY <1>0, <1>5 DEF CheckTimed
    <3> QED BY <1>2, <1>4, <1>5, <3>1, Bounds
  <2> QED BY <2>1, <2>2, <2>3 DEF CheckTimed
<1> QED BY <1>1, <1>2, <1>6, <1>7, <1>8, <1>9, Bounds DEF p

\* Time passes for those who wait.
LEMMA TickStep ==
  ASSUME Ready!LimitsAssumption, ReadyInv, Ready!Tick
  PROVE  ReadyInv'
<1>0. ReadyTypes /\ ChecksTimed /\ CallsTimed
  BY DEF ReadyInv
<1>1. probe' \in [Ready!Kind -> ProbeRecord] /\ UNCHANGED checks
  BY TickProbe DEF Ready!Tick
<1>2. ChecksTimed'
  BY <1>1, TickProbe DEF ChecksTimed, CheckTimed
<1>3. /\ probe["background"].inFlight > 0 =>
           probe'["background"].inFlight > 0 /\ probe'["background"].begun = probe["background"].begun + 1
      /\ probe["background"].begun \in Nat
  <2>1. probe["background"].inFlight > 0 => probe["background"].begun <= Ready!Commands("background") * Timeout
    BY <1>0, CheckWithinLimits, Bounds DEF ChecksTimed
  <2>2. probe["background"].begun \in Nat
    BY <1>0, Bounds DEF ReadyTypes, ProbeRecord
  <2> QED BY <2>1, <2>2, TickProbe, Bounds
<1>4. ASSUME NEW c \in Request
      PROVE  /\ call'[c] \in ReadyCall /\ call'[c].pc = call[c].pc
             /\ call[c].pc # "ask"
             /\ call'[c].age = IF call[c].pc = "background" THEN call[c].age + 1 ELSE call[c].age
  <2>1. call[c] \in ReadyCall /\ call[c].age + 1 \in Nat
    BY <1>0 DEF ReadyTypes, ReadyCall
  <2>2. call'[c] = IF call[c].pc = "background" THEN [call[c] EXCEPT !.age = call[c].age + 1] ELSE call[c]
    BY DEF Ready!Tick
  <2>3. call[c].pc # "ask"
    BY DEF Ready!Tick
  <2> QED BY <2>1, <2>2, <2>3 DEF ReadyCall
<1>5. call' \in [Request -> ReadyCall]
  BY <1>4 DEF Ready!Tick
<1>6. CallsTimed'
  <2> SUFFICES ASSUME NEW c \in Request
               PROVE  /\ call'[c].pc = "ask" => call'[c].age <= CacheMs + 5 * Timeout
                      /\ call'[c].pc = "background" =>
                           /\ probe'["background"].inFlight > 0
                           /\ call'[c].age <= CacheMs + 5 * Timeout + probe'["background"].begun
                      /\ call'[c].pc = "answered" => call'[c].age <= Ready!Longest
    BY DEF CallsTimed
  <2>1. call[c].age \in Nat
    BY <1>0 DEF ReadyTypes, ReadyCall
  <2> QED BY <1>0, <1>3, <1>4, <2>1, Bounds DEF CallsTimed
<1> QED BY <1>1, <1>2, <1>5, <1>6 DEF ReadyInv, ReadyTypes

\* However many calls of /health/ready come together, whatever hangs, and whatever the limits are: an
\* answer is no older than a result in use and its checks, one check of a kind runs at a time, and it
\* ends in its time (readinessService.js:102-124).
THEOREM ReadinessIsTrue == Ready!Spec => []ReadinessTrue
<1>0. Ready!LimitsAssumption
  BY ReadyAssumption
<1>1. Ready!Init => ReadyInv
  BY <1>0, Bounds DEF Ready!Init, Ready!Waiting, ReadyInv, ReadyTypes, ProbeRecord, ReadyCall, Ready!Status, ChecksTimed,
                CheckTimed, CallsTimed
<1>2. ReadyInv /\ [Ready!Next]_Ready!vars => ReadyInv'
  <2>1. ReadyInv /\ UNCHANGED Ready!vars => ReadyInv'
    BY DEF Ready!vars, ReadyInv, ReadyTypes, ChecksTimed, CallsTimed, CheckTimed
  <2> QED BY <1>0, <2>1, AskDatabaseStep, AskBackgroundStep, CheckStep, TickStep DEF Ready!Next
<1>3. ReadyInv => ReadinessTrue
  BY <1>0, CheckWithinLimits DEF ReadyInv, ChecksTimed, CheckTimed, CallsTimed, ReadinessTrue, Ready!ReadinessTrue,
                                 Ready!FreshAnswer, Ready!OneCheckAtATime, Ready!CheckEndsInTime
<1> QED BY <1>1, <1>2, <1>3, PTL DEF Ready!Spec

-------------------------------------------------------------------------------
(* Categories, in the instances "editing" and "seeding", for any number of     *)
(* rows, administrators, processes, reports and requests of staff.             *)

EditedRow == Editing!Category
EditRecord == Editing!EditRecord
SeedRecord == [pc: {"down", "seeding", "serving"}, left: Seq({"Drains", "Other"}), then: {"serving", "down"}]
EditKey == Keys(EditNames)
Filing == Editing!Pick

EditingTypes ==
  /\ category \in [CategoryId -> EditedRow]
  /\ indexed = TRUE
  /\ seeding \in [Server -> SeedRecord]
  /\ edit \in [Admin -> EditRecord]
  /\ report \in [Report -> CategoryId \cup {None}]
  /\ pick \in [Report \cup Staff -> Filing]

\* The fallback f is there, and no request under way will rename it, switch it off or delete it.
Safe(f) ==
  /\ category[f].state = "live" /\ category[f].name = "Other" /\ category[f].isActive
  /\ \A a \in Admin : edit[a].id = f =>
       /\ edit[a].op = "update"
       /\ edit[a].read.name = "Other" /\ edit[a].read.isActive
       /\ edit[a].name \in {"Other", None} /\ edit[a].isActive \in {TRUE, None}

\* Before there is a fallback nobody serves, whoever seeds will make it, and nothing takes its name.
NotYet ==
  /\ \A s \in Server : /\ seeding[s].pc # "serving"
                       /\ seeding[s].pc = "seeding" => \E i \in 1..Len(seeding[s].left) : seeding[s].left[i] = "Other"
  /\ \A a \in Admin : edit[a] = Editing!NoEdit
  /\ \A c \in CategoryId : category[c].state = "live" =>
       category[c].key # EditKey["Other"] /\ category[c].name # "Other"

\* What a request under way found when it read its category, and what was put there since.
ReadsHold ==
  \A a \in Admin :
    /\ edit[a].op = "idle" => edit[a] = Editing!NoEdit
    /\ edit[a].op # "idle" => edit[a].id \in CategoryId
    /\ edit[a].op = "update" => edit[a].read \in EditedRow
    /\ edit[a].op = "delete" => /\ category[edit[a].id].state = "live" /\ ~category[edit[a].id].isActive
                                /\ Editing!Filed(edit[a].id) \subseteq edit[a].since

PicksHold == \A w \in Report \cup Staff : pick[w].ready => pick[w].id \in CategoryId /\ pick[w].report \in Report

EditingInv ==
  /\ EditingTypes /\ ReadsHold /\ PicksHold
  /\ NotYet \/ \E f \in CategoryId : Safe(f)

\* While a start has a default to add that is not the fallback, all there is are defaults.
SeedingInv ==
  /\ DOMAIN category = CategoryId
  /\ seeding \in [{First} -> SeedRecord]
  /\ ~Seeding!Serving => edit[One] = Seeding!NoEdit
  /\ seeding[First].pc = "seeding" /\ (\E i \in 1..Len(seeding[First].left) : seeding[First].left[i] # "Other") =>
       \A c \in CategoryId : category[c].state = "live" => category[c].name \in {"Drains", "Other"}

CategoriesInv == (instance = "editing" => EditingInv) /\ (instance = "seeding" => SeedingInv)

\* The two instances alone, without the bound of the run.
CategoriesInit ==
  \/ instance = "editing" /\ Editing!Init
  \/ instance = "seeding" /\ Seeding!Init
CategoriesNext ==
  /\ UNCHANGED instance
  /\ \/ instance = "editing" /\ Editing!Next
     \/ instance = "seeding" /\ Seeding!Next
CategoriesSpec == CategoriesInit /\ [][CategoriesNext]_<<instance, categories>>

\* What the names of "editing" are like.
LEMMA EditKeys ==
  /\ EditKey \in [EditNames -> STRING] /\ Slugs(EditNames) \in [EditNames -> STRING]
  /\ "Other" \in EditNames /\ "Drains" \in EditNames /\ EditKey["Drains"] # EditKey["Other"]
  /\ None \notin CategoryId /\ None \notin Report
<1>1. Editing!NamesAssumption
  BY EditingAssumption
<1>2. EditKey["Drains"] # EditKey["Other"]
  BY DEF EditKey, Keys, EditNames
<1> QED BY <1>1, <1>2 DEF Editing!NamesAssumption, EditKey, EditNames

\* A row of the name n.
LEMMA NamedIsRow ==
  ASSUME NEW n \in EditNames, NEW b \in BOOLEAN
  PROVE  /\ Editing!Named(n, b) \in EditedRow
         /\ Editing!Named(n, b) = [state |-> "live", name |-> n, key |-> EditKey[n], slug |-> Slugs(EditNames)[n],
                                   isActive |-> b]
<1> QED BY EditKeys DEF Editing!Named, EditedRow, Editing!Category, EditKey

LEMMA NoEditIsEdit == Editing!NoEdit \in EditRecord /\ Editing!NoEdit.id = None /\ Editing!NoEdit.op = "idle"
<1> QED BY DEF Editing!NoEdit, EditRecord, Editing!EditRecord

LEMMA NoPickIsPick == Editing!NoPick \in Filing /\ ~Editing!NoPick.ready
<1> QED BY DEF Editing!NoPick, Filing, Editing!Pick

LEMMA NextIsUnmade ==
  ASSUME Editing!Unmade # {}
  PROVE  Editing!NextCategory \in CategoryId /\ category[Editing!NextCategory].state = "unmade"
<1> QED BY DEF Editing!NextCategory, Editing!Unmade

\* A new row of the name n: whoever looks for the fallback still finds it.
LEMMA RowAdded ==
  ASSUME EditingInv, NEW n \in EditNames, NEW b \in BOOLEAN, NEW c \in CategoryId, category[c].state = "unmade",
         category' = [category EXCEPT ![c] = Editing!Named(n, b)],
         UNCHANGED <<edit, report>>
  PROVE  /\ category' \in [CategoryId -> EditedRow]
         /\ \A d \in CategoryId : Safe(d) => Safe(d)'
<1>1. Editing!Named(n, b) \in EditedRow
  BY NamedIsRow
<1>2. category \in [CategoryId -> EditedRow]
  BY DEF EditingInv, EditingTypes
<1>3. category' \in [CategoryId -> EditedRow]
  BY <1>1, <1>2
<1>4. ASSUME NEW d \in CategoryId, Safe(d) PROVE Safe(d)'
  BY <1>2, <1>4 DEF Safe
<1> QED BY <1>3, <1>4

\* What an update writes: a row again, and the fallback as it was.
LEMMA SavedIsRow ==
  ASSUME EditingInv, NEW a \in Admin, edit[a].op = "update"
  PROVE  /\ edit[a].id \in CategoryId
         /\ Editing!Saved(a) \in EditedRow
         /\ Editing!Saved(a).state = category[edit[a].id].state
         /\ Safe(edit[a].id) => Editing!Saved(a).name = "Other" /\ Editing!Saved(a).isActive
<1> DEFINE now == category[edit[a].id]
           read == edit[a].read
           name == IF edit[a].name = None THEN read.name ELSE edit[a].name
           active == IF edit[a].isActive = None THEN read.isActive ELSE edit[a].isActive
           want == Editing!Named(name, active)
           saved == Editing!Saved(a)
<1>1. edit[a].id \in CategoryId /\ now \in EditedRow /\ read \in EditedRow
  BY DEF EditingInv, EditingTypes, ReadsHold
<1>2. name \in EditNames /\ active \in BOOLEAN
  <2>1. edit[a].name \in EditNames \cup {None} /\ edit[a].isActive \in BOOLEAN \cup {None}
    BY DEF EditingInv, EditingTypes, EditRecord, Editing!EditRecord
  <2>2. read.name \in EditNames /\ read.isActive \in BOOLEAN
    BY <1>1 DEF EditedRow, Editing!Category
  <2> QED BY <2>1, <2>2
<1>3. want \in EditedRow /\ want.name = name /\ want.isActive = active
  BY <1>2, NamedIsRow
<1>4. saved = [state |-> now.state,
               name |-> IF want.name # read.name THEN want.name ELSE now.name,
               key |-> IF want.key # read.key THEN want.key ELSE now.key,
               slug |-> IF want.slug # read.slug THEN want.slug ELSE now.slug,
               isActive |-> IF want.isActive # read.isActive THEN want.isActive ELSE now.isActive]
  BY DEF Editing!Saved
<1>5. Safe(edit[a].id) => name = "Other" /\ active /\ now.name = "Other" /\ now.isActive
  BY <1>1 DEF Safe
<1> HIDE DEF now, read, name, active, want, saved
<1>6. saved \in EditedRow /\ saved.state = now.state
  BY <1>1, <1>3, <1>4 DEF EditedRow, Editing!Category
<1>7. Safe(edit[a].id) => saved.name = "Other" /\ saved.isActive
  BY <1>3, <1>4, <1>5
<1> QED BY <1>1, <1>6, <1>7 DEF saved, now

\* The transactions that start again: the others stay as they are.
LEMMA WrittenStep ==
  ASSUME edit \in [Admin -> EditRecord], NEW c
  PROVE  /\ Editing!Written(c, edit) \in [Admin -> EditRecord]
         /\ \A a \in Admin : /\ Editing!Written(c, edit)[a] \in {edit[a], Editing!NoEdit}
                             /\ Editing!Written(c, edit)[a].op = "delete" => edit[a].id # c
<1> QED BY NoEditIsEdit DEF Editing!Written

\* When requests end and others stay as they are, nobody threatens a fallback that was safe.
LEMMA EditsEnd ==
  ASSUME NEW f \in CategoryId, Safe(f), category'[f].state = "live", category'[f].name = "Other", category'[f].isActive,
         \A a \in Admin : edit'[a] \in {edit[a], Editing!NoEdit}
  PROVE  Safe(f)'
<1> QED BY NoEditIsEdit, EditKeys DEF Safe

\* As long as the API answers, or somebody edits, there is a fallback.
LEMMA SafeWhileServing ==
  ASSUME EditingInv, \/ Editing!Serving
                     \/ \E a \in Admin : edit[a].op # "idle"
  PROVE  \E f \in CategoryId : Safe(f)
<1> QED BY NoEditIsEdit DEF EditingInv, NotYet, Editing!Serving

LEMMA CreateStep ==
  ASSUME EditingInv, NEW n \in EditNames, NEW b \in BOOLEAN, Editing!createCategory(n, b)
  PROVE  EditingInv'
<1> DEFINE c == Editing!NextCategory
<1>1. c \in CategoryId /\ category[c].state = "unmade"
  BY NextIsUnmade DEF Editing!createCategory
<1>2. /\ category' = [category EXCEPT ![c] = Editing!Named(n, b)]
      /\ UNCHANGED <<indexed, seeding, edit, report, pick>>
  BY DEF Editing!createCategory
<1> HIDE DEF c
<1>3. EditingTypes'
  BY <1>1, <1>2, RowAdded DEF EditingInv, EditingTypes
<1>4. ReadsHold'
  BY <1>1, <1>2 DEF EditingInv, ReadsHold, EditingTypes, Editing!Filed
<1>5. PicksHold'
  BY <1>2 DEF EditingInv, PicksHold
<1>6. \E f \in CategoryId : Safe(f)'
  BY <1>1, <1>2, RowAdded, SafeWhileServing DEF Editing!createCategory
<1> QED BY <1>3, <1>4, <1>5, <1>6 DEF EditingInv

LEMMA ReadForUpdateStep ==
  ASSUME EditingInv, NEW a \in Admin, NEW c \in CategoryId, NEW n \in EditNames \cup {None}, NEW b \in BOOLEAN \cup {None},
         Editing!ReadForUpdate(a, c, n, b)
  PROVE  EditingInv'
<1> DEFINE e == [op |-> "update", id |-> c, read |-> category[c], name |-> n, isActive |-> b, since |-> {}]
<1>1. edit' = [edit EXCEPT ![a] = e] /\ UNCHANGED <<category, indexed, seeding, report, pick>>
  BY DEF Editing!ReadForUpdate
<1>2. category[c] \in EditedRow /\ edit \in [Admin -> EditRecord]
  BY DEF EditingInv, EditingTypes
<1>3. e \in EditRecord
  BY <1>2 DEF EditRecord, Editing!EditRecord, EditedRow
<1>4. EditingTypes'
  BY <1>1, <1>3 DEF EditingInv, EditingTypes
<1>5. edit'[a] = e /\ \A d \in Admin \ {a} : edit'[d] = edit[d]
  BY <1>1, <1>2
<1>6. ReadsHold'
  BY <1>1, <1>2, <1>5 DEF EditingInv, ReadsHold, Editing!Filed
<1>7. PicksHold'
  BY <1>1 DEF EditingInv, PicksHold
<1>8. PICK f \in CategoryId : Safe(f)
  BY SafeWhileServing DEF Editing!ReadForUpdate
<1>9. c = f => n \in {"Other", None} /\ b \in {TRUE, None}
  BY <1>8 DEF Editing!ReadForUpdate, Editing!Protected, Editing!isFallback, Safe
<1>10. Safe(f)'
  <2>1. ASSUME NEW d \in Admin, edit'[d].id = f
        PROVE  /\ edit'[d].op = "update" /\ edit'[d].read.name = "Other" /\ edit'[d].read.isActive
               /\ edit'[d].name \in {"Other", None} /\ edit'[d].isActive \in {TRUE, None}
    <3>1. CASE d = a
      <4>1. /\ edit'[d].op = "update" /\ edit'[d].read = category[c] /\ edit'[d].name = n /\ edit'[d].isActive = b
            /\ c = f
        BY <1>5, <2>1, <3>1
      <4> HIDE DEF e
      <4> QED BY <1>8, <1>9, <4>1 DEF Safe
    <3>2. CASE d # a
      BY <1>5, <1>8, <2>1, <3>2, ZenonT(60) DEF Safe
    <3> QED BY <3>1, <3>2
  <2> QED BY <1>1, <1>8, <2>1 DEF Safe
<1> QED BY <1>4, <1>6, <1>7, <1>10 DEF EditingInv

LEMMA SaveUpdateStep ==
  ASSUME EditingInv, NEW a \in Admin, Editing!SaveUpdate(a)
  PROVE  EditingInv'
<1> DEFINE c == edit[a].id
           row == Editing!Saved(a)
           stored == c \in Editing!Live /\ Editing!Accepts(c, row)
           edits == IF stored THEN Editing!Written(c, edit) ELSE edit
<1>1. /\ edit[a].op = "update"
      /\ category' = IF stored THEN [category EXCEPT ![c] = row] ELSE category
      /\ edit' = [edits EXCEPT ![a] = Editing!NoEdit]
      /\ UNCHANGED <<indexed, seeding, report, pick>>
  BY DEF Editing!SaveUpdate
<1>2. /\ c \in CategoryId /\ row \in EditedRow /\ row.state = category[c].state
      /\ Safe(c) => row.name = "Other" /\ row.isActive
  BY <1>1, SavedIsRow
<1>3. /\ category \in [CategoryId -> EditedRow] /\ edit \in [Admin -> EditRecord]
  BY DEF EditingInv, EditingTypes
<1> HIDE DEF row
<1>4. /\ edits \in [Admin -> EditRecord]
      /\ \A d \in Admin : /\ edits[d] \in {edit[d], Editing!NoEdit}
                          /\ stored /\ edits[d].op = "delete" => edit[d].id # c
  BY <1>3, WrittenStep
<1> HIDE DEF c, stored, edits
<1>5. /\ edit' \in [Admin -> EditRecord]
      /\ \A d \in Admin : /\ edit'[d] \in {edit[d], Editing!NoEdit}
                          /\ stored /\ edit'[d].op = "delete" => edit[d].id # c
  BY <1>1, <1>4, NoEditIsEdit
<1>6. category' \in [CategoryId -> EditedRow]
  BY <1>1, <1>2, <1>3
<1>7. EditingTypes'
  BY <1>1, <1>5, <1>6 DEF EditingInv, EditingTypes
<1>8. ReadsHold'
  <2> SUFFICES ASSUME NEW d \in Admin, edit'[d] = edit[d], edit[d].op = "delete"
               PROVE  category'[edit[d].id] = category[edit[d].id] /\ Editing!Filed(edit[d].id)' = Editing!Filed(edit[d].id)
    BY <1>5, NoEditIsEdit DEF EditingInv, ReadsHold
  <2>1. stored => edit[d].id # c
    BY <1>5
  <2> QED BY <1>1, <1>3, <2>1 DEF Editing!Filed, EditingInv, ReadsHold
<1>9. PicksHold'
  BY <1>1 DEF EditingInv, PicksHold
<1>10. PICK f \in CategoryId : Safe(f)
  BY <1>1, SafeWhileServing
<1>11. category'[f].state = "live" /\ category'[f].name = "Other" /\ category'[f].isActive
  <2>1. category[f].state = "live" /\ category[f].name = "Other" /\ category[f].isActive
    BY <1>10 DEF Safe
  <2>2. CASE f = c /\ stored
    BY <1>1, <1>2, <1>3, <1>10, <2>1, <2>2
  <2>3. CASE ~(f = c /\ stored)
    BY <1>1, <1>3, <2>1, <2>3
  <2> QED BY <2>2, <2>3
<1>12. Safe(f)'
  BY <1>5, <1>10, <1>11, EditsEnd
<1> QED BY <1>7, <1>8, <1>9, <1>12 DEF EditingInv

LEMMA ReadForDeleteStep ==
  ASSUME EditingInv, NEW a \in Admin, NEW c \in CategoryId, Editing!ReadForDelete(a, c)
  PROVE  EditingInv'
<1> DEFINE e == [op |-> "delete", id |-> c, read |-> None, name |-> None, isActive |-> None, since |-> {}]
<1>1. edit' = [edit EXCEPT ![a] = e] /\ UNCHANGED <<category, indexed, seeding, report, pick>>
  BY DEF Editing!ReadForDelete
<1>2. edit \in [Admin -> EditRecord]
  BY DEF EditingInv, EditingTypes
<1>3. e \in EditRecord
  BY DEF EditRecord, Editing!EditRecord
<1>4. /\ category[c].state = "live" /\ ~category[c].isActive /\ Editing!Filed(c) = {}
      /\ ~Editing!isFallback(c)
  BY DEF Editing!ReadForDelete, Editing!Deletable, Editing!Live
<1>5. edit'[a] = e /\ \A d \in Admin \ {a} : edit'[d] = edit[d]
  BY <1>1, <1>2
<1>6. EditingTypes'
  BY <1>1, <1>2, <1>3 DEF EditingInv, EditingTypes
<1>7. ReadsHold'
  BY <1>1, <1>4, <1>5 DEF EditingInv, ReadsHold, Editing!Filed
<1>8. PicksHold'
  BY <1>1 DEF EditingInv, PicksHold
<1>9. PICK f \in CategoryId : Safe(f)
  BY SafeWhileServing DEF Editing!ReadForDelete
<1>10. c # f
  BY <1>4, <1>9 DEF Safe
<1>11. Safe(f)'
  <2>1. \A d \in Admin : edit'[d].id = f => edit'[d] = edit[d]
    BY <1>5, <1>10
  <2> QED BY <1>1, <1>9, <2>1 DEF Safe
<1> QED BY <1>6, <1>7, <1>8, <1>11 DEF EditingInv

LEMMA CommitDeleteStep ==
  ASSUME EditingInv, NEW a \in Admin, Editing!CommitDelete(a)
  PROVE  EditingInv'
<1> DEFINE c == edit[a].id
           edits == Editing!Written(c, edit)
<1>1. /\ edit[a].op = "delete" /\ category' = [category EXCEPT ![c].state = "deleted"]
      /\ edit' = [edits EXCEPT ![a] = Editing!NoEdit]
      /\ UNCHANGED <<indexed, seeding, report, pick>>
  BY DEF Editing!CommitDelete
<1>2. /\ c \in CategoryId /\ category \in [CategoryId -> EditedRow] /\ edit \in [Admin -> EditRecord]
  BY <1>1 DEF EditingInv, EditingTypes, ReadsHold
<1>3. /\ edits \in [Admin -> EditRecord]
      /\ \A d \in Admin : /\ edits[d] \in {edit[d], Editing!NoEdit}
                          /\ edits[d].op = "delete" => edit[d].id # c
  BY <1>2, WrittenStep
<1> HIDE DEF c, edits
<1>4. /\ edit' \in [Admin -> EditRecord]
      /\ \A d \in Admin : /\ edit'[d] \in {edit[d], Editing!NoEdit}
                          /\ edit'[d].op = "delete" => edit[d].id # c
  BY <1>1, <1>3, NoEditIsEdit
<1>5. category' \in [CategoryId -> EditedRow] /\ \A d \in CategoryId \ {c} : category'[d] = category[d]
  BY <1>1, <1>2 DEF EditedRow, Editing!Category
<1>6. EditingTypes'
  BY <1>1, <1>4, <1>5 DEF EditingInv, EditingTypes
<1>7. ReadsHold'
  <2> SUFFICES ASSUME NEW d \in Admin, edit'[d] = edit[d], edit[d].op = "delete"
               PROVE  category'[edit[d].id] = category[edit[d].id] /\ Editing!Filed(edit[d].id)' = Editing!Filed(edit[d].id)
    BY <1>4, NoEditIsEdit DEF EditingInv, ReadsHold
  <2> QED BY <1>1, <1>4, <1>5 DEF Editing!Filed, EditingInv, ReadsHold
<1>8. PicksHold'
  BY <1>1 DEF EditingInv, PicksHold
<1>9. PICK f \in CategoryId : Safe(f)
  BY <1>1, SafeWhileServing
<1>10. f # c
  BY <1>1, <1>9 DEF Safe, c
<1>11. Safe(f)'
  <2>1. category'[f].state = "live" /\ category'[f].name = "Other" /\ category'[f].isActive
    BY <1>5, <1>9, <1>10 DEF Safe
  <2> QED BY <1>4, <1>9, <2>1, EditsEnd
<1> QED BY <1>6, <1>7, <1>8, <1>11 DEF EditingInv

\* Steps that leave rows, requests under way and reports alone, and let nobody serve without a fallback.
LEMMA OthersStep ==
  ASSUME EditingInv, UNCHANGED <<category, indexed, edit, report>>, PicksHold', EditingTypes',
         \/ UNCHANGED seeding
         \/ \E f \in CategoryId : Safe(f)
  PROVE  EditingInv'
<1>1. ReadsHold'
  BY DEF EditingInv, ReadsHold, Editing!Filed
<1>2. \A f \in CategoryId : Safe(f) => Safe(f)'
  BY DEF Safe
<1>3. NotYet /\ UNCHANGED seeding => NotYet'
  BY DEF NotYet
<1> QED BY <1>1, <1>2, <1>3 DEF EditingInv

\* What a start will ensure holds the fallback.
LEMMA ToSeedHasOther ==
  /\ Editing!ToSeed \in Seq({"Drains", "Other"})
  /\ \E i \in 1..Len(Editing!ToSeed) : Editing!ToSeed[i] = "Other"
<1>1. CASE Editing!Live = {}
  <2>1. Editing!ToSeed = <<"Drains", "Other">>
    BY <1>1 DEF Editing!ToSeed
  <2> QED BY <2>1, EditKeys
<1>2. CASE Editing!Live # {}
  <2>1. Editing!ToSeed = <<"Other">>
    BY <1>2 DEF Editing!ToSeed
  <2> QED BY <2>1, EditKeys
<1> QED BY <1>1, <1>2

LEMMA StartServerStep ==
  ASSUME EditingInv, NEW s \in Server, Editing!StartServer(s)
  PROVE  EditingInv'
<1> DEFINE r == [pc |-> "seeding", left |-> Editing!ToSeed, then |-> "serving"]
<1>1. /\ seeding' = [seeding EXCEPT ![s] = r]
      /\ UNCHANGED <<category, indexed, edit, report, pick>>
  BY DEF Editing!StartServer, EditingInv, EditingTypes
<1>2. r \in SeedRecord
  BY ToSeedHasOther DEF SeedRecord
<1>3. EditingTypes'
  BY <1>1, <1>2 DEF EditingInv, EditingTypes
<1>4. PicksHold' /\ ReadsHold'
  BY <1>1 DEF EditingInv, PicksHold, ReadsHold, Editing!Filed
<1>5. \A f \in CategoryId : Safe(f) => Safe(f)'
  BY <1>1 DEF Safe
<1>6. NotYet => NotYet'
  <2>1. seeding'[s] = r /\ \A t \in Server \ {s} : seeding'[t] = seeding[t]
    BY <1>1 DEF EditingInv, EditingTypes
  <2>2. r.pc = "seeding" /\ r.left = Editing!ToSeed
    OBVIOUS
  <2> HIDE DEF r
  <2> QED BY <1>1, <2>1, <2>2, ToSeedHasOther DEF NotYet
<1> QED BY <1>3, <1>4, <1>5, <1>6 DEF EditingInv

LEMMA StopServerStep ==
  ASSUME EditingInv, NEW s \in Server, Editing!StopServer(s)
  PROVE  EditingInv'
<1> DEFINE others == \E t \in Server \ {s} : seeding[t].pc = "serving"
<1>1. /\ seeding' = [seeding EXCEPT ![s] = Editing!Down]
      /\ IF others THEN UNCHANGED <<edit, pick>>
         ELSE /\ edit' = [a \in Admin |-> Editing!NoEdit]
              /\ pick' = [w \in Report \cup Staff |-> Editing!NoPick]
      /\ UNCHANGED <<category, indexed, report>>
  BY DEF Editing!StopServer
<1>2. Editing!Down \in SeedRecord /\ Editing!Down.pc = "down"
  BY DEF Editing!Down, SeedRecord
<1>3. EditingTypes'
  <2>1. edit' \in [Admin -> EditRecord] /\ pick' \in [Report \cup Staff -> Filing]
    BY <1>1, NoEditIsEdit, NoPickIsPick DEF EditingInv, EditingTypes
  <2> QED BY <1>1, <1>2, <2>1 DEF EditingInv, EditingTypes
<1>4. PicksHold'
  BY <1>1, NoPickIsPick DEF EditingInv, PicksHold
<1>5. \A a \in Admin : edit'[a] \in {edit[a], Editing!NoEdit}
  BY <1>1
<1>6. ReadsHold'
  BY <1>1, <1>5, NoEditIsEdit DEF EditingInv, ReadsHold, Editing!Filed
<1>7. \A f \in CategoryId : Safe(f) => Safe(f)'
  BY <1>1, <1>5, EditsEnd DEF Safe
<1>8. NotYet => NotYet'
  BY <1>1, <1>2, <1>5 DEF NotYet, EditingInv, EditingTypes
<1> QED BY <1>3, <1>4, <1>6, <1>7, <1>8 DEF EditingInv

LEMMA ReadHintStep ==
  ASSUME EditingInv, NEW r \in Report, NEW c \in CategoryId \cup {None}, Editing!ReadHint(r, c)
  PROVE  EditingInv'
<1> DEFINE p == [id |-> c, report |-> r, ready |-> FALSE]
<1>1. pick' = [pick EXCEPT ![r] = p] /\ UNCHANGED <<category, indexed, seeding, edit, report>>
  BY DEF Editing!ReadHint
<1>2. p \in Filing /\ ~p.ready
  BY DEF Filing, Editing!Pick
<1> HIDE DEF p
<1>3. EditingTypes' /\ PicksHold'
  BY <1>1, <1>2 DEF EditingInv, EditingTypes, PicksHold
<1> QED BY <1>1, <1>3, OthersStep

LEMMA ReadFallbackStep ==
  ASSUME EditingInv, NEW r \in Report, Editing!ReadFallback(r)
  PROVE  EditingInv'
<1>1. UNCHANGED <<category, indexed, seeding, edit, report>> /\ pick[r].report = r
  BY DEF Editing!ReadFallback
<1>2. pick[r] \in Filing /\ pick \in [Report \cup Staff -> Filing]
  BY DEF EditingInv, EditingTypes
<1>3. \E p \in Filing : /\ pick' = [pick EXCEPT ![r] = p]
                        /\ p.ready => p.id \in CategoryId /\ p.report = r
  <2>1. CASE Editing!Fallback = {}
    BY <2>1, NoPickIsPick DEF Editing!ReadFallback
  <2>2. CASE Editing!Fallback # {}
    <3>1. PICK f \in Editing!Fallback :
            pick' = [pick EXCEPT ![r] = [id |-> IF @.id = None THEN f ELSE @.id, report |-> r, ready |-> TRUE]]
      BY <2>2 DEF Editing!ReadFallback
    <3> DEFINE p == [id |-> IF pick[r].id = None THEN f ELSE pick[r].id, report |-> r, ready |-> TRUE]
    <3>2. p \in Filing /\ p.id \in CategoryId
      BY <1>2 DEF Filing, Editing!Pick, Editing!Fallback, Editing!Live
    <3>3. pick' = [pick EXCEPT ![r] = p]
      BY <1>2, <3>1
    <3> QED BY <3>2, <3>3
  <2> QED BY <2>1, <2>2
<1>4. EditingTypes' /\ PicksHold'
  BY <1>1, <1>2, <1>3 DEF EditingInv, EditingTypes, PicksHold
<1> QED BY <1>1, <1>4, OthersStep

LEMMA PickToMoveStep ==
  ASSUME EditingInv, NEW s \in Staff, NEW r \in Report, NEW c \in CategoryId, Editing!PickToMove(s, r, c)
  PROVE  EditingInv'
<1> DEFINE p == [id |-> c, report |-> r, ready |-> TRUE]
<1>1. pick' = [pick EXCEPT ![s] = p] /\ UNCHANGED <<category, indexed, seeding, edit, report>>
  BY DEF Editing!PickToMove
<1>2. p \in Filing /\ p.id \in CategoryId /\ p.report \in Report
  BY DEF Filing, Editing!Pick
<1> HIDE DEF p
<1>3. EditingTypes' /\ PicksHold'
  BY <1>1, <1>2 DEF EditingInv, EditingTypes, PicksHold
<1> QED BY <1>1, <1>3, OthersStep

LEMMA DropPickStep ==
  ASSUME EditingInv, NEW w \in Report \cup Staff, Editing!DropPick(w)
  PROVE  EditingInv'
<1>1. pick' = [pick EXCEPT ![w] = Editing!NoPick] /\ UNCHANGED <<category, indexed, seeding, edit, report>>
  BY DEF Editing!DropPick
<1>2. EditingTypes' /\ PicksHold'
  BY <1>1, NoPickIsPick DEF EditingInv, EditingTypes, PicksHold
<1> QED BY <1>1, <1>2, OthersStep

\* A report is put in a category: a delete under way learns of it.
LEMMA WritePickStep ==
  ASSUME EditingInv, NEW w \in Report \cup Staff, Editing!WritePick(w)
  PROVE  EditingInv'
<1> DEFINE r == pick[w].report
           c == pick[w].id
<1>1. r \in Report /\ c \in CategoryId
  BY DEF EditingInv, PicksHold, Editing!WritePick
<1>2. /\ report' = [report EXCEPT ![r] = c]
      /\ pick' = [v \in Report \cup Staff |-> IF pick[v].report = r THEN Editing!NoPick ELSE pick[v]]
      /\ edit' = [a \in Admin |-> IF edit[a].op = "delete" /\ edit[a].id = c
                                  THEN [edit[a] EXCEPT !.since = @ \cup {r}] ELSE edit[a]]
      /\ UNCHANGED <<category, indexed, seeding>>
  BY DEF Editing!WritePick
<1> HIDE DEF r, c
<1>3. ASSUME NEW a \in Admin
      PROVE  /\ edit'[a] \in EditRecord
             /\ edit'[a].op = edit[a].op /\ edit'[a].id = edit[a].id /\ edit'[a].read = edit[a].read
             /\ edit'[a].name = edit[a].name /\ edit'[a].isActive = edit[a].isActive
             /\ edit[a].op # "delete" => edit'[a] = edit[a]
             /\ edit'[a].since = IF edit[a].op = "delete" /\ edit[a].id = c THEN edit[a].since \cup {r} ELSE edit[a].since
  <2>1. edit[a] \in EditRecord
    BY DEF EditingInv, EditingTypes
  <2> QED BY <1>1, <1>2, <2>1 DEF EditRecord, Editing!EditRecord
<1>4. /\ report' \in [Report -> CategoryId \cup {None}]
      /\ \A d \in CategoryId : {x \in Report : report'[x] = d} \subseteq Editing!Filed(d) \cup (IF d = c THEN {r} ELSE {})
  BY <1>1, <1>2 DEF EditingInv, EditingTypes, Editing!Filed
<1>5. EditingTypes' /\ PicksHold'
  <2>1. edit' \in [Admin -> EditRecord]
    BY <1>2, <1>3
  <2> QED BY <1>2, <1>4, <2>1, NoPickIsPick DEF EditingInv, EditingTypes, PicksHold
<1>6. ReadsHold'
  <2> SUFFICES ASSUME NEW a \in Admin, edit[a].op = "delete"
               PROVE  {x \in Report : report'[x] = edit[a].id} \subseteq edit'[a].since
    BY <1>2, <1>3 DEF EditingInv, ReadsHold, Editing!Filed
  <2>1. edit[a].id \in CategoryId /\ Editing!Filed(edit[a].id) \subseteq edit[a].since
    BY DEF EditingInv, ReadsHold
  <2>2. {x \in Report : report'[x] = edit[a].id} \subseteq Editing!Filed(edit[a].id) \cup (IF edit[a].id = c THEN {r} ELSE {})
    BY <1>4, <2>1
  <2>3. edit'[a].since = IF edit[a].id = c THEN edit[a].since \cup {r} ELSE edit[a].since
    BY <1>3
  <2> QED BY <2>1, <2>2, <2>3
<1>7. ASSUME NEW f \in CategoryId, Safe(f) PROVE Safe(f)'
  <2>1. \A a \in Admin : edit[a].id = f => edit'[a] = edit[a]
    BY <1>3, <1>7 DEF Safe
  <2> QED BY <1>2, <1>3, <1>7, <2>1, ZenonT(60) DEF Safe
<1>8. NotYet => NotYet'
  BY <1>2, <1>3, NoEditIsEdit DEF NotYet
<1> QED BY <1>5, <1>6, <1>7, <1>8 DEF EditingInv

LEMMA SeedOneStep ==
  ASSUME EditingInv, NEW s \in Server, Editing!SeedOne(s)
  PROVE  EditingInv'
<1> DEFINE left == seeding[s].left
           name == Head(left)
           c == Editing!NextCategory
<1>1. seeding[s] \in SeedRecord /\ seeding \in [Server -> SeedRecord] /\ category \in [CategoryId -> EditedRow]
  BY DEF EditingInv, EditingTypes
<1>2. seeding[s].pc = "seeding" /\ left \in Seq({"Drains", "Other"}) /\ UNCHANGED <<indexed, edit, report, pick>>
  BY <1>1 DEF Editing!SeedOne, SeedRecord
<1>3. PicksHold'
  BY <1>2 DEF EditingInv, PicksHold
<1>4. CASE left # <<>> /\ Editing!Upsert(name, category') /\ seeding' = [seeding EXCEPT ![s] = [pc |-> "seeding", left |-> Tail(left), then |-> seeding[s].then]]
  <2> DEFINE q == [pc |-> "seeding", left |-> Tail(left), then |-> seeding[s].then]
  <2>1. name \in {"Drains", "Other"} /\ Tail(left) \in Seq({"Drains", "Other"}) /\ name \in EditNames
    BY <1>2, <1>4, EditKeys
  <2>2. q \in SeedRecord /\ seeding' = [seeding EXCEPT ![s] = q]
    BY <1>1, <1>4, <2>1 DEF SeedRecord
  <2>3. seeding' \in [Server -> SeedRecord] /\ seeding'[s] = q /\ \A t \in Server \ {s} : seeding'[t] = seeding[t]
    BY <1>1, <2>2
  <2>4. name # "Other" /\ (\E i \in 1..Len(left) : left[i] = "Other") => \E i \in 1..Len(Tail(left)) : Tail(left)[i] = "Other"
    <3> SUFFICES ASSUME name # "Other", NEW i \in 1..Len(left), left[i] = "Other"
                 PROVE  \E j \in 1..Len(Tail(left)) : Tail(left)[j] = "Other"
      OBVIOUS
    <3>1. i # 1 /\ i - 1 \in 1..Len(Tail(left)) /\ Tail(left)[i - 1] = left[i]
      BY <1>2, <1>4
    <3> QED BY <3>1
  <2> DEFINE tail == Tail(left)
  <2>5. q.pc = "seeding" /\ q.left = tail
    OBVIOUS
  <2> HIDE DEF q, name, c, left, tail
  <2>6. ASSUME NotYet, name # "Other", \A t \in Server \ {s} : seeding'[t] = seeding[t],
               \A d \in CategoryId : category'[d].state = "live" =>
                 category'[d].key # EditKey["Other"] /\ category'[d].name # "Other"
        PROVE  NotYet'
    <3>1. \E i \in 1..Len(tail) : tail[i] = "Other"
      BY <1>2, <2>4, <2>6 DEF NotYet, left, tail
    <3> QED BY <1>2, <2>3, <2>5, <2>6, <3>1 DEF NotYet
  <2>7. CASE Editing!Matches(name) # {}
    <3>1. UNCHANGED category
      BY <1>4, <2>7 DEF Editing!Upsert
    <3>2. EditingTypes' /\ ReadsHold'
      BY <1>2, <2>3, <3>1 DEF EditingInv, EditingTypes, ReadsHold, Editing!Filed
    <3>3. NotYet => name # "Other"
      BY <2>7 DEF NotYet, Editing!Matches, Editing!Live, EditKey
    <3>4. NotYet => NotYet'
      BY <2>3, <2>6, <3>1, <3>3 DEF NotYet
    <3>5. \A f \in CategoryId : Safe(f) => Safe(f)'
      BY <1>2, <3>1 DEF Safe
    <3> QED BY <1>3, <3>2, <3>4, <3>5 DEF EditingInv
  <2>8. CASE Editing!Matches(name) = {}
    <3> DEFINE row == Editing!Named(name, TRUE)
    <3>1. PICK k \in CategoryId : k = c /\ category[k].state = "unmade"
      BY <1>4, <2>8, NextIsUnmade DEF Editing!Upsert, c
    <3>2. category' = [category EXCEPT ![k] = row]
      BY <1>4, <2>8, <3>1 DEF Editing!Upsert, c
    <3>3. row = [state |-> "live", name |-> name, key |-> EditKey[name], slug |-> Slugs(EditNames)[name],
                 isActive |-> TRUE]
      BY <2>1, NamedIsRow
    <3>4. /\ category' \in [CategoryId -> EditedRow]
          /\ \A d \in CategoryId : Safe(d) => Safe(d)'
      BY <1>2, <2>1, <3>1, <3>2, RowAdded
    <3>5. EditingTypes'
      BY <1>2, <2>3, <3>4 DEF EditingInv, EditingTypes
    <3>6. ReadsHold'
      BY <1>1, <1>2, <3>1, <3>2 DEF EditingInv, ReadsHold, Editing!Filed
    <3>7. /\ category'[k].state = "live" /\ category'[k].name = name /\ category'[k].key = EditKey[name]
          /\ category'[k].isActive
          /\ \A d \in CategoryId \ {k} : category'[d] = category[d]
      <4>1. category'[k] = row /\ \A d \in CategoryId \ {k} : category'[d] = category[d]
        <5> HIDE DEF row
        <5> QED BY <1>1, <3>1, <3>2
      <4> HIDE DEF row
      <4> QED BY <3>3, <4>1
    <3>8. CASE NotYet /\ name = "Other"
      <4>1. \A a \in Admin : edit'[a].id # k
        BY <1>2, <3>1, <3>8, NoEditIsEdit, EditKeys DEF NotYet
      <4>2. Safe(k)'
        BY <3>7, <3>8, <4>1 DEF Safe
      <4> QED BY <1>3, <3>1, <3>5, <3>6, <4>2 DEF EditingInv
    <3>9. CASE NotYet /\ name # "Other"
      <4>1. EditKey[name] # EditKey["Other"]
        BY <2>1, <3>9, EditKeys
      <4>2. NotYet'
        BY <2>3, <2>6, <3>7, <3>9, <4>1 DEF NotYet
      <4> QED BY <1>3, <3>5, <3>6, <4>2 DEF EditingInv
    <3> QED BY <1>3, <3>4, <3>5, <3>6, <3>8, <3>9 DEF EditingInv
  <2> QED BY <2>7, <2>8
<1>5. CASE ~(left # <<>> /\ Editing!Upsert(name, category'))
  <2>1. /\ UNCHANGED category
        /\ \/ seeding' = [seeding EXCEPT ![s] = Editing!Down]
           \/ /\ left = <<>>
              /\ seeding' = [seeding EXCEPT ![s] = IF seeding[s].then = "serving" THEN Editing!Serves ELSE Editing!Down]
    BY <1>5 DEF Editing!SeedOne
  <2>2. /\ Editing!Down \in SeedRecord /\ Editing!Serves \in SeedRecord /\ Editing!Down.pc = "down"
    BY DEF Editing!Down, Editing!Serves, SeedRecord
  <2>3. EditingTypes' /\ ReadsHold'
    BY <1>2, <2>1, <2>2 DEF EditingInv, EditingTypes, ReadsHold, Editing!Filed
  <2>4. \A f \in CategoryId : Safe(f) => Safe(f)'
    BY <1>2, <2>1 DEF Safe
  <2>5. NotYet => left # <<>>
    BY <1>2 DEF NotYet
  <2>6. NotYet => NotYet'
    <3> HIDE DEF left
    <3> QED BY <1>1, <1>2, <2>1, <2>2, <2>5 DEF NotYet
  <2> QED BY <1>3, <2>3, <2>4, <2>6 DEF EditingInv
<1>6. left # <<>> /\ Editing!Upsert(name, category') => seeding' = [seeding EXCEPT ![s] = [pc |-> "seeding", left |-> Tail(left), then |-> seeding[s].then]]
  <2> SUFFICES ASSUME left # <<>>, Editing!Upsert(name, category')
               PROVE  seeding' = [seeding EXCEPT ![s] = [pc |-> "seeding", left |-> Tail(left), then |-> seeding[s].then]]
    OBVIOUS
  <2> QED BY DEF Editing!SeedOne, Editing!Upsert
<1> QED BY <1>4, <1>5, <1>6

LEMMA EditingInit == Editing!Init => EditingInv
<1> SUFFICES ASSUME Editing!Init PROVE EditingInv
  OBVIOUS
<1> DEFINE row == [Editing!Named("Other", FALSE) EXCEPT !.state = "unmade"]
<1>1. /\ category = [c \in CategoryId |-> row] /\ indexed = TRUE
      /\ seeding = [s \in Server |-> Editing!Down] /\ edit = [a \in Admin |-> Editing!NoEdit]
      /\ report = [r \in Report |-> None] /\ pick = [w \in Report \cup Staff |-> Editing!NoPick]
  BY DEF Editing!Init
<1>2. row \in EditedRow /\ row.state = "unmade"
  <2>1. Editing!Named("Other", FALSE) \in EditedRow
    BY NamedIsRow, EditKeys
  <2> QED BY <2>1 DEF EditedRow, Editing!Category
<1> HIDE DEF row
<1>3. Editing!Down \in SeedRecord /\ Editing!Down.pc = "down"
  BY DEF Editing!Down, SeedRecord
<1>4. EditingTypes
  BY <1>1, <1>2, <1>3, NoEditIsEdit, NoPickIsPick DEF EditingTypes
<1>5. ReadsHold /\ PicksHold
  BY <1>1, NoEditIsEdit, NoPickIsPick DEF ReadsHold, PicksHold
<1>6. NotYet
  BY <1>1, <1>2, <1>3 DEF NotYet
<1> QED BY <1>4, <1>5, <1>6 DEF EditingInv

LEMMA EditingStep == EditingInv /\ [Editing!Next]_categories => EditingInv'
<1>1. EditingInv /\ UNCHANGED categories => EditingInv'
  <2> SUFFICES ASSUME EditingInv, UNCHANGED <<category, indexed, seeding, edit, report, pick>> PROVE EditingInv'
    BY DEF categories
  <2>1. EditingTypes' /\ PicksHold'
    BY DEF EditingInv, EditingTypes, PicksHold
  <2> QED BY <2>1, OthersStep
<1>2. ASSUME EditingInv, NEW s \in Server PROVE ~Editing!BuildIndexes(s)
  BY <1>2 DEF Editing!BuildIndexes, EditingInv, EditingTypes
<1> QED BY <1>1, <1>2, CreateStep, ReadForUpdateStep, SaveUpdateStep, ReadForDeleteStep, CommitDeleteStep, StartServerStep,
           StopServerStep, SeedOneStep, ReadHintStep, ReadFallbackStep, PickToMoveStep, WritePickStep, DropPickStep
        DEF Editing!Next

LEMMA EditingKept == EditingInv => Editing!FallbackKept
<1> SUFFICES ASSUME EditingInv, Editing!Serving PROVE Editing!Fallback # {}
  BY DEF Editing!FallbackKept
<1>1. PICK f \in CategoryId : Safe(f)
  BY SafeWhileServing
<1> QED BY <1>1 DEF Safe, Editing!Fallback, Editing!Live

\* Only the commit of a delete removes a row, and it looked at the row as it is.
LEMMA EditingSpares == EditingInv /\ [Editing!Next]_categories => Editing!SparedByDelete
<1> SUFFICES ASSUME EditingInv, [Editing!Next]_categories, NEW c \in CategoryId, category[c].state = "live",
                    category'[c].state = "deleted"
             PROVE  /\ ~category[c].isActive
                    /\ \E a \in Admin : edit[a].id = c /\ Editing!Filed(c) \subseteq edit[a].since
  BY DEF Editing!SparedByDelete, Editing!Live
<1>1. category \in [CategoryId -> EditedRow] /\ category' # category
  BY DEF EditingInv, EditingTypes
<1>2. ASSUME NEW n \in EditNames, NEW b \in BOOLEAN, NEW k, category' = [category EXCEPT ![k] = Editing!Named(n, b)]
      PROVE  FALSE
  BY <1>1, <1>2, NamedIsRow
<1>3. ASSUME NEW a \in Admin, Editing!CommitDelete(a)
      PROVE  edit[a].id = c /\ edit[a].op = "delete"
  BY <1>1, <1>3 DEF Editing!CommitDelete
<1>4. ASSUME NEW a \in Admin, Editing!SaveUpdate(a) PROVE FALSE
  <2> DEFINE row == Editing!Saved(a)
  <2>1. /\ edit[a].op = "update"
        /\ category' \in {category, [category EXCEPT ![edit[a].id] = row]}
    BY <1>4 DEF Editing!SaveUpdate
  <2>2. row.state = category[edit[a].id].state
    BY <2>1, SavedIsRow
  <2> HIDE DEF row
  <2> QED BY <1>1, <2>1, <2>2
<1>5. ASSUME NEW s \in Server, Editing!SeedOne(s) PROVE FALSE
  <2>1. /\ seeding[s].left # <<>>
        /\ category' = [category EXCEPT ![Editing!NextCategory] = Editing!Named(Head(seeding[s].left), TRUE)]
    BY <1>1, <1>5 DEF Editing!SeedOne, Editing!Upsert
  <2>2. Head(seeding[s].left) \in EditNames
    <3>1. seeding[s].left \in Seq({"Drains", "Other"})
      BY DEF EditingInv, EditingTypes, SeedRecord
    <3> QED BY <2>1, <3>1, EditKeys
  <2> QED BY <1>2, <2>1, <2>2
<1>6. \E a \in Admin : Editing!CommitDelete(a)
  <2>1. ASSUME NEW n \in EditNames, NEW b \in BOOLEAN, Editing!createCategory(n, b) PROVE FALSE
    BY <1>2, <2>1 DEF Editing!createCategory
  <2>2. Editing!Next
    BY <1>1 DEF categories
  <2> QED BY <1>1, <1>4, <1>5, <2>1, <2>2
          DEF Editing!Next, Editing!ReadForUpdate, Editing!ReadForDelete, Editing!StartServer, Editing!StopServer,
              Editing!BuildIndexes, Editing!ReadFallback, Editing!ReadHint, Editing!PickToMove, Editing!WritePick,
              Editing!DropPick
<1> QED BY <1>3, <1>6 DEF EditingInv, ReadsHold

LEMMA SeedingInit == Seeding!Init => SeedingInv
<1>1. Seeding!Down \in SeedRecord /\ Seeding!Down.pc = "down"
  BY DEF Seeding!Down, SeedRecord
<1> QED BY <1>1 DEF Seeding!Init, SeedingInv

\* While the process serves, nothing is left to seed.
LEMMA ServingStep ==
  ASSUME SeedingInv, Seeding!Serving, UNCHANGED seeding, DOMAIN category' = CategoryId
  PROVE  SeedingInv'
<1> QED BY DEF SeedingInv, Seeding!Serving

\* A start: it is to ensure every default in an empty collection only.
LEMMA StartStep ==
  ASSUME SeedingInv, NEW next \in {"serving", "down"}, UNCHANGED <<category, edit>>, seeding[First].pc = "down",
         seeding' = [seeding EXCEPT ![First] = [pc |-> "seeding", left |-> Seeding!ToSeed, then |-> next]]
  PROVE  SeedingInv'
<1>1. /\ Seeding!ToSeed \in Seq({"Drains", "Other"})
      /\ (\E i \in 1..Len(Seeding!ToSeed) : Seeding!ToSeed[i] # "Other") => Seeding!Live = {}
  <2>1. CASE Seeding!Live = {}
    <3>1. Seeding!ToSeed = <<"Drains", "Other">>
      BY <2>1 DEF Seeding!ToSeed
    <3> QED BY <2>1, <3>1
  <2>2. CASE Seeding!Live # {}
    <3>1. Seeding!ToSeed = <<"Other">>
      BY <2>2 DEF Seeding!ToSeed
    <3> QED BY <3>1
  <2> QED BY <2>1, <2>2
<1> DEFINE r == [pc |-> "seeding", left |-> Seeding!ToSeed, then |-> next]
<1>2. r \in SeedRecord /\ r.left = Seeding!ToSeed
  BY <1>1 DEF SeedRecord
<1>3. seeding' \in [{First} -> SeedRecord] /\ seeding'[First] = r
  <2> HIDE DEF r
  <2> QED BY <1>2 DEF SeedingInv, r
<1> HIDE DEF r
<1>4. edit'[One] = Seeding!NoEdit
  BY DEF SeedingInv, Seeding!Serving
<1>5. (\E i \in 1..Len(seeding'[First].left) : seeding'[First].left[i] # "Other") =>
        \A c \in CategoryId : category'[c].state = "live" => category'[c].name \in {"Drains", "Other"}
  BY <1>1, <1>2, <1>3 DEF Seeding!Live
<1> QED BY <1>3, <1>4, <1>5 DEF SeedingInv

LEMMA SeedingSeeds ==
  ASSUME SeedingInv, Seeding!SeedOne(First)
  PROVE  SeedingInv'
<1> DEFINE left == seeding[First].left
<1>1. /\ seeding[First].pc = "seeding" /\ left \in Seq({"Drains", "Other"}) /\ seeding[First].then \in {"serving", "down"}
      /\ edit[One] = Seeding!NoEdit /\ UNCHANGED edit
  BY DEF Seeding!SeedOne, SeedingInv, SeedRecord, Seeding!Serving
<1>2. CASE /\ left # <<>> /\ Seeding!Upsert(Head(left), category')
           /\ seeding' = [seeding EXCEPT ![First] = [pc |-> "seeding", left |-> Tail(left), then |-> seeding[First].then]]
  <2> DEFINE q == [pc |-> "seeding", left |-> Tail(left), then |-> seeding[First].then]
  <2>1. Head(left) \in {"Drains", "Other"} /\ Tail(left) \in Seq({"Drains", "Other"})
    BY <1>1, <1>2
  <2>2. q \in SeedRecord
    BY <1>1, <2>1 DEF SeedRecord
  <2>3. seeding' \in [{First} -> SeedRecord] /\ seeding'[First] = q
    BY <1>2, <2>2 DEF SeedingInv
  <2>4. DOMAIN category' = CategoryId
    BY <1>2 DEF Seeding!Upsert, SeedingInv
  <2>5. ASSUME NEW i \in 1..Len(Tail(left)), Tail(left)[i] # "Other",
               NEW c \in CategoryId, category'[c].state = "live"
        PROVE  category'[c].name \in {"Drains", "Other"}
    <3>1. i + 1 \in 1..Len(left) /\ left[i + 1] # "Other"
      BY <1>1, <1>2, <2>5
    <3>2. category[c].state = "live" => category[c].name \in {"Drains", "Other"}
      BY <1>1, <3>1 DEF SeedingInv
    <3>3. \/ category'[c] = category[c]
          \/ category'[c] = Seeding!Named(Head(left), TRUE)
      BY <1>2 DEF Seeding!Upsert, SeedingInv
    <3>4. Seeding!Named(Head(left), TRUE).name = Head(left)
      BY DEF Seeding!Named
    <3> QED BY <2>1, <2>5, <3>2, <3>3, <3>4
  <2>6. q.pc = "seeding" /\ q.left = Tail(left)
    OBVIOUS
  <2> HIDE DEF q, left
  <2> QED BY <1>1, <2>3, <2>4, <2>5, <2>6 DEF SeedingInv
<1>3. CASE /\ UNCHANGED category
           /\ \/ seeding' = [seeding EXCEPT ![First] = Seeding!Down]
              \/ seeding' = [seeding EXCEPT ![First] = Seeding!Serves]
  <2>1. /\ Seeding!Down \in SeedRecord /\ Seeding!Down.pc = "down"
        /\ Seeding!Serves \in SeedRecord /\ Seeding!Serves.pc = "serving"
    BY DEF Seeding!Down, Seeding!Serves, SeedRecord
  <2> HIDE DEF left
  <2> QED BY <1>1, <1>3, <2>1 DEF SeedingInv
<1> QED
  <2>1. \/ /\ left # <<>> /\ Seeding!Upsert(Head(left), category')
           /\ seeding' = [seeding EXCEPT ![First] = [pc |-> "seeding", left |-> Tail(left), then |-> seeding[First].then]]
        \/ /\ UNCHANGED category
           /\ \/ seeding' = [seeding EXCEPT ![First] = Seeding!Down]
              \/ seeding' = [seeding EXCEPT ![First] = IF seeding[First].then = "serving" THEN Seeding!Serves
                                                       ELSE Seeding!Down]
    BY DEF Seeding!SeedOne
  <2> HIDE DEF left
  <2> QED BY <1>2, <1>3, <2>1

LEMMA SeedingStep == SeedingInv /\ [Seeding!Next]_categories => SeedingInv'
<1>1. SeedingInv /\ UNCHANGED categories => SeedingInv'
  BY DEF SeedingInv, categories, Seeding!Serving
<1>2. ASSUME SeedingInv, Seeding!Next PROVE SeedingInv'
  <2>1. ASSUME NEW n, NEW b, Seeding!createCategory(n, b) PROVE SeedingInv'
    BY <1>2, <2>1, ServingStep DEF Seeding!createCategory, SeedingInv
  <2>2. ASSUME NEW c, NEW n, NEW b, Seeding!ReadForUpdate(One, c, n, b) PROVE SeedingInv'
    BY <1>2, <2>2, ServingStep DEF Seeding!ReadForUpdate, SeedingInv
  <2>3. ASSUME NEW c, Seeding!ReadForDelete(One, c) PROVE SeedingInv'
    BY <1>2, <2>3, ServingStep DEF Seeding!ReadForDelete, SeedingInv
  <2>4. ASSUME edit[One].op # "idle" PROVE Seeding!Serving
    BY <1>2, <2>4 DEF SeedingInv, Seeding!NoEdit
  <2>5. ASSUME Seeding!SaveUpdate(One) PROVE SeedingInv'
    BY <1>2, <2>4, <2>5, ServingStep DEF Seeding!SaveUpdate, SeedingInv
  <2>6. ASSUME Seeding!CommitDelete(One) PROVE SeedingInv'
    BY <1>2, <2>4, <2>6, ServingStep DEF Seeding!CommitDelete, SeedingInv
  <2>7. ASSUME Seeding!StartServer(First) PROVE SeedingInv'
    <3>1. CASE indexed
      BY <1>2, <2>7, <3>1, StartStep DEF Seeding!StartServer
    <3>2. CASE ~indexed
      <4>1. Seeding!Serves \in SeedRecord /\ Seeding!Serves.pc = "serving"
        BY DEF Seeding!Serves, SeedRecord
      <4> QED BY <1>2, <2>7, <3>2, <4>1 DEF Seeding!StartServer, SeedingInv, Seeding!Serving
    <3> QED BY <3>1, <3>2
  <2>8. ASSUME Seeding!StopServer(First) PROVE SeedingInv'
    <3>1. Seeding!Down \in SeedRecord /\ Seeding!Down.pc = "down"
      BY DEF Seeding!Down, SeedRecord
    <3> QED BY <1>2, <2>8, <3>1 DEF Seeding!StopServer, SeedingInv
  <2>9. ASSUME Seeding!BuildIndexes(First) PROVE SeedingInv'
    BY <1>2, <2>9, StartStep DEF Seeding!BuildIndexes
  <2> QED BY <1>2, <2>1, <2>2, <2>3, <2>5, <2>6, <2>7, <2>8, <2>9, SeedingSeeds DEF Seeding!Next
<1> QED BY <1>1, <1>2

\* A row that seeding adds is one that is left to ensure.
LEMMA SeedingAdds == SeedingInv /\ [Seeding!Next]_categories => Seeding!NoneRevived
<1> SUFFICES ASSUME SeedingInv, [Seeding!Next]_categories, NEW c \in CategoryId, category[c].state = "unmade",
                    seeding' # seeding, category'[c].state = "live", category'[c].name # "Other",
                    NEW d \in CategoryId, category[d].state = "live"
             PROVE  category[d].name \in {"Drains", "Other"}
  BY DEF Seeding!NoneRevived, Seeding!Unmade, Seeding!Live
<1> DEFINE left == seeding[First].left
<1>1. Seeding!Next /\ category' # category
  BY DEF categories
<1>2. Seeding!SeedOne(First)
  BY <1>1 DEF Seeding!Next, Seeding!createCategory, Seeding!ReadForUpdate, Seeding!SaveUpdate, Seeding!ReadForDelete,
              Seeding!CommitDelete, Seeding!StartServer, Seeding!StopServer, Seeding!BuildIndexes
<1>3. /\ seeding[First].pc = "seeding" /\ left \in Seq({"Drains", "Other"}) /\ left # <<>>
      /\ Seeding!Upsert(Head(left), category')
  BY <1>1, <1>2 DEF Seeding!SeedOne, SeedingInv, SeedRecord
<1>4. category'[c] = Seeding!Named(Head(left), TRUE)
  BY <1>1, <1>3 DEF Seeding!Upsert, SeedingInv
<1>5. 1 \in 1..Len(left) /\ left[1] # "Other"
  BY <1>3, <1>4 DEF Seeding!Named
<1> QED BY <1>3, <1>5 DEF SeedingInv

\* Whatever is edited, deleted and filed at once, by any number of administrators in any number of
\* processes, of any number of rows and reports: filing has its fallback, and a delete takes no active
\* category and overlooks no report.  However often one process seeds, it adds no default that was
\* renamed (categoryController.js:59-85, seedCategories.js:34-47).
THEOREM CategoriesAreKept == CategoriesSpec => CategoriesKept
<1>1. CategoriesInit => CategoriesInv
  BY EditingInit, SeedingInit DEF CategoriesInit, CategoriesInv
<1>2. CategoriesInv /\ [CategoriesNext]_<<instance, categories>> => CategoriesInv'
  BY EditingStep, SeedingStep DEF CategoriesNext, CategoriesInv
<1>3. CategoriesInv => FallbackKept
  BY EditingKept DEF CategoriesInv, FallbackKept
<1>4. /\ CategoriesInv /\ [CategoriesNext]_<<instance, categories>> =>
           [instance = "editing" => Editing!SparedByDelete]_categories
  BY EditingSpares DEF CategoriesInv, CategoriesNext
<1>5. /\ CategoriesInv /\ [CategoriesNext]_<<instance, categories>> =>
           [instance = "seeding" => Seeding!NoneRevived]_categories
  BY SeedingAdds DEF CategoriesInv, CategoriesNext
<1> QED BY <1>1, <1>2, <1>3, <1>4, <1>5, PTL DEF CategoriesSpec, CategoriesKept, DeleteSpares, NothingRevived

-------------------------------------------------------------------------------
(* DailySweep, for any number of processes and reports and any length of a day.*)

SweepLease == Sweep!Lease
SweepCheck == [pc: {"idle", "insert", "claim", "find", "ask"}, todo: SUBSET (Failing \X Nat)]
SweptReport == [status: {"PENDING", "FAILED", "CLASSIFIED", "WITHDRAWN"}, requestSeq: Nat, age: Nat]

\* What is left of the day and what is gone since the last claim are a day at least.
SweepInv ==
  /\ lease \in SweepLease /\ age \in 0..Day
  /\ process \in [Request -> SweepCheck]
  /\ classified \in [Failing -> SweptReport]
  /\ lease.wait + age >= Day
  /\ ~lease.made => age = Day

\* The steps of a check, as what they do to the lease and to the process.
LEMMA SweepInit == Sweep!BoundsAssumption /\ Sweep!Init => SweepInv
<1> QED BY DEF Sweep!BoundsAssumption, Sweep!Init, SweepInv, SweepLease, Sweep!Lease, SweepCheck, Sweep!Idle, SweptReport

LEMMA SweepHour ==
  ASSUME Sweep!BoundsAssumption, SweepInv, Sweep!Hour
  PROVE  /\ SweepInv'
         /\ \A r \in Failing : classified'[r].requestSeq = classified[r].requestSeq
         /\ \A p \in Request : process[p].pc # "claim"
<1>1. Day \in Nat \ {0}
  BY DEF Sweep!BoundsAssumption
<1>2. lease' \in SweepLease /\ age' \in 0..Day /\ lease'.wait + age' >= Day /\ (~lease'.made => age' = Day)
  BY <1>1 DEF SweepInv, SweepLease, Sweep!Lease, Sweep!Hour
<1>3. ASSUME NEW r \in Failing
      PROVE  classified'[r] \in SweptReport /\ classified'[r].requestSeq = classified[r].requestSeq
  BY <1>1 DEF SweepInv, SweptReport, Sweep!Hour
<1>4. classified' \in [Failing -> SweptReport]
  BY <1>3 DEF Sweep!Hour
<1>5. process' \in [Request -> SweepCheck]
  BY DEF SweepInv, SweepCheck, Sweep!Hour, Sweep!Idle
<1>6. \A p \in Request : process[p].pc # "claim"
  BY DEF Sweep!Hour
<1> QED BY <1>2, <1>3, <1>4, <1>5, <1>6 DEF SweepInv

LEMMA SweepChecks ==
  ASSUME Sweep!BoundsAssumption, SweepInv, NEW p \in Request,
         \/ Sweep!InsertLease(p) \/ Sweep!Claim(p) \/ Sweep!Find(p) \/ Sweep!SweepEnds(p) \/ Sweep!SweepFails(p)
  PROVE  /\ SweepInv' /\ UNCHANGED classified
         /\ \A q \in Request : process[q].pc = "claim" /\ process'[q].pc = "find" => age = Day
<1>1. Day \in Nat \ {0} /\ process[p] \in SweepCheck
  BY DEF Sweep!BoundsAssumption, SweepInv
<1>2. \E q \in SweepCheck : process' = [process EXCEPT ![p] = q]
  <2>1. ASSUME NEW pc \in {"idle", "claim", "find"}, Sweep!At(p, pc)
        PROVE  \E q \in SweepCheck : process' = [process EXCEPT ![p] = q]
    <3>1. [process[p] EXCEPT !.pc = pc] \in SweepCheck
      BY <1>1 DEF SweepCheck
    <3> QED BY <2>1, <3>1 DEF Sweep!At
  <2>2. CASE Sweep!Find(p)
    <3>1. PICK c \in SUBSET Sweep!Candidates : process' =
            [process EXCEPT ![p] = [pc |-> "ask", todo |-> {<<r, classified[r].requestSeq>> : r \in c}]]
      BY <2>2 DEF Sweep!Find
    <3>2. {<<r, classified[r].requestSeq>> : r \in c} \subseteq Failing \X Nat
      BY DEF SweepInv, SweptReport, Sweep!Candidates
    <3> QED BY <3>1, <3>2 DEF SweepCheck
  <2>3. CASE Sweep!SweepFails(p)
    BY <2>3 DEF Sweep!SweepFails, Sweep!Idle, SweepCheck
  <2> QED BY <2>1, <2>2, <2>3 DEF Sweep!InsertLease, Sweep!Claim, Sweep!SweepEnds
<1>3. process' \in [Request -> SweepCheck] /\ \A q \in Request \ {p} : process'[q] = process[q]
  BY <1>2 DEF SweepInv
<1>4. lease' \in SweepLease /\ age' \in 0..Day /\ lease'.wait + age' >= Day /\ (~lease'.made => age' = Day)
  <2>1. /\ lease \in [made: BOOLEAN, wait: 0..Day] /\ age \in 0..Day /\ lease.wait + age >= Day
        /\ ~lease.made => age = Day
    BY DEF SweepInv, SweepLease, Sweep!Lease
  <2>2. CASE UNCHANGED <<lease, age>>
    BY <2>1, <2>2 DEF SweepLease, Sweep!Lease
  <2>3. CASE lease' = [made |-> TRUE, wait |-> 0] /\ age' = age /\ ~lease.made
    BY <1>1, <2>1, <2>3 DEF SweepLease, Sweep!Lease
  <2>4. CASE lease' = [lease EXCEPT !.wait = Day] /\ age' = 0 /\ lease.made
    <3>1. lease' = [made |-> TRUE, wait |-> Day]
      BY <2>1, <2>4
    <3>2. lease' \in SweepLease /\ lease'.made /\ lease'.wait = Day
      BY <1>1, <3>1 DEF SweepLease, Sweep!Lease
    <3>3. age' \in 0..Day /\ Day + age' >= Day
      BY <1>1, <2>4
    <3> QED BY <3>2, <3>3
  <2> QED BY <2>2, <2>3, <2>4
          DEF Sweep!InsertLease, Sweep!Claim, Sweep!Claimable, Sweep!Find, Sweep!SweepEnds, Sweep!SweepFails
<1>5. UNCHANGED classified
  BY DEF Sweep!InsertLease, Sweep!Claim, Sweep!Find, Sweep!SweepEnds, Sweep!SweepFails
<1>6. process[p].pc = "claim" /\ process'[p].pc = "find" => age = Day
  <2> SUFFICES ASSUME process[p].pc = "claim", process'[p].pc = "find" PROVE age = Day
    OBVIOUS
  <2>1. Sweep!Claim(p)
    BY DEF Sweep!InsertLease, Sweep!Find, Sweep!SweepEnds, Sweep!SweepFails
  <2>2. Sweep!Claimable
    BY <1>1, <2>1 DEF Sweep!Claim, Sweep!At, SweepInv, SweepCheck
  <2> QED BY <1>1, <2>2 DEF Sweep!Claimable, SweepInv, SweepLease, Sweep!Lease
<1> QED BY <1>3, <1>4, <1>5, <1>6 DEF SweepInv

\* The steps that ask for a report, or answer.
LEMMA SweepAsks ==
  ASSUME Sweep!BoundsAssumption, SweepInv,
         \/ \E p \in Request : Sweep!Ask(p)
         \/ \E r \in Failing : Sweep!Answer(r) \/ Sweep!Rerun(r) \/ Sweep!Withdraw(r)
  PROVE  /\ SweepInv' /\ UNCHANGED <<lease, age>>
         /\ \A p \in Request : process'[p].pc = process[p].pc
         /\ \A r \in Failing : classified'[r].requestSeq # classified[r].requestSeq => classified[r].status = "FAILED"
<1>1. UNCHANGED <<lease, age>>
  BY DEF Sweep!Ask, Sweep!Answer, Sweep!Rerun, Sweep!Withdraw
<1>2. process' \in [Request -> SweepCheck] /\ \A p \in Request : process'[p].pc = process[p].pc
  <2>1. CASE UNCHANGED process
    BY <2>1 DEF SweepInv
  <2>2. ASSUME NEW p \in Request, NEW c, process' = [process EXCEPT ![p].todo = @ \ {c}]
        PROVE  /\ process' \in [Request -> SweepCheck]
               /\ \A q \in Request : process'[q].pc = process[q].pc
    BY <2>2 DEF SweepInv, SweepCheck
  <2> QED BY <2>1, <2>2 DEF Sweep!Ask, Sweep!Answer, Sweep!Rerun, Sweep!Withdraw
<1> DEFINE Asked == /\ classified' \in [Failing -> SweptReport]
                    /\ \A r \in Failing :
                         classified'[r].requestSeq # classified[r].requestSeq => classified[r].status = "FAILED"
<1>3. Asked
  <2>1. ASSUME NEW r \in Failing, classified[r].status = "FAILED",
               classified' = [classified EXCEPT ![r].status = "PENDING", ![r].requestSeq = @ + 1]
        PROVE  Asked
    <3>1. classified' \in [Failing -> SweptReport]
      BY <2>1 DEF SweepInv, SweptReport
    <3>2. \A x \in Failing \ {r} : classified'[x] = classified[x]
      BY <2>1 DEF SweepInv
    <3> QED BY <2>1, <3>1, <3>2
  <2>2. ASSUME NEW p \in Request, Sweep!Ask(p) PROVE Asked
    <3>1. PICK c \in process[p].todo :
            classified' = IF Sweep!StillFailed(c[1], c[2]) /\ classified[c[1]].requestSeq < MaxRequests
                          THEN [classified EXCEPT ![c[1]].status = "PENDING", ![c[1]].requestSeq = @ + 1]
                          ELSE classified
      BY <2>2 DEF Sweep!Ask
    <3>2. c[1] \in Failing
      BY DEF SweepInv, SweepCheck
    <3>3. CASE Sweep!StillFailed(c[1], c[2]) /\ classified[c[1]].requestSeq < MaxRequests
      BY <2>1, <3>1, <3>2, <3>3 DEF Sweep!StillFailed
    <3>4. CASE ~(Sweep!StillFailed(c[1], c[2]) /\ classified[c[1]].requestSeq < MaxRequests)
      BY <3>1, <3>4 DEF SweepInv
    <3> QED BY <3>3, <3>4
  <2>3. ASSUME NEW r \in Failing, Sweep!Answer(r) \/ Sweep!Rerun(r) \/ Sweep!Withdraw(r) PROVE Asked
    <3>1. classified[r] \in SweptReport
      BY DEF SweepInv
    <3>2. CASE Sweep!Rerun(r)
      BY <2>1, <3>2 DEF Sweep!Rerun
    <3>3. CASE Sweep!Answer(r) \/ Sweep!Withdraw(r)
      <4>1. classified' \in [Failing -> SweptReport]
        BY <3>1, <3>3 DEF Sweep!Answer, Sweep!Withdraw, SweepInv, SweptReport
      <4>2. \A x \in Failing : classified'[x].requestSeq = classified[x].requestSeq
        BY <3>1, <3>3 DEF Sweep!Answer, Sweep!Withdraw, SweepInv, SweptReport
      <4> QED BY <4>1, <4>2
    <3> QED BY <2>3, <3>2, <3>3
  <2> QED BY <2>2, <2>3
<1> QED BY <1>1, <1>2, <1>3 DEF SweepInv

LEMMA SweepStep ==
  ASSUME Sweep!BoundsAssumption, SweepInv, [Sweep!Next]_sweep
  PROVE  SweepInv' /\ [Sweep!SweepsAfterADay]_sweep /\ [Sweep!AsksForFailed]_sweep
<1>1. CASE UNCHANGED sweep
  BY <1>1 DEF sweep, SweepInv
<1>2. CASE Sweep!Hour
  BY <1>2, SweepHour DEF Sweep!SweepsAfterADay, Sweep!AsksForFailed
<1>3. CASE \E p \in Request : Sweep!InsertLease(p) \/ Sweep!Claim(p) \/ Sweep!Find(p) \/ Sweep!SweepEnds(p) \/ Sweep!SweepFails(p)
  BY <1>3, SweepChecks DEF Sweep!SweepsAfterADay, Sweep!AsksForFailed
<1>4. CASE \/ \E p \in Request : Sweep!Ask(p)
           \/ \E r \in Failing : Sweep!Answer(r) \/ Sweep!Rerun(r) \/ Sweep!Withdraw(r)
  BY <1>4, SweepAsks DEF Sweep!SweepsAfterADay, Sweep!AsksForFailed
<1> QED BY <1>1, <1>2, <1>3, <1>4 DEF Sweep!Next, Sweep!Steps

\* However many processes check, however long a day is and whichever of them die: two sweeps never begin
\* within a day, and no request that is under way is asked again (aiSweep.js:11-37).
THEOREM SweepsAreOnce == Sweep!Spec => SweepsOnce
<1>1. Sweep!BoundsAssumption
  BY SweepAssumption
<1>2. Sweep!Init => SweepInv
  BY <1>1, SweepInit
<1>3. SweepInv /\ [Sweep!Next]_Sweep!vars => SweepInv' /\ [Sweep!SweepsAfterADay]_sweep /\ [Sweep!AsksForFailed]_sweep
  BY <1>1, SweepStep DEF Sweep!vars, sweep
<1> QED BY <1>2, <1>3, PTL DEF Sweep!Spec, SweepsOnce, OnceADay, NoDoubleRequest
===============================================================================
