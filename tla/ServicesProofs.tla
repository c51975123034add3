---------------------------- MODULE ServicesProofs ---------------------------
(* Proofs about the modules that MCServices instantiates.  Lockout: the        *)
(* current password cannot be guessed past the limit, and at sign-in past it   *)
(* by the requests that overlap only.  AiProvider: photos and waits.           *)
EXTENDS MCServices, FiniteSetTheorems, TLAPS

-----------------------------------------------------------------------------
(* Lockout, for every number of requests under way, every limit and window,    *)
(* and every delay of the database.                                            *)

\* The wrong passwords compared since the record was started are counted in it.  Alone
\* GuessesLimited is not inductive: what lets the next guess through is the count.
GuessesCounted ==
  /\ count \in Nat /\ guesses \in Nat
  /\ guesses <= Limit
  /\ count > 0 => guesses <= count

\* One wrong password more is let through at most.
LEMMA LetThroughOne ==
  ASSUME NEW r \in Request, NEW n \in Nat
  PROVE  LetThrough(r, n) \in Nat /\ LetThrough(r, n) <= n + 1
<1>1. Enough \in Nat
  BY LimitAssumption, FS_CardinalityType DEF Enough
<1> HIDE DEF Enough
<1> QED BY <1>1 DEF LetThrough, Least

\* What an attempt makes of the count and of the guesses since the record was started.
LEMMA ConsumeStep ==
  ASSUME GuessesCounted, NEW r \in Request, Consume(r)
  PROVE  /\ count' \in Nat /\ Since(r) \in Nat /\ Since(r) <= Limit /\ Since(r) <= count'
         /\ count' <= Limit => Since(r) + 1 <= count'
<1>1. CASE Expired(request[r].late)
  BY <1>1, LimitAssumption DEF Consume, Since, GuessesCounted
<1>2. CASE ~Expired(request[r].late)
  <2>1. count > 0
    BY <1>2 DEF Expired, GuessesCounted
  <2>2. count' = Least(count + 1, Limit + 1) /\ Since(r) = guesses
    BY <1>2 DEF Consume, Since
  <2> QED BY <2>1, <2>2, LimitAssumption DEF Least, GuessesCounted
<1> QED BY <1>1, <1>2

\* Every step keeps the guesses within the count.
LEMMA GuessesStep == GuessesCounted /\ [Next]_vars => GuessesCounted'
<1> SUFFICES ASSUME GuessesCounted, [Next]_vars PROVE GuessesCounted'
  OBVIOUS
<1>1. ASSUME NEW r \in Request, LoginCount(r) PROVE GuessesCounted'
  <2>1. Consume(r) /\ guesses' = Since(r)
    BY <1>1 DEF LoginCount
  <2> QED BY <2>1, ConsumeStep DEF GuessesCounted
<1>2. ASSUME NEW r \in Request, VerifyCount(r) PROVE GuessesCounted'
  <2>1. Consume(r)
    BY <1>2 DEF VerifyCount
  <2>2. CASE Admits(r)
    <3>1. guesses' = LetThrough(r, Since(r)) /\ count' <= Limit
      BY <1>2, <2>2 DEF VerifyCount, Admits
    <3>2. LetThrough(r, Since(r)) \in Nat /\ LetThrough(r, Since(r)) <= Since(r) + 1
      BY <2>1, ConsumeStep, LetThroughOne
    <3> QED BY <2>1, <3>1, <3>2, ConsumeStep, LimitAssumption DEF GuessesCounted
  <2>3. CASE ~Admits(r)
    <3>1. guesses' = Since(r)
      BY <1>2, <2>3 DEF VerifyCount
    <3> QED BY <2>1, <3>1, ConsumeStep DEF GuessesCounted
  <2> QED BY <2>2, <2>3
<1>3. CASE PasswordReset \/ Forget \/ \E r \in Request : RightAnswer(r)
  BY <1>3, LimitAssumption DEF PasswordReset, Forget, RightAnswer, Clear, GuessesCounted
<1>4. CASE Tick \/ UNCHANGED vars
  BY <1>4 DEF Tick, vars, GuessesCounted
<1>5. ASSUME NEW r \in Request,
             \/ Begin(r) \/ LoginPeek(r) \/ LoginCompare(r) \/ LoginSuspended(r) \/ ReadClock(r)
             \/ VerifyCompare(r)
      PROVE  GuessesCounted'
  BY <1>5 DEF Begin, LoginPeek, LoginCompare, LoginSuspended, ReadClock, VerifyCompare, GuessesCounted
<1> QED BY <1>1, <1>2, <1>3, <1>4, <1>5 DEF Next, Step

\* Between two right answers, at most Limit wrong passwords of one window are compared by the pages
\* that ask for the password again (currentPasswordService.js:4-7).
THEOREM GuessesAreLimited == Spec => []GuessesLimited
<1>1. Init => GuessesCounted
  BY LimitAssumption DEF Init, GuessesCounted
<1>2. GuessesCounted => GuessesLimited
  BY DEF GuessesCounted, GuessesLimited
<1> QED BY <1>1, <1>2, GuessesStep, PTL DEF Spec

-----------------------------------------------------------------------------
(* Sign-in.                                                                    *)

\* The count and the time left, and what the requests carry.
LockoutTyped ==
  /\ count \in Nat /\ left \in Int /\ left >= -Window /\ tries \in Nat
  /\ request \in [Request -> [pc: {"idle", "peek", "clock", "count", "compare", "clear"},
                              kind: {"login", "verify"}, right: BOOLEAN, late: Nat]]
  /\ \A r \in Request : request[r].late <= MaxLate
  /\ \A r \in Request : request[r].pc = "peek" => request[r].kind = "login"

\* The request was let through to its comparison with a wrong password, and has still to be counted.
\* One that read its clock in a window that has closed is counted there, and was let through before.
Owed(r) ==
  /\ request[r].kind = "login" /\ ~request[r].right
  /\ \/ request[r].pc \in {"compare", "clock"}
     \/ request[r].pc = "count" /\ (left > 0 \/ Expired(request[r].late))

Uncounted == {r \in Request : Owed(r)}

\* Up to the limit, each wrong password let through is counted or will be.
TriesCounted ==
  /\ tries <= Limit + Cardinality(Request) - 1
  /\ Peeked <= Limit => tries <= Peeked + Cardinality(Uncounted)

TriesInv == LockoutTyped /\ TriesCounted

\* Who has still to be counted is among the requests.
LEMMA UncountedSize ==
  /\ Cardinality(Request) \in Nat /\ IsFiniteSet(Uncounted)
  /\ Cardinality(Uncounted) \in Nat /\ Cardinality(Uncounted) <= Cardinality(Request)
<1>1. Uncounted \in SUBSET Request
  BY DEF Uncounted
<1> QED BY <1>1, LimitAssumption, FS_Subset, FS_CardinalityType

\* While nobody else is let through, those who have still to be counted may become more.
LEMMA StillCounted ==
  ASSUME TriesInv, Uncounted \subseteq Uncounted', IsFiniteSet(Uncounted'), Peeked' = Peeked, tries' = tries
  PROVE  TriesCounted'
<1>1. /\ Cardinality(Uncounted) \in Nat /\ Cardinality(Uncounted') \in Nat
      /\ Cardinality(Uncounted) <= Cardinality(Uncounted')
  BY UncountedSize, FS_Subset, FS_CardinalityType
<1>2. Peeked \in Nat /\ Cardinality(Request) \in Nat
  BY UncountedSize DEF Peeked, TriesInv, LockoutTyped
<1> QED BY <1>1, <1>2, LimitAssumption DEF TriesInv, LockoutTyped, TriesCounted

\* A request that is counted makes up for itself.
LEMMA CountedOnce ==
  ASSUME TriesInv, NEW r \in Request, Uncounted \ {r} \subseteq Uncounted', IsFiniteSet(Uncounted'),
         Peeked' \in Nat, Peeked' <= Limit => Peeked' = Peeked + 1, tries' = tries
  PROVE  TriesCounted'
<1>1. /\ Cardinality(Uncounted) \in Nat /\ Cardinality(Uncounted') \in Nat
      /\ Cardinality(Uncounted) <= Cardinality(Uncounted') + 1
  <2>1. /\ IsFiniteSet(Uncounted \ {r})
        /\ Cardinality(Uncounted \ {r})
             = IF r \in Uncounted THEN Cardinality(Uncounted) - 1 ELSE Cardinality(Uncounted)
    BY UncountedSize, FS_RemoveElement
  <2>2. Cardinality(Uncounted \ {r}) \in Nat /\ Cardinality(Uncounted') \in Nat
        /\ Cardinality(Uncounted \ {r}) <= Cardinality(Uncounted')
    BY <2>1, FS_Subset, FS_CardinalityType
  <2> QED BY <2>1, <2>2, UncountedSize
<1>2. Peeked \in Nat /\ Cardinality(Request) \in Nat
  BY UncountedSize DEF Peeked, TriesInv, LockoutTyped
<1> QED BY <1>1, <1>2, LimitAssumption DEF TriesInv, LockoutTyped, TriesCounted

\* An attempt is counted, in the window that is open or in one that it opens.
LEMMA CountStep ==
  ASSUME TriesInv, NEW r \in Request, request[r].pc = "count", Consume(r), tries' = tries,
         \A q \in Request \ {r} : request'[q] = request[q], IsFiniteSet(Uncounted')
  PROVE  TriesCounted' /\ count' \in Nat /\ left' \in Int /\ left' >= -Window
<1> DEFINE late == request[r].late
<1>0. /\ late \in Nat /\ late <= MaxLate /\ count \in Nat /\ left \in Int /\ left >= -Window
      /\ Window \in Nat /\ MaxLate \in Nat /\ MaxLate < Window /\ Limit \in Nat
  BY LimitAssumption, TimeAssumption DEF TriesInv, LockoutTyped
<1>1. CASE Expired(late)
  <2>1. count' = 1 /\ left' = Window - late /\ left' > 0
    BY <1>0, <1>1 DEF Consume
  <2>2. Peeked = 0 /\ Peeked' = 1
    BY <1>0, <1>1, <2>1 DEF Peeked, Expired
  <2>3. Uncounted \ {r} \subseteq Uncounted'
    BY <2>1 DEF Uncounted, Owed
  <2> QED BY <1>0, <2>1, <2>2, <2>3, CountedOnce
<1>2. CASE ~Expired(late)
  <2>1. count > 0 /\ left > -late /\ count' = Least(count + 1, Limit + 1) /\ left' = left
    BY <1>0, <1>2 DEF Consume, Expired
  <2>2. count' \in Nat /\ count' > 0 /\ (count' <= Limit => count' = count + 1)
    BY <1>0, <2>1 DEF Least
  <2>3. ASSUME NEW q \in Request \ {r}, Owed(q) PROVE Owed(q)'
    BY <2>1, <2>2, <2>3 DEF Owed, Expired
  <2>4. Uncounted \ {r} \subseteq Uncounted'
    BY <2>3 DEF Uncounted
  <2>5. CASE left > 0
    <3>1. Peeked = count /\ Peeked' = count'
      BY <1>0, <2>1, <2>5 DEF Peeked
    <3> QED BY <1>0, <2>1, <2>2, <2>4, <3>1, CountedOnce
  <2>6. CASE left <= 0
    <3>1. Peeked = 0 /\ Peeked' = 0
      BY <1>0, <2>1, <2>6 DEF Peeked
    <3>2. r \notin Uncounted
      BY <1>0, <1>2, <2>6 DEF Uncounted, Owed
    <3> QED BY <1>0, <2>1, <2>2, <2>4, <3>1, <3>2, StillCounted
  <2> QED BY <1>0, <2>5, <2>6
<1> QED BY <1>1, <1>2

\* A wrong password is let through below the limit only, and its request is not yet among the others.
LEMMA PeekStep ==
  ASSUME TriesInv, NEW r \in Request, LoginPeek(r), IsFiniteSet(Uncounted')
  PROVE  TriesCounted'
<1>1. /\ request \in [Request -> [pc: {"idle", "peek", "clock", "count", "compare", "clear"},
                                  kind: {"login", "verify"}, right: BOOLEAN, late: Nat]]
      /\ request[r].pc = "peek" /\ request[r].kind = "login" /\ request[r].right \in BOOLEAN
      /\ Peeked \in Nat /\ Peeked' = Peeked /\ Limit \in Nat /\ tries \in Nat
  BY LimitAssumption DEF LoginPeek, Peeked, TriesInv, LockoutTyped
<1>2. r \notin Uncounted
  BY <1>1 DEF Uncounted, Owed
<1>3. Uncounted \subseteq Uncounted'
  BY <1>1 DEF LoginPeek, Goto, Ends, Uncounted, Owed, Expired
<1>4. CASE tries' = tries
  BY <1>1, <1>3, <1>4, StillCounted
<1>5. CASE tries' # tries
  <2>1. Peeked < Limit /\ tries' = LetThrough(r, tries) /\ ~request[r].right
    BY <1>1, <1>5 DEF LoginPeek, LetThrough
  <2>2. tries' \in Nat /\ tries' <= tries + 1
    BY <1>1, <2>1, LetThroughOne
  <2>3. Uncounted \cup {r} \subseteq Uncounted'
    BY <1>1, <1>3, <2>1 DEF LoginPeek, Goto, Uncounted, Owed
  <2>4. Cardinality(Uncounted \cup {r}) = Cardinality(Uncounted) + 1 /\ IsFiniteSet(Uncounted \cup {r})
    BY <1>2, UncountedSize, FS_AddElement
  <2>5. /\ Cardinality(Uncounted \cup {r}) <= Cardinality(Uncounted') /\ Cardinality(Uncounted') \in Nat
        /\ Cardinality(Uncounted \cup {r}) <= Cardinality(Request)
    <3>1. Uncounted \cup {r} \subseteq Request
      BY DEF Uncounted
    <3> QED BY <2>3, <3>1, FS_Subset, FS_CardinalityType, LimitAssumption
  <2>6. tries <= Peeked + Cardinality(Uncounted)
    BY <1>1, <2>1 DEF TriesInv, TriesCounted
  <2> QED BY <1>1, <2>1, <2>2, <2>4, <2>5, <2>6, UncountedSize DEF TriesCounted
<1> QED BY <1>4, <1>5

\* Time keeps everyone who is owed a count, in the window or past it.
LEMMA TickStep ==
  ASSUME TriesInv, Tick, IsFiniteSet(Uncounted')
  PROVE  LockoutTyped' /\ TriesCounted'
<1>1. /\ request \in [Request -> [pc: {"idle", "peek", "clock", "count", "compare", "clear"},
                                  kind: {"login", "verify"}, right: BOOLEAN, late: Nat]]
      /\ \A r \in Request : request[r].late < MaxLate
      /\ count \in Nat /\ left \in Int /\ left >= -Window /\ Limit \in Nat \ {0}
      /\ Window \in Nat /\ MaxLate \in Nat /\ MaxLate < Window /\ tries \in Nat
  BY LimitAssumption, TimeAssumption DEF Tick, TriesInv, LockoutTyped
<1>2. left' = (IF left > -Window THEN left - 1 ELSE left) /\ count' = count
  BY DEF Tick
<1>3. ASSUME NEW r \in Request
      PROVE  /\ request'[r] \in [pc: {"idle", "peek", "clock", "count", "compare", "clear"},
                                 kind: {"login", "verify"}, right: BOOLEAN, late: Nat]
             /\ request'[r].late <= MaxLate
             /\ request'[r].pc = request[r].pc /\ request'[r].kind = request[r].kind
             /\ request'[r].right = request[r].right
             /\ request[r].pc = "count" => request'[r].late = request[r].late + 1
  BY <1>1 DEF Tick
<1>4. LockoutTyped'
  <2>1. request' \in [Request -> [pc: {"idle", "peek", "clock", "count", "compare", "clear"},
                                  kind: {"login", "verify"}, right: BOOLEAN, late: Nat]]
    BY <1>3 DEF Tick
  <2>2. \A r \in Request : request'[r].late <= MaxLate /\ (request'[r].pc = "peek" => request'[r].kind = "login")
    BY <1>3 DEF TriesInv, LockoutTyped
  <2>3. left' \in Int /\ left' >= -Window /\ count' \in Nat /\ tries' \in Nat
    BY <1>1, <1>2 DEF Tick
  <2> QED BY <2>1, <2>2, <2>3 DEF LockoutTyped
<1>5. CASE left = 1
  <2>1. tries' = 0 /\ Peeked' = 0
    BY <1>1, <1>2, <1>5 DEF Tick, Peeked
  <2> QED BY <1>1, <1>4, <2>1, UncountedSize, FS_CardinalityType DEF TriesCounted
<1>6. CASE left # 1
  <2>1. tries' = tries /\ Peeked' = Peeked
    BY <1>1, <1>2, <1>6 DEF Tick, Peeked
  <2>2. ASSUME NEW r \in Request, Owed(r) PROVE Owed(r)'
    <3>1. CASE request[r].pc # "count"
      BY <1>3, <2>2, <3>1 DEF Owed
    <3>2. CASE request[r].pc = "count"
      <4>1. left > 0 \/ count = 0 \/ left <= -request[r].late
        BY <2>2, <3>2 DEF Owed, Expired
      <4>2. left' > 0 \/ count' = 0 \/ left' <= -(request[r].late + 1)
        BY <1>1, <1>2, <1>6, <4>1
      <4> QED BY <1>3, <2>2, <3>2, <4>2 DEF Owed, Expired
    <3> QED BY <3>1, <3>2
  <2>3. Uncounted \subseteq Uncounted'
    BY <2>2 DEF Uncounted
  <2> QED BY <1>4, <2>1, <2>3, StillCounted
<1> QED BY <1>5, <1>6

\* The steps that let nobody through and count nothing keep everyone who is owed a count.
LEMMA QuietStep ==
  ASSUME TriesInv, NEW r \in Request, IsFiniteSet(Uncounted'),
         Begin(r) \/ LoginCompare(r) \/ LoginSuspended(r) \/ ReadClock(r) \/ VerifyCompare(r)
  PROVE  TriesCounted'
<1>1. request \in [Request -> [pc: {"idle", "peek", "clock", "count", "compare", "clear"},
                               kind: {"login", "verify"}, right: BOOLEAN, late: Nat]]
  BY DEF TriesInv, LockoutTyped
<1>2. Peeked' = Peeked /\ tries' = tries /\ left' = left /\ count' = count
  BY DEF Begin, LoginCompare, LoginSuspended, ReadClock, VerifyCompare, Peeked
<1>3. ASSUME NEW q \in Request, q # r PROVE request'[q] = request[q]
  BY <1>1, <1>3 DEF Begin, LoginCompare, LoginSuspended, ReadClock, VerifyCompare, Goto, Ends
<1>4. ASSUME NEW q \in Request, q # r, Owed(q) PROVE Owed(q)'
  BY <1>2, <1>3, <1>4 DEF Owed, Expired
<1>5. Owed(r) => Owed(r)'
  <2>1. CASE Begin(r)
    <3>1. request[r].pc = "idle"
      BY <2>1 DEF Begin, Idle
    <3> QED BY <3>1 DEF Owed
  <2>2. CASE LoginCompare(r)
    BY <1>1, <2>2 DEF LoginCompare, At, Goto, Owed
  <2>3. CASE LoginSuspended(r) \/ VerifyCompare(r)
    BY <2>3 DEF LoginSuspended, VerifyCompare, At, Owed
  <2>4. CASE ReadClock(r)
    <3>1. /\ request'[r].pc = "count" /\ request'[r].late = 0
          /\ request'[r].kind = request[r].kind /\ request'[r].right = request[r].right
      BY <1>1, <2>4 DEF ReadClock
    <3>2. left' > 0 \/ left' <= -0
      BY <1>2 DEF TriesInv, LockoutTyped
    <3> QED BY <3>1, <3>2 DEF Owed, Expired
  <2> QED BY <2>1, <2>2, <2>3, <2>4
<1>6. Uncounted \subseteq Uncounted'
  BY <1>4, <1>5 DEF Uncounted
<1> QED BY <1>2, <1>6, StillCounted

\* Every step leaves the requests as LockoutTyped says.
LEMMA RequestsTyped ==
  ASSUME TriesInv, NEW r \in Request, Step(r)
  PROVE  /\ request' \in [Request -> [pc: {"idle", "peek", "clock", "count", "compare", "clear"},
                                      kind: {"login", "verify"}, right: BOOLEAN, late: Nat]]
         /\ \A q \in Request : request'[q].late <= MaxLate
                               /\ (request'[q].pc = "peek" => request'[q].kind = "login")
         /\ \A q \in Request \ {r} : request'[q] = request[q]
<1> DEFINE Shape == [pc: {"idle", "peek", "clock", "count", "compare", "clear"},
                     kind: {"login", "verify"}, right: BOOLEAN, late: Nat]
<1>1. /\ request \in [Request -> Shape] /\ MaxLate \in Nat
      /\ \A q \in Request : request[q].late <= MaxLate
      /\ \A q \in Request : request[q].pc = "peek" => request[q].kind = "login"
  BY TimeAssumption DEF TriesInv, LockoutTyped
<1>2. ASSUME NEW new \in Shape, new.late <= MaxLate, new.pc = "peek" => new.kind = "login",
             request' = [request EXCEPT ![r] = new]
      PROVE  /\ request' \in [Request -> Shape]
             /\ \A q \in Request : request'[q].late <= MaxLate
                                   /\ (request'[q].pc = "peek" => request'[q].kind = "login")
             /\ \A q \in Request \ {r} : request'[q] = request[q]
  BY <1>1, <1>2
<1>3. PICK new \in Shape : /\ new.late <= MaxLate /\ (new.pc = "peek" => new.kind = "login")
                           /\ request' = [request EXCEPT ![r] = new]
  <2>1. Idle \in Shape /\ Idle.late <= MaxLate /\ Idle.pc # "peek"
    BY <1>1 DEF Idle
  <2>2. CASE Ends(r)
    BY <2>1, <2>2 DEF Ends
  <2>3. ASSUME NEW pc \in {"clock", "count", "compare", "clear"}, Goto(r, pc)
        PROVE  \E new \in Shape : /\ new.late <= MaxLate /\ (new.pc = "peek" => new.kind = "login")
                                  /\ request' = [request EXCEPT ![r] = new]
    <3>1. [request[r] EXCEPT !.pc = pc] \in Shape
      BY <1>1
    <3>2. request' = [request EXCEPT ![r] = [request[r] EXCEPT !.pc = pc]]
      BY <1>1, <2>3 DEF Goto
    <3> WITNESS [request[r] EXCEPT !.pc = pc] \in Shape
    <3> QED BY <1>1, <3>2
  <2>4. ASSUME NEW pc \in {"count", "compare"}, request' = [request EXCEPT ![r].pc = pc, ![r].late = 0]
        PROVE  \E new \in Shape : /\ new.late <= MaxLate /\ (new.pc = "peek" => new.kind = "login")
                                  /\ request' = [request EXCEPT ![r] = new]
    <3>1. [request[r] EXCEPT !.pc = pc, !.late = 0] \in Shape
      BY <1>1
    <3>2. request' = [request EXCEPT ![r] = [request[r] EXCEPT !.pc = pc, !.late = 0]]
      BY <1>1, <2>4
    <3> WITNESS [request[r] EXCEPT !.pc = pc, !.late = 0] \in Shape
    <3> QED BY <1>1, <3>2
  <2>5. CASE Begin(r)
    <3>1. PICK kind \in {"login", "verify"}, right \in BOOLEAN :
            request' = [request EXCEPT ![r] =
              [pc |-> IF kind = "login" THEN "peek" ELSE "clock", kind |-> kind, right |-> right, late |-> 0]]
      BY <2>5 DEF Begin
    <3> DEFINE begun == [pc |-> IF kind = "login" THEN "peek" ELSE "clock", kind |-> kind,
                         right |-> right, late |-> 0]
    <3>2. begun \in Shape /\ begun.late <= MaxLate /\ (begun.pc = "peek" => begun.kind = "login")
      BY <1>1
    <3> QED BY <3>1, <3>2
  <2>6. CASE LoginPeek(r)
    BY <2>2, <2>3, <2>6 DEF LoginPeek
  <2>7. CASE LoginCompare(r)
    BY <2>3, <2>7 DEF LoginCompare
  <2>8. CASE LoginSuspended(r) \/ LoginCount(r) \/ RightAnswer(r)
    BY <2>2, <2>8 DEF LoginSuspended, LoginCount, RightAnswer
  <2>9. CASE ReadClock(r)
    BY <2>4, <2>9 DEF ReadClock
  <2>10. CASE VerifyCount(r)
    BY <2>2, <2>4, <2>10 DEF VerifyCount
  <2>11. CASE VerifyCompare(r)
    BY <2>2, <2>3, <2>11 DEF VerifyCompare
  <2> QED BY <2>5, <2>6, <2>7, <2>8, <2>9, <2>10, <2>11 DEF Step
<1> QED BY <1>2, <1>3

\* Every step keeps each wrong password let through below the limit counted or owed.
LEMMA TriesStep == TriesInv /\ [Next]_vars => TriesInv'
<1> SUFFICES ASSUME TriesInv, [Next]_vars PROVE TriesInv'
  OBVIOUS
<1>0. IsFiniteSet(Uncounted')
  <2>1. Uncounted' \in SUBSET Request
    BY DEF Uncounted
  <2> QED BY <2>1, FS_Subset, LimitAssumption
<1>1. /\ count \in Nat /\ left \in Int /\ left >= -Window /\ tries \in Nat
      /\ Limit \in Nat \ {0} /\ Window \in Nat /\ MaxLate \in Nat /\ MaxLate < Window
  BY LimitAssumption, TimeAssumption DEF TriesInv, LockoutTyped
<1>2. ASSUME tries' = 0, count' = 0, left' = 0 PROVE TriesCounted'
  BY <1>0, <1>1, <1>2, UncountedSize, FS_CardinalityType DEF TriesCounted, Peeked
<1>3. ASSUME NEW r \in Request, Step(r) PROVE TriesInv'
  <2>1. /\ TriesCounted' /\ count' \in Nat /\ left' \in Int /\ left' >= -Window /\ tries' \in Nat
    <3>1. CASE Begin(r) \/ LoginCompare(r) \/ LoginSuspended(r) \/ ReadClock(r) \/ VerifyCompare(r)
      <4>1. count' = count /\ left' = left /\ tries' = tries
        BY <3>1 DEF Begin, LoginCompare, LoginSuspended, ReadClock, VerifyCompare
      <4> QED BY <1>0, <1>1, <3>1, <4>1, QuietStep
    <3>2. CASE LoginPeek(r)
      <4>1. count' = count /\ left' = left /\ tries' \in Nat
        BY <1>1, <3>2, LetThroughOne DEF LoginPeek
      <4> QED BY <1>0, <1>1, <3>2, <4>1, PeekStep
    <3>3. CASE LoginCount(r) \/ VerifyCount(r)
      <4>1. request[r].pc = "count" /\ Consume(r) /\ tries' = tries
        BY <3>3 DEF LoginCount, VerifyCount, At
      <4>2. \A q \in Request \ {r} : request'[q] = request[q]
        BY <1>3, RequestsTyped
      <4> QED BY <1>0, <1>1, <4>1, <4>2, CountStep
    <3>4. CASE RightAnswer(r)
      <4>1. tries' = 0 /\ count' = 0 /\ left' = 0
        BY <3>4 DEF RightAnswer, Clear
      <4> QED BY <1>1, <1>2, <4>1
    <3> QED BY <1>3, <3>1, <3>2, <3>3, <3>4 DEF Step
  <2>2. LockoutTyped'
    BY <1>3, <2>1, RequestsTyped DEF LockoutTyped
  <2> QED BY <2>1, <2>2 DEF TriesInv
<1>4. CASE PasswordReset
  <2>1. tries' = 0 /\ count' = 0 /\ left' = 0 /\ request' = request
    BY <1>4 DEF PasswordReset, Clear
  <2> QED BY <1>1, <1>2, <2>1 DEF TriesInv, LockoutTyped
<1>5. CASE Tick
  BY <1>0, <1>5, TickStep DEF TriesInv
<1>6. CASE Forget
  <2>1. /\ left <= 0 /\ count' = 0 /\ left' = 0 /\ tries' = tries /\ request' = request
        /\ Peeked = 0 /\ Peeked' = 0
    BY <1>6 DEF Forget, Peeked
  <2>2. Uncounted \subseteq Uncounted'
    BY <2>1 DEF Uncounted, Owed, Expired
  <2>3. TriesCounted'
    BY <1>0, <2>1, <2>2, StillCounted
  <2> QED BY <1>1, <2>1, <2>3 DEF TriesInv, LockoutTyped
<1>7. CASE UNCHANGED vars
  <2>1. LockoutTyped'
    BY <1>7 DEF vars, TriesInv, LockoutTyped
  <2>2. Uncounted' = Uncounted /\ Peeked' = Peeked /\ tries' = tries
    BY <1>7 DEF vars, Uncounted, Owed, Expired, Peeked
  <2> QED BY <1>0, <2>1, <2>2, StillCounted DEF TriesInv
<1> QED BY <1>3, <1>4, <1>5, <1>6, <1>7 DEF Next

\* Sign-in compares at most as many wrong passwords past its limit as there are other requests under
\* way with the one that reaches it (authController.js:80, where the count is read before the
\* comparison, and :95, where it is raised after it).
THEOREM TriesAreBounded == Spec => []TriesBounded
<1>1. Init => TriesInv
  <2> SUFFICES ASSUME Init PROVE TriesInv
    OBVIOUS
  <2>1. LockoutTyped
    BY TimeAssumption DEF Init, Idle, LockoutTyped
  <2>2. Peeked = 0 /\ tries = 0
    BY DEF Init, Peeked
  <2> QED BY <2>1, <2>2, UncountedSize, LimitAssumption DEF TriesInv, TriesCounted
<1>2. TriesInv => TriesBounded
  BY DEF TriesInv, TriesCounted, TriesBounded
<1> QED BY <1>1, <1>2, TriesStep, PTL DEF Spec

-----------------------------------------------------------------------------
(* AiProvider, for every number of jobs and slots, every policy and every size *)
(* of photos and their pieces.                                                 *)

JobOrNone == AiJob \cup {Provider!Idle.of}
SlotRecord ==
  [pc: {"idle", "photo", "ask", "failed", "paused", "answered"}, of: JobOrNone,
   code: Provider!Code \cup {Provider!None}, wait: Nat, bytes: 0..MaxBytes]

\* Jobs are records; how long they wait and how often they were tried does not matter here.
JobForm(e) ==
  job[e] = [state |-> job[e].state, attempts |-> job[e].attempts, last |-> job[e].last, wait |-> job[e].wait]

ProviderTyped ==
  /\ slot \in [Request -> SlotRecord]
  /\ job = [e \in AiJob |-> job[e]] /\ \A e \in AiJob : JobForm(e)
  /\ quota \in [AiJob -> Nat]

Working(s) == slot[s].pc # "idle"

\* The job of a delivery runs, and no other slot has it.
RunsItsJob(s) == Working(s) =>
  /\ slot[s].of \in AiJob /\ job[slot[s].of].state = "RUNNING"
  /\ \A t \in Request : Working(t) /\ slot[t].of = slot[s].of => t = s

\* A delivery begins after the hour of a spent balance, and carries the wait of the one it met.
CarriesWait(s) ==
  /\ slot[s].pc \in {"photo", "ask", "answered"} => quota[slot[s].of] = 0
  /\ slot[s].pc \in {"failed", "paused"} => quota[slot[s].of] <= slot[s].wait

\* A job that will be tried again waits for what is left of that hour.
WaitsOutQuota(e) == job[e].state = "PENDING" /\ quota[e] > 0 => job[e].wait \in Nat /\ quota[e] <= job[e].wait

ProviderInv ==
  /\ ProviderTyped
  /\ \A s \in Request : RunsItsJob(s) /\ CarriesWait(s)
  /\ \A e \in AiJob : WaitsOutQuota(e)

LEMMA IdleIsSlot ==
  /\ Provider!Idle \in SlotRecord /\ Provider!Idle.pc = "idle"
  /\ MaxBytes \in Nat /\ AiHour \in Nat /\ Chunk \subseteq Nat
<1>1. MaxBytes \in Nat /\ AiHour \in Nat /\ Chunk \subseteq Nat
  BY ProviderAssumption DEF Provider!BoundsAssumption
<1>2. Provider!Idle.of \in JobOrNone
  BY DEF JobOrNone
<1> QED BY <1>1, <1>2 DEF Provider!Idle, SlotRecord

\* A slot may ask without the photo it had begun to read.
LEMMA PhotoLeft ==
  ASSUME NEW x \in SlotRecord
  PROVE  [x EXCEPT !.pc = "ask", !.bytes = 0] \in SlotRecord
<1>1. 0 \in 0..MaxBytes
  BY IdleIsSlot
<1> QED BY <1>1 DEF SlotRecord

\* A slot goes on with its job.
LEMMA SlotGoesOn ==
  ASSUME ProviderInv, NEW s \in Request, NEW x \in SlotRecord, UNCHANGED <<job, quota>>,
         slot' = [slot EXCEPT ![s] = x], Working(s), x.pc # "idle", x.of = slot[s].of,
         x.pc \in {"photo", "ask", "answered"} => quota[x.of] = 0,
         x.pc \in {"failed", "paused"} => quota[x.of] <= x.wait
  PROVE  ProviderInv'
<1>1. ProviderTyped' /\ slot \in [Request -> SlotRecord]
  BY DEF ProviderInv, ProviderTyped, JobForm
<1>2. \A t \in Request : /\ Working(t)' <=> Working(t)
                         /\ slot'[t].of = slot[t].of
                         /\ t # s => slot'[t] = slot[t]
  BY <1>1 DEF Working
<1>3. \A t \in Request : RunsItsJob(t)'
  BY <1>2 DEF ProviderInv, RunsItsJob
<1>4. \A t \in Request : CarriesWait(t)'
  BY <1>1, <1>2 DEF ProviderInv, CarriesWait
<1> QED BY <1>1, <1>3, <1>4 DEF ProviderInv, WaitsOutQuota

\* A slot ends its job, which does not run any more.
LEMMA SlotEnds ==
  ASSUME ProviderInv, NEW s \in Request, Working(s), slot' = [slot EXCEPT ![s] = Provider!Idle], UNCHANGED quota,
         NEW x, x = [state |-> x.state, attempts |-> x.attempts, last |-> x.last, wait |-> x.wait],
         job' = [job EXCEPT ![slot[s].of] = x],
         x.state = "PENDING" /\ quota[slot[s].of] > 0 => x.wait \in Nat /\ quota[slot[s].of] <= x.wait
  PROVE  ProviderInv'
<1> DEFINE e == slot[s].of
<1>1. slot \in [Request -> SlotRecord] /\ job = [d \in AiJob |-> job[d]] /\ e \in AiJob
  BY DEF ProviderInv, ProviderTyped, RunsItsJob
<1>2. /\ slot' \in [Request -> SlotRecord] /\ ~Working(s)'
      /\ \A t \in Request \ {s} : slot'[t] = slot[t]
  <2> QED BY <1>1, IdleIsSlot DEF Working
<1>3. job'[e] = x /\ job' = [d \in AiJob |-> job'[d]] /\ \A d \in AiJob \ {e} : job'[d] = job[d]
  BY <1>1
<1>4. ProviderTyped'
  BY <1>2, <1>3 DEF ProviderInv, ProviderTyped, JobForm
<1>5. ASSUME NEW t \in Request, Working(t)' PROVE RunsItsJob(t)' /\ CarriesWait(t)'
  <2>1. t # s /\ Working(t) /\ slot'[t] = slot[t]
    BY <1>2, <1>5 DEF Working
  <2>2. slot[t].of # e
    BY <2>1 DEF ProviderInv, RunsItsJob
  <2>3. \A q \in Request : Working(q)' => Working(q) /\ slot'[q] = slot[q]
    BY <1>2 DEF Working
  <2> QED BY <1>3, <2>1, <2>2, <2>3 DEF ProviderInv, RunsItsJob, CarriesWait
<1>6. ASSUME NEW t \in Request, ~Working(t)' PROVE RunsItsJob(t)' /\ CarriesWait(t)'
  BY <1>6 DEF RunsItsJob, CarriesWait, Working
<1>7. ASSUME NEW d \in AiJob PROVE WaitsOutQuota(d)'
  BY <1>3 DEF ProviderInv, WaitsOutQuota
<1> QED BY <1>4, <1>5, <1>6, <1>7 DEF ProviderInv

\* What the provider may ask for.
LEMMA AnswersAsk ==
  ASSUME NEW a \in Provider!Answer, a # Provider!Good
  PROVE  /\ Provider!CodeOf(a) \in Provider!Code /\ Provider!WaitOf(a) \in Nat
         /\ Provider!CodeOf(a) = "RATE_LIMITED" /\ a.body = "quota" => AiHour <= Provider!WaitOf(a)
<1>1. AiHour \in Nat /\ MaxAfter \in Nat /\ a.after \in Nat
  <2>1. a.after \in 0..MaxAfter \/ a.after = 0
    BY DEF Provider!Answer, Provider!Refusal, Provider!Completion, Provider!Missing
  <2> QED BY <2>1, ProviderAssumption DEF Provider!BoundsAssumption
<1>2. Provider!CodeOf(a) \in Provider!Code
  BY DEF Provider!CodeOf, Provider!Code
<1> QED BY <1>1, <1>2 DEF Provider!WaitOf, Provider!Larger

\* An idle slot takes a job that waits no more.
LEMMA DeliverStep ==
  ASSUME ProviderInv, NEW s \in Request, NEW e \in AiJob, Provider!Deliver(s, e)
  PROVE  ProviderInv' /\ quota[e] = 0
<1>1. /\ slot \in [Request -> SlotRecord] /\ job = [d \in AiJob |-> job[d]] /\ quota \in [AiJob -> Nat]
      /\ \A d \in AiJob : JobForm(d)
  BY DEF ProviderInv, ProviderTyped
<1>2. quota[e] = 0
  BY <1>1 DEF Provider!Deliver, ProviderInv, WaitsOutQuota
<1>3. ~Working(s) /\ job[e].state = "PENDING" /\ quota' = quota
  BY DEF Provider!Deliver, Working
<1> DEFINE x == [Provider!Idle EXCEPT !.pc = "photo", !.of = e]
<1>4. x \in SlotRecord /\ x.pc = "photo" /\ x.of = e
  <2>1. e \in JobOrNone
    BY DEF JobOrNone
  <2> QED BY <2>1, IdleIsSlot DEF SlotRecord
<1>5. slot' = [slot EXCEPT ![s] = x]
  BY DEF Provider!Deliver
<1> HIDE DEF x
<1>6. /\ slot' \in [Request -> SlotRecord] /\ slot'[s] = x
      /\ \A t \in Request \ {s} : slot'[t] = slot[t]
  BY <1>1, <1>4, <1>5
<1>7. job' = [job EXCEPT ![e] = [job[e] EXCEPT !.state = "RUNNING"]]
  BY DEF Provider!Deliver
<1>8. /\ job' = [d \in AiJob |-> job'[d]] /\ \A d \in AiJob : JobForm(d)'
      /\ job'[e].state = "RUNNING" /\ \A d \in AiJob \ {e} : job'[d] = job[d]
  BY <1>1, <1>7 DEF JobForm
<1>9. ProviderTyped'
  BY <1>1, <1>3, <1>6, <1>8 DEF ProviderTyped
<1>10. ASSUME NEW t \in Request \ {s}, Working(t) PROVE slot[t].of # e
  BY <1>3, <1>10 DEF ProviderInv, RunsItsJob
<1>11. \A t \in Request : RunsItsJob(t)'
  BY <1>3, <1>4, <1>6, <1>8, <1>10 DEF ProviderInv, RunsItsJob, Working
<1>12. \A t \in Request : CarriesWait(t)'
  BY <1>2, <1>3, <1>4, <1>6 DEF ProviderInv, CarriesWait
<1>13. \A d \in AiJob : WaitsOutQuota(d)'
  BY <1>3, <1>8 DEF ProviderInv, WaitsOutQuota
<1> QED BY <1>2, <1>9, <1>11, <1>12, <1>13 DEF ProviderInv

\* The provider answers something else than a classification.
LEMMA RefusedStep ==
  ASSUME ProviderInv, NEW s \in Request, NEW a \in Provider!Answer, a # Provider!Good, Provider!Ask(s, a)
  PROVE  ProviderInv'
<1> DEFINE e == slot[s].of
           x == [slot[s] EXCEPT !.pc = "failed", !.code = Provider!CodeOf(a), !.wait = Provider!WaitOf(a)]
           left0 == IF Provider!CodeOf(a) = "RATE_LIMITED" /\ a.body = "quota" THEN AiHour ELSE quota[e]
<1>1. /\ slot \in [Request -> SlotRecord] /\ job = [d \in AiJob |-> job[d]] /\ quota \in [AiJob -> Nat]
      /\ \A d \in AiJob : JobForm(d)
  BY DEF ProviderInv, ProviderTyped
<1>2. slot[s].pc = "ask" /\ Working(s) /\ job' = job /\ e \in AiJob /\ job[e].state = "RUNNING" /\ quota[e] = 0
  BY DEF Provider!Ask, ProviderInv, Working, RunsItsJob, CarriesWait
<1>3. slot' = [slot EXCEPT ![s] = x] /\ quota' = [quota EXCEPT ![e] = left0]
  BY <1>1 DEF Provider!Ask, Provider!Fails
<1>4. x \in SlotRecord /\ x.pc = "failed" /\ x.of = e /\ x.wait = Provider!WaitOf(a)
  BY <1>1, AnswersAsk DEF SlotRecord
<1>5. left0 \in Nat /\ left0 <= x.wait
  BY <1>2, <1>4, AnswersAsk, ProviderAssumption DEF Provider!BoundsAssumption
<1> HIDE DEF x, left0
<1>6. /\ slot' \in [Request -> SlotRecord] /\ slot'[s] = x /\ quota' \in [AiJob -> Nat] /\ quota'[e] = left0
      /\ \A t \in Request \ {s} : slot'[t] = slot[t]
      /\ \A d \in AiJob \ {e} : quota'[d] = quota[d]
  BY <1>1, <1>2, <1>3, <1>4, <1>5
<1>7. ProviderTyped'
  BY <1>1, <1>2, <1>6 DEF ProviderTyped, JobForm
<1>8. \A t \in Request : /\ Working(t)' <=> Working(t)
                         /\ slot'[t].of = slot[t].of
  BY <1>2, <1>4, <1>6 DEF Working
<1>9. \A t \in Request : RunsItsJob(t)'
  BY <1>2, <1>8 DEF ProviderInv, RunsItsJob
<1>10. ASSUME NEW t \in Request PROVE CarriesWait(t)'
  <2>1. CASE t = s
    BY <1>4, <1>5, <1>6, <2>1 DEF CarriesWait
  <2>2. CASE t # s
    <3>1. slot'[t] = slot[t] /\ (Working(t) => slot[t].of \in AiJob /\ slot[t].of # e)
      BY <1>2, <1>6, <2>2 DEF ProviderInv, RunsItsJob
    <3> QED BY <1>6, <3>1 DEF ProviderInv, CarriesWait, Working
  <2> QED BY <2>1, <2>2
<1>11. \A d \in AiJob : WaitsOutQuota(d)'
  BY <1>2, <1>6 DEF ProviderInv, WaitsOutQuota
<1> QED BY <1>7, <1>9, <1>10, <1>11 DEF ProviderInv

\* Time passes for jobs and hours alike.
LEMMA UnitPasses ==
  ASSUME ProviderInv, Provider!Tick
  PROVE  ProviderInv'
<1>1. /\ slot \in [Request -> SlotRecord] /\ job = [d \in AiJob |-> job[d]] /\ quota \in [AiJob -> Nat]
      /\ \A d \in AiJob : JobForm(d)
  BY DEF ProviderInv, ProviderTyped
<1>2. /\ slot' = slot /\ job' = [d \in AiJob |-> [job[d] EXCEPT !.wait = Provider!Less(@)]]
      /\ quota' = [d \in AiJob |-> Provider!Less(quota[d])]
  BY DEF Provider!Tick
<1>3. ASSUME NEW d \in AiJob
      PROVE  /\ JobForm(d)' /\ job'[d].state = job[d].state /\ job'[d].wait = Provider!Less(job[d].wait)
             /\ quota'[d] = Provider!Less(quota[d]) /\ quota'[d] \in Nat /\ quota'[d] <= quota[d]
  <2>1. job'[d] = [job[d] EXCEPT !.wait = Provider!Less(@)]
    BY <1>2
  <2>2. JobForm(d)' /\ job'[d].state = job[d].state /\ job'[d].wait = Provider!Less(job[d].wait)
    BY <1>1, <2>1 DEF JobForm
  <2>3. quota'[d] = Provider!Less(quota[d]) /\ quota[d] \in Nat
    BY <1>1, <1>2
  <2> QED BY <2>2, <2>3 DEF Provider!Less
<1>4. ProviderTyped'
  <2>1. job' = [d \in AiJob |-> job'[d]]
    BY <1>2
  <2>2. quota' \in [AiJob -> Nat]
    BY <1>2, <1>3
  <2> QED BY <1>1, <1>2, <1>3, <2>1, <2>2 DEF ProviderTyped
<1>5. \A s \in Request : RunsItsJob(s)'
  BY <1>2, <1>3 DEF ProviderInv, RunsItsJob, Working
<1>6. ASSUME NEW s \in Request PROVE CarriesWait(s)'
  <2>1. slot[s].pc # "idle" => slot[s].of \in AiJob /\ quota[slot[s].of] \in Nat
    BY <1>1 DEF ProviderInv, RunsItsJob, Working
  <2>2. slot[s].wait \in Nat
    BY <1>1 DEF SlotRecord
  <2>3. slot'[s] = slot[s] /\ CarriesWait(s)
    BY <1>2 DEF ProviderInv
  <2>4. CASE slot[s].pc # "idle"
    <3>1. /\ quota'[slot[s].of] = Provider!Less(quota[slot[s].of]) /\ quota'[slot[s].of] \in Nat
          /\ quota'[slot[s].of] <= quota[slot[s].of]
      BY <1>3, <2>1, <2>4
    <3> QED BY <2>1, <2>2, <2>3, <2>4, <3>1 DEF CarriesWait, Provider!Less
  <2> QED BY <2>3, <2>4 DEF CarriesWait
<1>7. ASSUME NEW d \in AiJob PROVE WaitsOutQuota(d)'
  <2>1. quota[d] \in Nat /\ WaitsOutQuota(d)
    BY <1>1 DEF ProviderInv
  <2> QED BY <1>3, <2>1 DEF WaitsOutQuota, Provider!Less
<1> QED BY <1>4, <1>5, <1>6, <1>7 DEF ProviderInv

LEMMA ProviderStep == ProviderInv /\ [Provider!Next]_provider => ProviderInv'
<1> SUFFICES ASSUME ProviderInv, [Provider!Next]_provider PROVE ProviderInv'
  OBVIOUS
<1>1. slot \in [Request -> SlotRecord] /\ quota \in [AiJob -> Nat] /\ \A d \in AiJob : JobForm(d)
  BY DEF ProviderInv, ProviderTyped
<1>2. CASE UNCHANGED provider
  BY <1>2 DEF provider, ProviderInv, ProviderTyped, JobForm, RunsItsJob, CarriesWait, WaitsOutQuota, Working
<1>3. ASSUME NEW s \in Request, Provider!PhotoDone(s) PROVE ProviderInv'
  <2>1. [slot[s] EXCEPT !.pc = "ask", !.bytes = 0] \in SlotRecord
    BY <1>1, PhotoLeft
  <2>2. slot' = [slot EXCEPT ![s] = [slot[s] EXCEPT !.pc = "ask", !.bytes = 0]]
    BY <1>1, <1>3 DEF Provider!PhotoDone
  <2> QED BY <1>1, <1>3, <2>1, <2>2, SlotGoesOn DEF Provider!PhotoDone, Working, ProviderInv, CarriesWait, SlotRecord
<1>4. ASSUME NEW s \in Request, NEW n \in Chunk, Provider!PhotoChunk(s, n) PROVE ProviderInv'
  <2> DEFINE x == IF Provider!Fits(slot[s].bytes, n) THEN [slot[s] EXCEPT !.bytes = @ + n]
                  ELSE [slot[s] EXCEPT !.pc = "ask", !.bytes = 0]
  <2>1. n \in Nat /\ MaxBytes \in Nat
    BY IdleIsSlot
  <2>2. x \in SlotRecord /\ x.pc \in {"photo", "ask"} /\ x.of = slot[s].of
    <3>1. slot[s] \in SlotRecord /\ slot[s].bytes \in 0..MaxBytes /\ slot[s].pc = "photo"
      BY <1>1, <1>4 DEF SlotRecord, Provider!PhotoChunk
    <3>2. CASE Provider!Fits(slot[s].bytes, n)
      <4>1. x = [slot[s] EXCEPT !.bytes = @ + n]
        BY <3>2
      <4>2. slot[s].bytes + n \in 0..MaxBytes
        BY <2>1, <3>1, <3>2 DEF Provider!Fits
      <4> HIDE DEF x
      <4> QED BY <3>1, <4>1, <4>2 DEF SlotRecord
    <3>3. CASE ~Provider!Fits(slot[s].bytes, n)
      BY <3>1, <3>3, PhotoLeft DEF SlotRecord
    <3> QED BY <3>2, <3>3
  <2>3. slot' = [slot EXCEPT ![s] = x]
    BY <1>1, <1>4 DEF Provider!PhotoChunk
  <2>4. Working(s) /\ quota[slot[s].of] = 0 /\ UNCHANGED <<job, quota>>
    BY <1>4 DEF Provider!PhotoChunk, Working, ProviderInv, CarriesWait
  <2> HIDE DEF x
  <2> QED BY <2>2, <2>3, <2>4, SlotGoesOn
<1>5. ASSUME NEW s \in Request, Provider!PhotoDown(s) PROVE ProviderInv'
  <2> DEFINE x == [slot[s] EXCEPT !.pc = "failed", !.code = "PROVIDER_DOWN", !.wait = 0]
  <2>1. x \in SlotRecord /\ x.pc = "failed" /\ x.of = slot[s].of /\ x.wait = 0
    BY <1>1 DEF SlotRecord, Provider!Code
  <2>2. slot' = [slot EXCEPT ![s] = x]
    BY <1>1, <1>5 DEF Provider!PhotoDown, Provider!Fails
  <2>3. Working(s) /\ quota[slot[s].of] = 0 /\ UNCHANGED <<job, quota>>
    BY <1>5 DEF Provider!PhotoDown, Working, ProviderInv, CarriesWait
  <2> HIDE DEF x
  <2>4. quota[x.of] <= x.wait
    BY <2>1, <2>3
  <2> QED BY <2>1, <2>2, <2>3, <2>4, SlotGoesOn
<1>6. ASSUME NEW s \in Request, NEW a \in Provider!Answer, Provider!Ask(s, a) PROVE ProviderInv'
  <2>1. CASE a = Provider!Good
    <3> DEFINE x == [slot[s] EXCEPT !.pc = "answered"]
    <3>1. x \in SlotRecord /\ x.pc = "answered" /\ x.of = slot[s].of
      BY <1>1 DEF SlotRecord
    <3>2. slot' = [slot EXCEPT ![s] = x]
      BY <1>1, <1>6, <2>1 DEF Provider!Ask
    <3>3. Working(s) /\ quota[slot[s].of] = 0 /\ UNCHANGED <<job, quota>>
      BY <1>6, <2>1 DEF Provider!Ask, Working, ProviderInv, CarriesWait
    <3> HIDE DEF x
    <3> QED BY <3>1, <3>2, <3>3, SlotGoesOn
  <2> QED BY <1>6, <2>1, RefusedStep
<1>7. ASSUME NEW s \in Request, NEW works, Provider!Pause(s, works) PROVE ProviderInv'
  <2> DEFINE x == [slot[s] EXCEPT !.pc = "paused"]
  <2>1. x \in SlotRecord /\ x.pc = "paused" /\ x.of = slot[s].of /\ x.wait = slot[s].wait
    BY <1>1 DEF SlotRecord
  <2>2. slot' = [slot EXCEPT ![s] = x]
    BY <1>1, <1>7 DEF Provider!Pause
  <2>3. Working(s) /\ quota[slot[s].of] <= slot[s].wait /\ UNCHANGED <<job, quota>>
    BY <1>7 DEF Provider!Pause, Working, ProviderInv, CarriesWait
  <2> HIDE DEF x
  <2> QED BY <2>1, <2>2, <2>3, SlotGoesOn
<1>8. ASSUME NEW s \in Request, Provider!Record(s) PROVE ProviderInv'
  <2> DEFINE e == slot[s].of
             again == ~Provider!Final(s)
             x == [state |-> IF again THEN "PENDING" ELSE "FAILED", attempts |-> Provider!Counted(s),
                   last |-> slot[s].code, wait |-> IF again THEN Provider!WaitMs(s) ELSE 0]
  <2>1. slot[s].pc \in {"failed", "paused"} /\ Working(s) /\ quota[e] <= slot[s].wait /\ quota' = quota
        /\ slot' = [slot EXCEPT ![s] = Provider!Idle] /\ job' = [job EXCEPT ![e] = x]
    BY <1>8 DEF Provider!Record, Working, ProviderInv, CarriesWait
  <2>2. e \in AiJob /\ quota[e] \in Nat /\ slot[s].wait \in Nat
    BY <1>1, <2>1 DEF ProviderInv, RunsItsJob, SlotRecord
  <2>3. again /\ quota[e] > 0 => Provider!WaitMs(s) = slot[s].wait
    BY <2>1, <2>2 DEF Provider!WaitMs
  <2>4. x.state = "PENDING" /\ quota[e] > 0 => x.wait \in Nat /\ quota[e] <= x.wait
    BY <2>1, <2>2, <2>3
  <2>5. x = [state |-> x.state, attempts |-> x.attempts, last |-> x.last, wait |-> x.wait]
    OBVIOUS
  <2> HIDE DEF x
  <2> QED BY <2>1, <2>4, <2>5, SlotEnds
<1>9. ASSUME NEW s \in Request, Provider!Done(s) PROVE ProviderInv'
  <2> DEFINE e == slot[s].of
             x == [job[e] EXCEPT !.state = "DONE"]
  <2>1. Working(s) /\ quota' = quota /\ slot' = [slot EXCEPT ![s] = Provider!Idle]
    BY <1>9 DEF Provider!Done, Working
  <2>2. e \in AiJob /\ job = [d \in AiJob |-> job[d]]
    BY <2>1 DEF ProviderInv, RunsItsJob, ProviderTyped
  <2>3. job' = [job EXCEPT ![e] = x]
    BY <1>9, <2>2 DEF Provider!Done
  <2>4. x.state = "DONE" /\ x = [state |-> x.state, attempts |-> x.attempts, last |-> x.last, wait |-> x.wait]
    BY <1>1, <2>2 DEF JobForm
  <2> HIDE DEF x
  <2> QED BY <2>1, <2>3, <2>4, SlotEnds
<1> QED BY <1>2, <1>3, <1>4, <1>5, <1>6, <1>7, <1>8, <1>9, DeliverStep, UnitPasses DEF Provider!Next, Provider!Step

LEMMA ProviderKept == Provider!Spec => []ProviderInv
<1>1. Provider!Init => ProviderInv
  <2> SUFFICES ASSUME Provider!Init PROVE ProviderInv
    OBVIOUS
  <2>1. ProviderTyped
    BY IdleIsSlot DEF Provider!Init, ProviderTyped, JobForm
  <2>2. \A s \in Request : ~Working(s)
    BY IdleIsSlot DEF Provider!Init, Working
  <2>3. \A e \in AiJob : WaitsOutQuota(e)
    BY DEF Provider!Init, WaitsOutQuota
  <2> QED BY <2>1, <2>2, <2>3 DEF ProviderInv, RunsItsJob, CarriesWait, Working
<1> QED BY <1>1, ProviderStep, PTL DEF Provider!Spec, Provider!vars, provider

\* However long other jobs make the queue wait, and whatever header comes with the refusal, a job that met
\* a spent balance is not run again within the hour (kimi.js, failureFor).
THEOREM QuotaIsWaitedFor == Provider!Spec => QuotaWaits
<1>1. ProviderInv /\ [Provider!Next]_provider => [Provider!RunsAfterQuota]_provider
  <2> SUFFICES ASSUME ProviderInv, Provider!Next, NEW e \in AiJob, job[e].state = "PENDING", job'[e].state = "RUNNING"
               PROVE  quota[e] = 0
    BY DEF Provider!RunsAfterQuota
  <2>1. job = [d \in AiJob |-> job[d]] /\ quota[e] \in Nat /\ JobForm(e)
    BY DEF ProviderInv, ProviderTyped
  <2>2. CASE Provider!Tick
    <3>1. job'[e].state = job[e].state
      BY <2>1, <2>2 DEF Provider!Tick, JobForm
    <3> QED BY <3>1
  <2>3. ASSUME NEW s \in Request, NEW d \in AiJob, Provider!Deliver(s, d) PROVE quota[e] = 0
    <3>1. d = e /\ job[e].wait = 0
      BY <2>1, <2>3 DEF Provider!Deliver
    <3> QED BY <2>1, <3>1 DEF ProviderInv, WaitsOutQuota
  <2>4. ASSUME NEW s \in Request, Provider!Record(s) PROVE FALSE
    <3>1. job' = [job EXCEPT ![slot[s].of] = job'[slot[s].of]] /\ job'[slot[s].of].state \in {"PENDING", "FAILED"}
      <4>1. slot[s].of \in AiJob
        BY <2>4 DEF Provider!Record, ProviderInv, RunsItsJob, Working
      <4> QED BY <2>1, <2>4, <4>1 DEF Provider!Record
    <3> QED BY <2>1, <3>1
  <2>5. ASSUME NEW s \in Request, Provider!Done(s) PROVE FALSE
    BY <2>1, <2>5 DEF Provider!Done
  <2> QED
    BY <2>2, <2>3, <2>4, <2>5 DEF Provider!Next, Provider!Step, Provider!PhotoDone, Provider!PhotoDown,
       Provider!PhotoChunk, Provider!Ask, Provider!Fails, Provider!Pause
<1> QED BY <1>1, ProviderKept, PTL DEF Provider!Spec, Provider!vars, provider, QuotaWaits

-----------------------------------------------------------------------------
(* The limits of the three modules.                                            *)

\* The instance of EmailChange, with its theorems.
EmailFacts == INSTANCE EmailChangeProofs WITH None <- NoAddress, Delivery <- Request, job <- emailJob

\* Each of the three modules as it runs by itself.
LimitsSpec == Spec /\ Provider!Spec /\ EmailFacts!Spec

\* Requests that overlap, photos of unknown length and jobs that are tried again stay within their limits:
\* of attempts at a password, of bytes, of mails (authController.js:80, reportPhoto.js, emailJobs.js:26).
THEOREM LimitsAreKept == LimitsSpec => []LimitsHold
<1>1. ProviderInv => PhotoFits
  BY ProviderAssumption DEF ProviderInv, ProviderTyped, SlotRecord, PhotoFits, Provider!PhotoFits, Provider!BoundsAssumption
<1>2. NoticeOncePerRun <=> EmailFacts!NoticeOncePerRun
  BY DEF NoticeOncePerRun, Email!NoticeOncePerRun, EmailFacts!NoticeOncePerRun, Email!Job, EmailFacts!Job,
     Email!Cardinality, EmailFacts!Cardinality
<1>3. LimitsHold <=> TriesBounded /\ PhotoFits /\ NoticeOncePerRun
  BY DEF LimitsHold
<1> QED BY <1>1, <1>2, <1>3, TriesAreBounded, ProviderKept, EmailFacts!NoticesAreOnce, EmailAssumption, PTL DEF LimitsSpec
=============================================================================
