---------------------------- MODULE AccountsProofs ----------------------------
(***************************************************************************)
(* The properties of Accounts for every set of requests, addresses and     *)
(* passwords, and for every bound on the clock and on crashes.             *)
(*                                                                         *)
(* The argument: an account is opened by one step of a request on its way  *)
(* (Progress), so it is there before its 201 is, and behind a 500 if the   *)
(* COMMIT or the refresh failed; the constraint lets one account per       *)
(* address in, and accounts stay, so a login that arrives after the answer *)
(* meets exactly that account (KnownIsThere); what an answer is about, and *)
(* what a token names, was settled when the answer was given               *)
(* (AnswerIsAbout, TokenWasIssued).                                        *)
(***************************************************************************)
EXTENDS Accounts, FiniteSetTheorems, TLAPS

Opens(r) == kind[r] \in {"register", "seed"} /\ password[r] \notin TooLong

\* How far a request is: no answer and no fault before "done", an account from
\* the insert on and for a request that was answered only with a 201, or where
\* COMMIT or refresh failed.  The seed script's password is short.
Progress ==
    \A r \in Request :
        /\ pc[r] # "done" => status[r] = 0 /\ subject[r] = None
        /\ kind[r] = "seed" => password[r] \notin TooLong
        /\ pc[r] = "unsent" => earlier[r] = {} /\ token[r] = None
        /\ pc[r] \in {"insert", "answer"} => Opens(r)
        /\ pc[r] = "answer" => r \in accounts
        /\ r \in accounts => Opens(r) /\ pc[r] \in {"answer", "done", "dead"}
        /\ fault[r] # "none" => pc[r] = "done"
        /\ r \in accounts /\ pc[r] = "done" =>
              \/ status[r] = 201
              \/ status[r] = 500 /\ fault[r] \in {"insert", "answer"}

\* Requests r arrived after have been answered.
KnownIsThere ==
    \A r \in Request : \A q \in earlier[r] : pc[q] = "done"

\* What an answer is about: an account with the address, and, for an answer
\* with a token, with the password that was given.
AnswerIsAbout ==
    \A r \in Request :
        /\ status[r] = 201 => subject[r] = r
        /\ subject[r] # None => subject[r] \in accounts
        /\ subject[r] # None /\ kind[r] \in {"register", "login"} =>
              SameName(r, subject[r]) /\ password[r] = password[subject[r]]

\* A request that carries a token carries one that an answer gave out.
TokenWasIssued ==
    \A r \in Request : token[r] # None =>
        /\ kind[token[r]] \in {"register", "login"}
        /\ pc[token[r]] = "done"
        /\ subject[token[r]] # None

IInv ==
    /\ TypeOK
    /\ Progress
    /\ KnownIsThere
    /\ AnswerIsAbout
    /\ TokenWasIssued
    /\ OneAccountPerEmail
    /\ AnswerTellsOutcome
    /\ OwnersGetIn
    /\ SessionIsOwn

\* The initial states satisfy the inductive invariant.
LEMMA InitIInv == Init => IInv
<1> SUFFICES ASSUME Init PROVE IInv
  OBVIOUS
<1>1. TypeOK
  BY BoundAssumption DEF Init, TypeOK, PC, Code, Fault
<1>2. Progress /\ KnownIsThere /\ AnswerIsAbout /\ TokenWasIssued
  BY DEF Init, Progress, KnownIsThere, AnswerIsAbout, TokenWasIssued
<1>3. OneAccountPerEmail /\ AnswerTellsOutcome /\ OwnersGetIn /\ SessionIsOwn
  BY DEF Init, OneAccountPerEmail, AnswerTellsOutcome, OwnersGetIn, SessionIsOwn
<1> QED
  BY <1>1, <1>2, <1>3 DEF IInv

\* Two stored addresses are equal when they differ in case at most.
LEMMA EmailIsName ==
    ASSUME TypeOK, NEW q \in Request, NEW r \in Request
    PROVE  (Email(q) = Email(r)) = SameName(q, r)
<1>1. address[q] \in [name : Name, upper : BOOLEAN]
        /\ address[r] \in [name : Name, upper : BOOLEAN]
  BY DEF TypeOK, Address
<1>2. Email(q).name = address[q].name /\ Email(r).name = address[r].name
  BY <1>1 DEF Email, Lower
<1>3. Email(q).upper = FALSE /\ Email(r).upper = FALSE
  BY <1>1 DEF Email, Lower
<1>4. Email(q) \in [name : Name, upper : BOOLEAN]
        /\ Email(r) \in [name : Name, upper : BOOLEAN]
  BY <1>1 DEF Email, Lower
<1> QED
  BY <1>2, <1>3, <1>4 DEF SameName

\* What the lookup by address finds, and what the constraint sees.
LEMMA Lookups ==
    ASSUME TypeOK, NEW r \in Request
    PROVE  /\ Having(address[r]) = {q \in accounts : SameName(q, r)}
           /\ Taken(r) = \E q \in accounts : SameName(q, r)
<1>1. \A q \in accounts : (Email(q) = Lower(address[r])) = SameName(q, r)
  BY EmailIsName DEF TypeOK, Email
<1> QED
  BY <1>1, EmailIsName DEF Having, Taken, Email, TypeOK

\* Every step keeps the types.
LEMMA TypeStep == TypeOK /\ [Next]_vars => TypeOK'
<1> SUFFICES ASSUME TypeOK, [Next]_vars PROVE TypeOK'
  OBVIOUS
<1> USE DEF TypeOK, PC, Code, Fault, Answer, GoTo, inputVars, answerVars
<1>0. now \in Nat /\ crashes \in Nat
  BY BoundAssumption
<1>1. ASSUME NEW r \in Request, Arrive(r) PROVE TypeOK'
  BY <1>1 DEF Arrive
<1>2. ASSUME NEW r \in Request, Register(r) PROVE TypeOK'
  BY <1>0, <1>2 DEF Register
<1>3. ASSUME NEW r \in Request, Seed(r) PROVE TypeOK'
  BY <1>0, <1>3 DEF Seed, Having
<1>4. ASSUME NEW r \in Request, Insert(r) PROVE TypeOK'
  BY <1>0, <1>4 DEF Insert, Break
<1>5. ASSUME NEW r \in Request, Issue(r) PROVE TypeOK'
  BY <1>0, <1>5 DEF Issue
<1>6. ASSUME NEW r \in Request, Login(r) PROVE TypeOK'
  <2>1. \E code \in {200, 401, 500} : \E q \in Request \cup {None} : Answer(r, code, q)
    BY <1>6 DEF Login, Having
  <2> QED
    BY <1>0, <1>6, <2>1 DEF Login
<1>7. ASSUME NEW r \in Request, Whoami(r) PROVE TypeOK'
  BY <1>0, <1>7 DEF Whoami
<1>8. ASSUME NEW r \in Request, Crash(r) PROVE TypeOK'
  BY <1>0, <1>8, BoundAssumption DEF Crash
<1>8a. ASSUME NEW r \in Request, Fail(r) PROVE TypeOK'
  BY <1>0, <1>8a DEF Fail, Break
<1>9. ASSUME Tick PROVE TypeOK'
  BY <1>0, <1>9, BoundAssumption DEF Tick
<1>10. CASE UNCHANGED vars
  BY <1>10 DEF vars
<1> QED
  BY <1>1, <1>2, <1>3, <1>4, <1>5, <1>6, <1>7, <1>8, <1>8a, <1>9, <1>10 DEF Next

\* Type correctness of the accounts, for every value of the constants.
THEOREM TypeCorrect == Spec => []TypeOK
<1>1. Init => TypeOK
  BY InitIInv DEF IInv
<1> QED
  BY <1>1, TypeStep, PTL DEF Spec

-----------------------------------------------------------------------------
(* One lemma per action: the inductive invariant survives the step. *)

\* A request that arrives notes what has been answered, and no account moves.
LEMMA ArriveKeeps == ASSUME IInv, TypeOK', NEW r \in Request, Arrive(r) PROVE IInv'
<1> USE NoneAssumption DEF IInv, TypeOK, PC, Progress, Opens, GoTo, Answer, inputVars, answerVars, Arrive
<1>1. Progress' /\ KnownIsThere'
  BY DEF KnownIsThere
<1>2. AnswerIsAbout'
  BY DEF AnswerIsAbout, SameName
<1>3. TokenWasIssued'
  BY DEF TokenWasIssued
<1>4. OneAccountPerEmail'
  BY DEF OneAccountPerEmail, SameName
<1>5. AnswerTellsOutcome'
  BY DEF AnswerTellsOutcome, SameName
<1>6. OwnersGetIn'
  BY DEF OwnersGetIn, SameName, KnownIsThere
<1>7. SessionIsOwn'
  BY DEF SessionIsOwn, SameName, TokenWasIssued, AnswerIsAbout
<1> QED
  BY <1>1, <1>2, <1>3, <1>4, <1>5, <1>6, <1>7

\* A refusal of register names an account that is there, or the password.
LEMMA RegisterKeeps == ASSUME IInv, TypeOK', NEW r \in Request, Register(r) PROVE IInv'
<1> USE NoneAssumption DEF IInv, TypeOK, PC, Progress, Opens, GoTo, Answer, inputVars, answerVars, Register
<1>0. Having(address[r]) = {q \in accounts : SameName(q, r)}
  BY Lookups
<1>1. Progress' /\ KnownIsThere'
  BY DEF KnownIsThere
<1>2. AnswerIsAbout'
  BY DEF AnswerIsAbout, SameName
<1>3. TokenWasIssued'
  BY DEF TokenWasIssued
<1>4. OneAccountPerEmail'
  BY DEF OneAccountPerEmail, SameName
<1>5. AnswerTellsOutcome'
  BY <1>0 DEF AnswerTellsOutcome, SameName
<1>6. OwnersGetIn'
  BY DEF OwnersGetIn, SameName, KnownIsThere
<1>7. SessionIsOwn'
  BY DEF SessionIsOwn, SameName, TokenWasIssued, AnswerIsAbout
<1> QED
  BY <1>1, <1>2, <1>3, <1>4, <1>5, <1>6, <1>7

\* The seed script settles for the account it finds.
LEMMA SeedKeeps == ASSUME IInv, TypeOK', NEW r \in Request, Seed(r) PROVE IInv'
<1> USE NoneAssumption DEF IInv, TypeOK, PC, Progress, Opens, GoTo, Answer, inputVars, answerVars, Seed
<1>0. Having(address[r]) = {q \in accounts : SameName(q, r)}
  BY Lookups
<1>1. Progress' /\ KnownIsThere'
  BY <1>0 DEF KnownIsThere
<1>2. AnswerIsAbout'
  BY <1>0 DEF AnswerIsAbout, SameName
<1>3. TokenWasIssued'
  BY DEF TokenWasIssued
<1>4. OneAccountPerEmail'
  BY DEF OneAccountPerEmail, SameName
<1>5. AnswerTellsOutcome'
  BY DEF AnswerTellsOutcome, SameName
<1>6. OwnersGetIn'
  BY DEF OwnersGetIn, SameName, KnownIsThere
<1>7. SessionIsOwn'
  BY DEF SessionIsOwn, SameName, TokenWasIssued, AnswerIsAbout
<1> QED
  BY <1>1, <1>2, <1>3, <1>4, <1>5, <1>6, <1>7

\* The constraint lets the first row of an address in.
LEMMA InsertKeeps == ASSUME IInv, TypeOK', NEW r \in Request, Insert(r) PROVE IInv'
<1> USE NoneAssumption DEF IInv, TypeOK, PC, Progress, Opens, GoTo, Answer, inputVars, answerVars, Insert, Break
<1>0. Taken(r) = \E q \in accounts : SameName(q, r)
  BY Lookups
<1>1. Progress' /\ KnownIsThere'
  BY DEF KnownIsThere
<1>2. AnswerIsAbout'
  BY <1>0 DEF AnswerIsAbout, SameName
<1>3. TokenWasIssued'
  BY DEF TokenWasIssued
<1>4. OneAccountPerEmail'
  BY <1>0 DEF OneAccountPerEmail, SameName
<1>5. AnswerTellsOutcome'
  BY <1>0 DEF AnswerTellsOutcome, SameName
<1>6. OwnersGetIn'
  BY DEF OwnersGetIn, SameName, KnownIsThere
<1>7. SessionIsOwn'
  BY DEF SessionIsOwn, SameName, TokenWasIssued, AnswerIsAbout
<1> QED
  BY <1>1, <1>2, <1>3, <1>4, <1>5, <1>6, <1>7

\* The 201 is about the account just committed.
LEMMA IssueKeeps == ASSUME IInv, TypeOK', NEW r \in Request, Issue(r) PROVE IInv'
<1> USE NoneAssumption DEF IInv, TypeOK, PC, Progress, Opens, GoTo, Answer, inputVars, answerVars, Issue
<1>1. Progress' /\ KnownIsThere'
  BY DEF KnownIsThere
<1>2. AnswerIsAbout'
  BY DEF AnswerIsAbout, SameName
<1>3. TokenWasIssued'
  BY DEF TokenWasIssued
<1>4. OneAccountPerEmail'
  BY DEF OneAccountPerEmail, SameName
<1>5. AnswerTellsOutcome'
  BY DEF AnswerTellsOutcome, SameName
<1>6. OwnersGetIn'
  BY DEF OwnersGetIn, SameName, KnownIsThere
<1>7. SessionIsOwn'
  BY DEF SessionIsOwn, SameName, TokenWasIssued, AnswerIsAbout
<1> QED
  BY <1>1, <1>2, <1>3, <1>4, <1>5, <1>6, <1>7

\* A login meets the one account of its address.
LEMMA LoginKeeps == ASSUME IInv, TypeOK', NEW r \in Request, Login(r) PROVE IInv'
<1>0. Having(address[r]) = {q \in accounts : SameName(q, r)}
  BY Lookups DEF IInv
<1> USE NoneAssumption DEF IInv, TypeOK, PC, Progress, Opens, GoTo, Answer, inputVars, answerVars, Login
<1>a. ASSUME NEW q \in earlier[r] \cap accounts, kind[q] = "register", SameName(q, r),
             password[q] = password[r]
      PROVE  status'[r] = 200 /\ subject'[r] = q
  <2>1. q \in accounts /\ password[q] \notin TooLong
    BY <1>a
  <2>2. Having(address[r]) = {q}
    BY <1>0, <1>a, <2>1 DEF OneAccountPerEmail, SameName
  <2>3. Cardinality({q}) = 1
    BY FS_Singleton
  <2>4. Verify(r, q)
    BY <1>a, <2>1 DEF Verify
  <2> QED
    BY <2>2, <2>3, <2>4
<1>1. Progress' /\ KnownIsThere'
  BY DEF KnownIsThere
<1>2. AnswerIsAbout'
  BY <1>0 DEF AnswerIsAbout, SameName, Verify
<1>3. TokenWasIssued'
  BY DEF TokenWasIssued
<1>4. OneAccountPerEmail'
  BY DEF OneAccountPerEmail, SameName
<1>5. AnswerTellsOutcome'
  BY DEF AnswerTellsOutcome, SameName
<1>6. OwnersGetIn'
  BY <1>a DEF OwnersGetIn, SameName, KnownIsThere
<1>7. SessionIsOwn'
  BY DEF SessionIsOwn, SameName, TokenWasIssued, AnswerIsAbout
<1> QED
  BY <1>1, <1>2, <1>3, <1>4, <1>5, <1>6, <1>7

\* A session is the account its token was issued for.
LEMMA WhoamiKeeps == ASSUME IInv, TypeOK', NEW r \in Request, Whoami(r) PROVE IInv'
<1> USE NoneAssumption DEF IInv, TypeOK, PC, Progress, Opens, GoTo, Answer, inputVars, answerVars, Whoami, Valid
<1>1. Progress' /\ KnownIsThere'
  BY DEF KnownIsThere
<1>2. AnswerIsAbout'
  BY DEF AnswerIsAbout, SameName
<1>3. TokenWasIssued'
  BY DEF TokenWasIssued
<1>4. OneAccountPerEmail'
  BY DEF OneAccountPerEmail, SameName
<1>5. AnswerTellsOutcome'
  BY DEF AnswerTellsOutcome, SameName
<1>6. OwnersGetIn'
  BY DEF OwnersGetIn, SameName, KnownIsThere
<1>7. SessionIsOwn'
  BY DEF SessionIsOwn, SameName, TokenWasIssued, AnswerIsAbout
<1> QED
  BY <1>1, <1>2, <1>3, <1>4, <1>5, <1>6, <1>7

\* A failed statement is a 500 of a request that is over.
LEMMA FailKeeps == ASSUME IInv, TypeOK', NEW r \in Request, Fail(r) PROVE IInv'
<1> USE NoneAssumption DEF IInv, TypeOK, PC, Progress, Opens, GoTo, Answer, inputVars, answerVars, Fail, Break
<1>1. Progress' /\ KnownIsThere'
  BY DEF KnownIsThere
<1>2. AnswerIsAbout'
  BY DEF AnswerIsAbout, SameName
<1>3. TokenWasIssued'
  BY DEF TokenWasIssued
<1>4. OneAccountPerEmail'
  BY DEF OneAccountPerEmail, SameName
<1>5. AnswerTellsOutcome'
  BY DEF AnswerTellsOutcome, SameName
<1>6. OwnersGetIn'
  BY DEF OwnersGetIn, SameName, KnownIsThere
<1>7. SessionIsOwn'
  BY DEF SessionIsOwn, SameName, TokenWasIssued, AnswerIsAbout
<1> QED
  BY <1>1, <1>2, <1>3, <1>4, <1>5, <1>6, <1>7

\* What died gives no answer.
LEMMA CrashKeeps == ASSUME IInv, TypeOK', NEW r \in Request, Crash(r) PROVE IInv'
<1> USE NoneAssumption DEF IInv, TypeOK, PC, Progress, Opens, GoTo, Answer, inputVars, answerVars, Crash
<1>1. Progress' /\ KnownIsThere'
  BY DEF KnownIsThere
<1>2. AnswerIsAbout'
  BY DEF AnswerIsAbout, SameName
<1>3. TokenWasIssued'
  BY DEF TokenWasIssued
<1>4. OneAccountPerEmail'
  BY DEF OneAccountPerEmail, SameName
<1>5. AnswerTellsOutcome'
  BY DEF AnswerTellsOutcome, SameName
<1>6. OwnersGetIn'
  BY DEF OwnersGetIn, SameName, KnownIsThere
<1>7. SessionIsOwn'
  BY DEF SessionIsOwn, SameName, TokenWasIssued, AnswerIsAbout
<1> QED
  BY <1>1, <1>2, <1>3, <1>4, <1>5, <1>6, <1>7

\* Time touches no account and no answer.
LEMMA IdleKeeps == ASSUME IInv, TypeOK', Tick \/ UNCHANGED vars PROVE IInv'
<1>1. UNCHANGED <<pc, kind, address, password, token, earlier, accounts, status, subject, issued,
               fault>>
  BY DEF Tick, vars, inputVars, answerVars
<1> QED
  BY <1>1 DEF IInv, Progress, Opens, KnownIsThere, AnswerIsAbout, TokenWasIssued, OneAccountPerEmail,
              AnswerTellsOutcome, OwnersGetIn, SessionIsOwn, SameName

\* The inductive invariant is inductive.
LEMMA IInvStep == IInv /\ [Next]_vars => IInv'
<1> SUFFICES ASSUME IInv, [Next]_vars PROVE IInv'
  OBVIOUS
<1>1. TypeOK'
  BY TypeStep DEF IInv
<1> QED
  BY <1>1, ArriveKeeps, RegisterKeeps, SeedKeeps, InsertKeeps, IssueKeeps, LoginKeeps,
     WhoamiKeeps, FailKeeps, CrashKeeps, IdleKeeps DEF Next

\* The invariant the properties follow from.
THEOREM Invariance == Spec => []IInv
  BY InitIInv, IInvStep, PTL DEF Spec

\* Nobody gets a second account for an address, however registrations and seed
\* runs race.
THEOREM OneAccountPerEmailAlways == Spec => []OneAccountPerEmail
<1>1. IInv => OneAccountPerEmail
  BY DEF IInv
<1> QED
  BY <1>1, Invariance, PTL

\* What a registration's answer tells, when a statement has failed and when
\* none has.
THEOREM AnswerTellsOutcomeAlways == Spec => []AnswerTellsOutcome
<1>1. IInv => AnswerTellsOutcome
  BY DEF IInv
<1> QED
  BY <1>1, Invariance, PTL

\* Who has got an account, were it behind a 500, is let in with the same
\* password from then on.
THEOREM OwnersGetInAlways == Spec => []OwnersGetIn
<1>1. IInv => OwnersGetIn
  BY DEF IInv
<1> QED
  BY <1>1, Invariance, PTL

\* A session is an account its token was issued for, within its lifetime.
THEOREM SessionIsOwnAlways == Spec => []SessionIsOwn
<1>1. IInv => SessionIsOwn
  BY DEF IInv
<1> QED
  BY <1>1, Invariance, PTL
===============================================================================
