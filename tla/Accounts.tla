------------------------------- MODULE Accounts -------------------------------
(***************************************************************************)
(* Accounts of tenants: register, login and the token that current_tenant  *)
(* turns back into an account (app/routers/auth.py, app/security.py,       *)
(* app/deps.py), and the seed script, which opens accounts too.            *)
(*                                                                         *)
(* Handlers run in threads and read and write in separate statements, so   *)
(* that requests for one address overtake each other between the SELECT    *)
(* and the INSERT.  An account is named by the request that opened it.     *)
(* Nothing in the code deletes an account.                                 *)
(*                                                                         *)
(* An address is a name and the case it is written in; hashes are told     *)
(* apart by the password.  INSERT and COMMIT are one step: an INSERT that  *)
(* waits for another's commit ends as if it had come after it.  Any        *)
(* statement may fail: the database is gone, or it refuses the row (a NUL  *)
(* in the name, which RegisterRequest lets through).                       *)
(***************************************************************************)
EXTENDS Naturals, FiniteSets

CONSTANTS
    Request,    \* requests, and runs of the seed script
    Name,       \* addresses up to case
    Password,
    TooLong,    \* passwords of at most 128 characters but more than 72 bytes
    Expiry,     \* settings.jwt_expire_minutes, in ticks
    None,       \* no token, no account
    MaxTime,    \* bound on the clock
    MaxCrashes, \* bound on crashes
    MaxFaults   \* bound on requests with a failed statement

ASSUME PasswordAssumption == TooLong \subseteq Password
ASSUME NoneAssumption == None \notin Request
ASSUME BoundAssumption == Expiry \in Nat /\ MaxTime \in Nat
                          /\ MaxCrashes \in Nat /\ MaxFaults \in Nat

VARIABLES
    pc,        \* next statement of each request
    kind,      \* register, login, seed, or whoami: a request with a token
    address,   \* address it gives
    password,  \* password it gives
    token,     \* for whoami: request whose token it carries, or None
    earlier,   \* requests that were answered when it arrived
    accounts,  \* committed accounts
    status,    \* HTTP status answered, 0 before the answer
    subject,   \* account the answer is about, or None
    issued,    \* when its token was issued
    fault,     \* history: statement of it that failed, or "none"
    now, crashes

inputVars == <<kind, address, password, token, earlier>>
answerVars == <<status, subject, issued>>
vars == <<pc, inputVars, accounts, answerVars, fault, now, crashes>>

Address == [name : Name, upper : BOOLEAN]
Kind == {"register", "login", "seed", "whoami"}
PC == {"unsent", "select", "insert", "answer", "done", "dead"}
Fault == {"none", "select", "insert", "answer"}
Code == {0, 200, 201, 401, 409, 500}

\* payload.email.lower()
Lower(a) == [a EXCEPT !.upper = FALSE]

\* The email column of an account; the seed script's addresses are lower case.
Email(q) == Lower(address[q])

\* Variant: the lookup takes the address as it was typed.
HavingAsTyped(a) == {q \in accounts : Email(q) = a}

\* Accounts SELECTed by address.
Having(a) == {q \in accounts : Email(q) = Lower(a)}

\* Variant: the table lacks the unique constraint on email.
NeverTaken(r) == FALSE

\* What the unique constraint says of r's row.
Taken(r) == \E q \in accounts : Email(q) = Email(r)

\* Variant: any account with the address will do.
VerifyNothing(r, q) == TRUE

\* verify_password: no password that is too long is right.
Verify(r, q) == password[r] \notin TooLong /\ password[r] = password[q]

\* decode_access_token: t's answer carried a token that has not expired.
Valid(t) == subject[t] # None /\ now < issued[t] + Expiry

Init ==
    /\ pc = [r \in Request |-> "unsent"]
    /\ kind \in [Request -> Kind]
    /\ address \in [Request -> Address]
    /\ \A r \in Request : kind[r] \in {"seed", "whoami"} => ~address[r].upper
    /\ password \in [Request -> Password]
    /\ \A r \in Request : kind[r] \in {"seed", "whoami"} => password[r] \notin TooLong
    /\ token = [r \in Request |-> None]
    /\ earlier = [r \in Request |-> {}]
    /\ accounts = {}
    /\ status = [r \in Request |-> 0]
    /\ subject = [r \in Request |-> None]
    /\ issued = [r \in Request |-> 0]
    /\ fault = [r \in Request |-> "none"]
    /\ now = 0 /\ crashes = 0

-----------------------------------------------------------------------------
GoTo(r, label) ==
    /\ pc' = [pc EXCEPT ![r] = label]
    /\ UNCHANGED answerVars

\* r's present statement fails.
Break(r) ==
    /\ Cardinality({q \in Request : fault[q] # "none"}) < MaxFaults
    /\ fault' = [fault EXCEPT ![r] = pc[r]]

Answer(r, code, account) ==
    /\ pc' = [pc EXCEPT ![r] = "done"]
    /\ status' = [status EXCEPT ![r] = code]
    /\ subject' = [subject EXCEPT ![r] = account]
    /\ issued' = [issued EXCEPT ![r] = now]

\* A request arrives; a whoami carries a token someone was given, or none that
\* decodes.
Arrive(r) ==
    /\ pc[r] = "unsent"
    /\ GoTo(r, "select")
    /\ earlier' = [earlier EXCEPT ![r] = {q \in Request : pc[q] = "done"}]
    /\ \E t \in {q \in Request : subject[q] # None /\ kind[q] \in {"register", "login"}} \cup {None} :
          /\ kind[r] # "whoami" => t = None
          /\ token' = [token EXCEPT ![r] = t]
    /\ UNCHANGED <<kind, address, password, accounts, fault, now, crashes>>

\* register: SELECT by address, then hash_password, which refuses a password
\* that is too long.
Register(r) ==
    /\ pc[r] = "select" /\ kind[r] = "register"
    /\ \/ Having(address[r]) # {} /\ Answer(r, 409, None)
       \/ Having(address[r]) = {} /\ password[r] \in TooLong /\ Answer(r, 500, None)
       \/ Having(address[r]) = {} /\ password[r] \notin TooLong /\ GoTo(r, "insert")
    /\ UNCHANGED <<inputVars, accounts, fault, now, crashes>>

\* upsert_tenant: SELECT by address; an account that is there will do.
Seed(r) ==
    /\ pc[r] = "select" /\ kind[r] = "seed"
    /\ \/ \E q \in Having(address[r]) : Answer(r, 200, q)
       \/ Having(address[r]) = {} /\ GoTo(r, "insert")
    /\ UNCHANGED <<inputVars, accounts, fault, now, crashes>>

\* Variant: the answer leaves without a commit.
InsertUncommitted(r) ==
    /\ pc[r] = "insert"
    /\ IF Taken(r) THEN Answer(r, 500, None) ELSE GoTo(r, "answer")
    /\ UNCHANGED <<inputVars, accounts, fault, now, crashes>>

\* INSERT and COMMIT; the IntegrityError of a lost race is not caught.  Of a
\* COMMIT the database may have done, the handler may not hear.
Insert(r) ==
    /\ pc[r] = "insert"
    /\ \/ /\ Taken(r)
          /\ Answer(r, 500, None)
          /\ UNCHANGED <<accounts, fault>>
       \/ /\ ~Taken(r)
          /\ accounts' = accounts \cup {r}
          /\ \/ GoTo(r, "answer") /\ UNCHANGED fault
             \/ Answer(r, 500, None) /\ Break(r)
    /\ UNCHANGED <<inputVars, now, crashes>>

\* A statement fails and changes nothing: a SELECT, the INSERT, the refresh
\* after the COMMIT.
Fail(r) ==
    /\ pc[r] \in {"select", "insert", "answer"}
    /\ Answer(r, 500, None)
    /\ Break(r)
    /\ UNCHANGED <<inputVars, accounts, now, crashes>>

\* db.refresh, create_access_token, 201; Fail has the refresh that fails.
Issue(r) ==
    /\ pc[r] = "answer"
    /\ Answer(r, 201, r)
    /\ UNCHANGED <<inputVars, accounts, fault, now, crashes>>

\* login: the SELECT raises when it meets two accounts.
Login(r) ==
    /\ pc[r] = "select" /\ kind[r] = "login"
    /\ LET having == Having(address[r])
       IN  \/ Cardinality(having) > 1 /\ Answer(r, 500, None)
           \/ \E q \in having : having = {q} /\ Verify(r, q) /\ Answer(r, 200, q)
           \/ /\ Cardinality(having) <= 1
              /\ \A q \in having : ~Verify(r, q)
              /\ Answer(r, 401, None)
    /\ UNCHANGED <<inputVars, accounts, fault, now, crashes>>

\* current_tenant: decode the token and get its subject.
Whoami(r) ==
    /\ pc[r] = "select" /\ kind[r] = "whoami"
    /\ IF token[r] # None /\ Valid(token[r]) /\ subject[token[r]] \in accounts
       THEN Answer(r, 200, subject[token[r]])
       ELSE Answer(r, 401, None)
    /\ UNCHANGED <<inputVars, accounts, fault, now, crashes>>

\* The process that serves r dies.
Crash(r) ==
    /\ pc[r] \in {"select", "insert", "answer"}
    /\ crashes < MaxCrashes
    /\ crashes' = crashes + 1
    /\ GoTo(r, "dead")
    /\ UNCHANGED <<inputVars, accounts, fault, now>>

Tick ==
    /\ now < MaxTime
    /\ now' = now + 1
    /\ UNCHANGED <<pc, inputVars, accounts, answerVars, fault, crashes>>

Next ==
    \/ \E r \in Request :
          \/ Arrive(r) \/ Register(r) \/ Seed(r) \/ Insert(r) \/ Issue(r)
          \/ Login(r) \/ Whoami(r) \/ Fail(r) \/ Crash(r)
    \/ Tick

Spec == Init /\ [][Next]_vars

-----------------------------------------------------------------------------
TypeOK ==
    /\ pc \in [Request -> PC]
    /\ kind \in [Request -> Kind]
    /\ address \in [Request -> Address]
    /\ password \in [Request -> Password]
    /\ token \in [Request -> Request \cup {None}]
    /\ earlier \in [Request -> SUBSET Request]
    /\ accounts \subseteq Request
    /\ status \in [Request -> Code]
    /\ subject \in [Request -> Request \cup {None}]
    /\ issued \in [Request -> Nat]
    /\ fault \in [Request -> Fault]
    /\ now \in 0..MaxTime
    /\ crashes \in 0..MaxCrashes

SameName(q, r) == address[q].name = address[r].name

\* However registrations and seed runs race, and however the address is
\* written, nobody gets a second account for an address.
OneAccountPerEmail ==
    \A q, r \in accounts : q # r => ~SameName(q, r)

\* What a registration's answer tells: 201 that the account is there, 409 that
\* one of the address is; 500 that one is, that bcrypt cannot take the password,
\* or that a statement failed.  Behind an answer that is no 201 there is an
\* account of its own only if the COMMIT was not heard of or the refresh failed.
AnswerTellsOutcome ==
    \A r \in Request : kind[r] = "register" /\ status[r] # 0 =>
        /\ status[r] = 201 => r \in accounts
        /\ status[r] # 201 =>
              /\ r \in accounts => status[r] = 500 /\ fault[r] \in {"insert", "answer"}
              /\ \/ \E q \in accounts : SameName(q, r)
                 \/ status[r] = 500 /\ (password[r] \in TooLong \/ fault[r] # "none")

\* Who has got an account, were it behind a 500, is let in with the same
\* password from then on, however the address is written, unless the login
\* itself meets a failing database.
OwnersGetIn ==
    \A r \in Request : kind[r] = "login" /\ pc[r] = "done" /\ fault[r] = "none" =>
        \A q \in earlier[r] \cap accounts :
            kind[q] = "register" /\ SameName(q, r) /\ password[q] = password[r]
                => status[r] = 200 /\ subject[r] = q

\* Who is served as an account holds a token of a request that opened it or
\* gave its address and password, and not longer than its lifetime ago.
SessionIsOwn ==
    \A r \in Request : kind[r] = "whoami" /\ status[r] = 200 =>
        LET t == token[r]
        IN  /\ t # None
            /\ subject[r] = subject[t]
            /\ issued[r] < issued[t] + Expiry
            /\ SameName(t, subject[r]) /\ password[t] = password[subject[r]]
===============================================================================
