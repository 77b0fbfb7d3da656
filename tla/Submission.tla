------------------------------ MODULE Submission ------------------------------
(***************************************************************************)
(* The submission endpoint: POST /api/public/submissions                   *)
(* (app/routers/public.py, app/services/submission_service.py).            *)
(*                                                                         *)
(* One action per database statement, because at READ COMMITTED every      *)
(* statement sees what other sessions have committed in the meantime.      *)
(* The endpoint is a coroutine: it keeps its process's event loop from the *)
(* widget lookup to the reply, and gives it up only while it awaits        *)
(* enrich_ip.  Several API processes may share the database.  The tenant   *)
(* edits and deletes widgets concurrently; a process may crash, and any    *)
(* statement may fail for a reason that lies outside: `fault' remembers    *)
(* whether that was at the commit, at the refresh after it, or elsewhere.  *)
(*                                                                         *)
(* A stored lead is named by the request that stored it: `rows' holds the  *)
(* committed ones, and a request at "commit" has a flushed, uncommitted    *)
(* row that other sessions cannot see but whose locks they wait for.       *)
(*                                                                         *)
(* Connections suffice here (ConnectionPool does without), the checks      *)
(* between lookup and spam are free choices (Intake), and so is the        *)
(* limiter's verdict (RateLimiter).                                        *)
(***************************************************************************)
EXTENDS Naturals, FiniteSets

CONSTANTS
    Request,     \* submission requests
    Process,     \* API processes, one event loop each
    Widget,      \* widgets that exist at the start
    Key,         \* non-blank idempotency keys
    NoKey,       \* no Idempotency-Key header
    BlankKey,    \* an Idempotency-Key header with an empty value
    EventType,   \* side effects a widget can ask for: e-mail, webhook
    None,        \* no lead, no request
    MaxCrashes,  \* bound on process crashes
    MaxEdits,    \* bound on tenant edits of widgets
    MaxFaults    \* bound on requests that fail from outside

ASSUME KeyAssumption == NoKey # BlankKey /\ NoKey \notin Key /\ BlankKey \notin Key
ASSUME NoneAssumption == None \notin Request
ASSUME BoundAssumption == MaxCrashes \in Nat /\ MaxEdits \in Nat /\ MaxFaults \in Nat

VARIABLES
    pc,       \* next statement of each request
    host,     \* process that serves each request
    target,   \* widget it addresses
    key,      \* its idempotency key
    seen,     \* side effects the widget asked for when the request read it
    status,   \* HTTP status answered, 0 before the answer
    leadId,   \* lead named in the answer, or None
    fault,    \* where a failure from outside ended the request, or "none"
    loop,     \* request that holds each event loop, or None
    live,     \* widgets with a row
    active,   \* widgets whose row says active
    notify,   \* side effects each widget asks for
    rows,     \* committed submissions
    events,   \* committed outbox events, <<submission, type>>
    spamlog,  \* committed spam events, named by their request
    crashes, edits

reqVars == <<host, target, key>>
dbVars == <<live, active, notify, rows, events, spamlog>>
widgetVars == <<live, active, notify>>
boundVars == <<crashes, edits>>
vars == <<pc, host, target, key, seen, status, leadId, fault, loop,
          live, active, notify, rows, events, spamlog, crashes, edits>>

AnyKey == Key \cup {NoKey, BlankKey}

\* Statements that run with the event loop held.
OnLoop == {"spam", "find", "insert", "conflict", "commit", "refresh"}
\* Statements that may fail without a fault of the program.
Fallible == OnLoop \cup {"arrived"}
PC == OnLoop \cup {"unsent", "arrived", "enrich", "done", "dead"}
Fault == {"none", "elsewhere", "commit", "refresh"}
Code == {0, 201, 403, 404, 422, 429, 500}

\* The unique constraint on (widget_id, idempotency_key); NULLs never collide.
SameKey(q, r) == key[q] # NoKey /\ key[q] = key[r] /\ target[q] = target[r]

Flushed(r) == pc[r] = "commit"

\* INSERT waits for a transaction that has flushed the same key.
Blocks(q, r) == q # r /\ Flushed(q) /\ SameKey(q, r)

\* Variant: the lookup filters by key alone and forgets the widget.
FoundOnAnyWidget(r) == {q \in rows : key[r] \in Key /\ key[q] = key[r]}

\* Leads find_by_idempotency_key returns: `if not key' rules out no key and a
\* blank one.
Found(r) == {q \in rows : key[r] \in Key /\ SameKey(q, r)}

\* Variant: the table lacks the unique constraint.
ForeignKeyOnly(r) == target[r] \notin live

\* What the flush of r's row violates: the foreign key to the widget or the
\* unique constraint.
Violation(r) == target[r] \notin live \/ \E q \in rows : SameKey(q, r)

Init ==
    /\ pc = [r \in Request |-> "unsent"]
    /\ host \in [Request -> Process]
    /\ target \in [Request -> Widget]
    /\ key = [r \in Request |-> NoKey]
    /\ seen = [r \in Request |-> {}]
    /\ status = [r \in Request |-> 0]
    /\ leadId = [r \in Request |-> None]
    /\ fault = [r \in Request |-> "none"]
    /\ loop = [p \in Process |-> None]
    /\ live = Widget
    /\ active = Widget
    /\ notify \in [Widget -> SUBSET EventType]
    /\ rows = {}
    /\ events = {}
    /\ spamlog = {}
    /\ crashes = 0
    /\ edits = 0

\* The end of the coroutine: the answer leaves, the loop is free again.
Reply(r, code, lead) ==
    /\ pc' = [pc EXCEPT ![r] = "done"]
    /\ status' = [status EXCEPT ![r] = code]
    /\ leadId' = [leadId EXCEPT ![r] = lead]
    /\ loop' = [loop EXCEPT ![host[r]] = None]

GoTo(r, label) ==
    /\ pc' = [pc EXCEPT ![r] = label]
    /\ UNCHANGED <<status, leadId>>

\* An exception nobody catches leaves r's current statement.
Break(r) ==
    /\ Cardinality({q \in Request : fault[q] # "none"}) < MaxFaults
    /\ Reply(r, 500, None)
    /\ fault' = [fault EXCEPT ![r] =
                    IF pc[r] \in {"commit", "refresh"} THEN pc[r] ELSE "elsewhere"]

-----------------------------------------------------------------------------
\* A client's request reaches the process it is routed to.
Arrive(r) ==
    /\ pc[r] = "unsent"
    /\ \E k \in AnyKey : key' = [key EXCEPT ![r] = k]
    /\ GoTo(r, "arrived")
    /\ UNCHANGED <<host, target, seen, fault, loop, dbVars, boundVars>>

\* SELECT the widget and run the checks that need no database: origin
\* allow-list, rate limiter, spam verdict, field validation.  Their outcome
\* is left open; the widget is read once and kept for the whole request.
Lookup(r) ==
    /\ pc[r] = "arrived"
    /\ loop[host[r]] = None
    /\ \/ /\ target[r] \notin live \cap active
          /\ Reply(r, 404, None)
          /\ UNCHANGED seen
       \/ /\ target[r] \in live \cap active
          /\ \E code \in {403, 429, 422} : Reply(r, code, None)
          /\ UNCHANGED seen
       \/ /\ target[r] \in live \cap active
          /\ \E next \in {"spam", "find"} : GoTo(r, next)
          /\ seen' = [seen EXCEPT ![r] = notify[target[r]]]
          /\ loop' = [loop EXCEPT ![host[r]] = r]
    /\ UNCHANGED <<reqVars, fault, dbVars, boundVars>>

\* INSERT the spam event and COMMIT; the bot is told 201 without a lead,
\* unless the commit is not heard of or the widget is gone (foreign key).
RecordSpam(r) ==
    /\ pc[r] = "spam"
    /\ \/ /\ target[r] \in live
          /\ spamlog' = spamlog \cup {r}
          /\ \/ Reply(r, 201, None) /\ UNCHANGED fault
             \/ Break(r)
       \/ /\ target[r] \notin live
          /\ Reply(r, 500, None)
          /\ UNCHANGED <<spamlog, fault>>
    /\ UNCHANGED <<reqVars, seen, widgetVars, rows, events, boundVars>>

\* SELECT by idempotency key.  Without a hit the coroutine awaits enrich_ip.
FindByKey(r) ==
    /\ pc[r] = "find"
    /\ \/ \E q \in Found(r) : Reply(r, 201, q)
       \/ /\ Found(r) = {}
          /\ GoTo(r, "enrich")
          /\ loop' = [loop EXCEPT ![host[r]] = None]
    /\ UNCHANGED <<reqVars, seen, fault, dbVars, boundVars>>

\* enrich_ip returned (enriched, skipped or unavailable; it never raises)
\* and the event loop resumes the coroutine.
Resume(r) ==
    /\ pc[r] = "enrich"
    /\ loop[host[r]] = None
    /\ loop' = [loop EXCEPT ![host[r]] = r]
    /\ GoTo(r, "insert")
    /\ UNCHANGED <<reqVars, seen, fault, dbVars, boundVars>>

\* Variant: the row is flushed before enrich_ip is awaited, not after.
InsertThenAwait(r) ==
    /\ pc[r] = "insert"
    /\ \A q \in Request : ~Blocks(q, r)
    /\ IF Violation(r)
       THEN GoTo(r, "conflict") /\ UNCHANGED loop
       ELSE GoTo(r, "commit") /\ loop' = [loop EXCEPT ![host[r]] = None]
    /\ UNCHANGED <<reqVars, seen, fault, dbVars, boundVars>>

\* db.flush(); an IntegrityError rolls the transaction back.
Insert(r) ==
    /\ pc[r] = "insert"
    /\ \A q \in Request : ~Blocks(q, r)
    /\ IF Violation(r) THEN GoTo(r, "conflict") ELSE GoTo(r, "commit")
    /\ UNCHANGED <<reqVars, seen, fault, loop, dbVars, boundVars>>

\* Variant: the IntegrityError is not caught.
ConflictRaises(r) ==
    /\ pc[r] = "conflict"
    /\ Reply(r, 500, None)
    /\ UNCHANGED <<reqVars, seen, fault, dbVars, boundVars>>

\* Variant: no winner found, so insert again.
ConflictRetries(r) ==
    /\ pc[r] = "conflict"
    /\ \/ \E q \in Found(r) : Reply(r, 201, q)
       \/ Found(r) = {} /\ GoTo(r, "insert") /\ UNCHANGED loop
    /\ UNCHANGED <<reqVars, seen, fault, dbVars, boundVars>>

\* Variant: the answer carries the key in place of the lead's id.
ConflictNamesKey(r) ==
    /\ pc[r] = "conflict"
    /\ IF Found(r) = {} THEN Reply(r, 500, None) ELSE Reply(r, 201, key[r])
    /\ UNCHANGED <<reqVars, seen, fault, dbVars, boundVars>>

\* Variant: the answer is the submission that was rolled back, not the winner.
ConflictNamesOwn(r) ==
    /\ pc[r] = "conflict"
    /\ IF Found(r) = {} THEN Reply(r, 500, None) ELSE Reply(r, 201, r)
    /\ UNCHANGED <<reqVars, seen, fault, dbVars, boundVars>>

\* Every IntegrityError is taken for a key conflict: look the winner up, and
\* re-raise when there is none.
Conflict(r) ==
    /\ pc[r] = "conflict"
    /\ \/ \E q \in Found(r) : Reply(r, 201, q)
       \/ Found(r) = {} /\ Reply(r, 500, None)
    /\ UNCHANGED <<reqVars, seen, fault, dbVars, boundVars>>

\* The side effects r's lead owes: those the widget asked for when it was read.
Owed(r) == seen[r]

\* Variant: no commit; the answer leaves and the session rolls back.
CommitMissing(r) ==
    /\ Flushed(r)
    /\ Reply(r, 201, r)
    /\ UNCHANGED <<reqVars, seen, fault, dbVars, boundVars>>

\* Variant: the lead is committed before its outbox events, whose payload may
\* raise.
CommitThenQueue(r) ==
    /\ Flushed(r)
    /\ rows' = rows \cup {r}
    /\ \/ events' = events \cup ({r} \X Owed(r)) /\ GoTo(r, "refresh") /\ UNCHANGED loop
       \/ UNCHANGED events /\ Reply(r, 500, None)
    /\ UNCHANGED <<reqVars, seen, fault, widgetVars, spamlog, boundVars>>

\* Add one outbox event per side effect, and COMMIT them with the submission.
\* The connection may be lost before the commit is heard of: a 500.
Commit(r) ==
    /\ Flushed(r)
    /\ rows' = rows \cup {r}
    /\ events' = events \cup ({r} \X Owed(r))
    /\ \/ GoTo(r, "refresh") /\ UNCHANGED <<fault, loop>>
       \/ Break(r)
    /\ UNCHANGED <<reqVars, seen, widgetVars, spamlog, boundVars>>

\* db.refresh(submission) in a new transaction, then the 201.
Refresh(r) ==
    /\ pc[r] = "refresh"
    /\ IF r \in rows THEN Reply(r, 201, r) ELSE Reply(r, 500, None)
    /\ UNCHANGED <<reqVars, seen, fault, dbVars, boundVars>>

\* A statement fails for a reason outside the program: no connection within
\* the pool's time, a lost one, a value PostgreSQL refuses (an ip of more than
\* 64 characters, a NUL in data).  Only an IntegrityError of the flush is
\* caught; the session is closed, which rolls back what it had not committed.
Fail(r) ==
    /\ pc[r] \in Fallible
    /\ pc[r] = "arrived" => loop[host[r]] = None
    /\ Break(r)
    /\ UNCHANGED <<reqVars, seen, dbVars, boundVars>>

-----------------------------------------------------------------------------
\* The tenant's PATCH, seen from here: at its commit the widget may have
\* been (de)activated and its notification targets changed.
EditWidget(w) ==
    /\ w \in live
    /\ edits < MaxEdits
    /\ edits' = edits + 1
    /\ \E a \in SUBSET {w} : active' = (active \ {w}) \cup a
    /\ \E n \in SUBSET EventType : notify' = [notify EXCEPT ![w] = n]
    /\ UNCHANGED <<pc, reqVars, seen, status, leadId, fault, loop,
                   live, rows, events, spamlog, crashes>>

\* The tenant's DELETE cascades to submissions, outbox and spam events.  It
\* waits for a flushed submission, whose foreign key check locks the widget.
DeleteWidget(w) ==
    /\ w \in live
    /\ \A r \in Request : Flushed(r) => target[r] # w
    /\ live' = live \ {w}
    /\ rows' = {r \in rows : target[r] # w}
    /\ events' = {e \in events : target[e[1]] # w}
    /\ spamlog' = {r \in spamlog : target[r] # w}
    /\ UNCHANGED <<pc, reqVars, seen, status, leadId, fault, loop,
                   active, notify, boundVars>>

\* A process dies with everything it has in flight; the database rolls the
\* open transactions back.
Crash(p) ==
    /\ crashes < MaxCrashes
    /\ crashes' = crashes + 1
    /\ pc' = [r \in Request |->
                IF host[r] = p /\ pc[r] \notin {"unsent", "done"}
                THEN "dead" ELSE pc[r]]
    /\ loop' = [loop EXCEPT ![p] = None]
    /\ UNCHANGED <<reqVars, seen, status, leadId, fault, dbVars, edits>>

Step(r) ==
    \/ Lookup(r) \/ RecordSpam(r) \/ FindByKey(r) \/ Resume(r)
    \/ Insert(r) \/ Conflict(r) \/ Commit(r) \/ Refresh(r)

Next ==
    \/ \E r \in Request : Arrive(r) \/ Step(r) \/ Fail(r)
    \/ \E w \in Widget : EditWidget(w) \/ DeleteWidget(w)
    \/ \E p \in Process : Crash(p)

Spec == Init /\ [][Next]_vars

-----------------------------------------------------------------------------
\* Every variable has its type; a lead named in an answer is always some
\* request's, never the key it came under.
TypeOK ==
    /\ pc \in [Request -> PC]
    /\ host \in [Request -> Process]
    /\ target \in [Request -> Widget]
    /\ key \in [Request -> AnyKey]
    /\ seen \in [Request -> SUBSET EventType]
    /\ status \in [Request -> Code]
    /\ leadId \in [Request -> Request \cup {None}]
    /\ fault \in [Request -> Fault]
    /\ loop \in [Process -> Request \cup {None}]
    /\ live \subseteq Widget
    /\ active \subseteq Widget
    /\ notify \in [Widget -> SUBSET EventType]
    /\ rows \subseteq Request
    /\ events \subseteq Request \X EventType
    /\ spamlog \subseteq Request
    /\ crashes \in 0..MaxCrashes
    /\ edits \in 0..MaxEdits

\* Whatever the requests race against, a client that repeats its key gets the
\* lead it got before: two answers to one key on one widget name one lead.
ReplaysAgree ==
    \A q, r \in Request :
        SameKey(q, r) /\ leadId[q] # None /\ leadId[r] # None
            => leadId[q] = leadId[r]

\* An answer never names a lead of another widget or of another key: it is
\* the request's own lead or the one stored under its key.
AnswerIsOwn ==
    \A r \in Request :
        leadId[r] # None => leadId[r] = r \/ SameKey(leadId[r], r)

\* A lead that was acknowledged survives every crash, of the process that
\* stored it too, until its widget is deleted.
AckDurable ==
    \A r \in Request :
        leadId[r] # None /\ target[r] \in live => leadId[r] \in rows

\* "If the row is stored, the side effect is queued; if the row is not,
\* nothing is queued": across conflicts, crashes and cascades the outbox
\* holds exactly what the stored leads owe.
OutboxAtomic ==
    events = {e \in Request \X EventType : e[1] \in rows /\ e[2] \in seen[e[1]]}

\* Whoever is refused has left nothing, and who is told that the server failed
\* has left a lead only if the commit was not heard of or the refresh after it
\* failed: no failure on the way to the commit leaves half of a submission.
ErrorLeavesNothing ==
    \A r \in rows : status[r] \in {0, 201} \/ fault[r] \in {"commit", "refresh"}

\* The program's own ways to a 500, with no statement failing from outside:
\* the widget was deleted under the request, or the key is blank and another
\* stored lead has it.  Losing a race for a key is not among them.
ServerErrorCause ==
    \A r \in Request :
        status[r] = 500 /\ fault[r] = "none" =>
            \/ target[r] \notin live
            \/ key[r] = BlankKey /\ \E q \in rows : q # r /\ SameKey(q, r)

\* A client that was told of a failure may have left a lead.  If it sent a key,
\* repeating it gets that lead and no second one: every answer to the key on
\* the widget names it.
RetryFindsLead ==
    \A r \in rows, q \in Request :
        SameKey(q, r) /\ leadId[q] # None => leadId[q] = r

\* An insert that waits for a row lock blocks its whole event loop, so the
\* lock must be held by a request of another process: one of the same
\* process could never be resumed to release it.
NoSelfBlocking ==
    \A q, r \in Request :
        pc[r] = "insert" /\ Blocks(q, r) => host[q] # host[r]

\* Every request that arrives is answered, unless its process dies.
EveryRequestAnswered ==
    \A r \in Request : pc[r] = "arrived" ~> pc[r] \in {"done", "dead"}

\* The endpoint implements the abstract store: statements, event loops,
\* crashes and every answer without a lead left out.
Store == INSTANCE LeadStore
    WITH Request <- Request, Widget <- Widget, EventType <- EventType, NoKey <- NoKey, None <- None,
         target <- target, key <- key, live <- live, rows <- rows, events <- events,
         leadId <- leadId
StoreSpec == Store!ASpec
===============================================================================
