---------------------------- MODULE ConnectionPool ----------------------------
(***************************************************************************)
(* The connection pool (app/db.py) under one API process: its event loop,  *)
(* its threads and the outbox worker.                                      *)
(*                                                                         *)
(* A session takes a connection with its first statement and keeps it      *)
(* until it commits, rolls back or closes.  The submission endpoint is a   *)
(* coroutine whose statements run on the event loop, so when it waits for  *)
(* a connection the loop waits too; the other handlers are run on threads  *)
(* and need the loop only between their steps: to start, to go from        *)
(* current_tenant to the handler, to close.  The pool makes a session wait *)
(* PoolTimeout at most, then raises.                                       *)
(*                                                                         *)
(* In live mode enrich_ip gives the loop up; with the mock providers it    *)
(* never suspends, which is a Decide followed at once by its Resume.       *)
(***************************************************************************)
EXTENDS Naturals, FiniteSets

CONSTANTS
    Submission,   \* POST /api/public/submissions, run on the loop
    Handler,      \* requests of the other routes, run on threads
    Drain,        \* drains of the outbox worker, run on threads
    PoolMax,      \* pool_size + max_overflow
    PoolTimeout,  \* pool_timeout, in ticks
    None          \* nobody holds the loop

Session == Submission \cup Handler \cup Drain

ASSUME SessionAssumption ==
    /\ Submission \cap Handler = {} /\ Submission \cap Drain = {} /\ Handler \cap Drain = {}
    /\ None \notin Session
ASSUME PoolAssumption == PoolMax \in Nat \ {0} /\ PoolTimeout \in Nat

VARIABLES
    at,      \* where each session is
    loop,    \* the submission that runs on the event loop, or None
    held,    \* sessions that hold a connection
    waited,  \* how long each session has waited for one
    code     \* 200 for a success, 400 for a refusal, 500; 0 before the answer

vars == <<at, loop, held, waited, code>>

\* Places where the session's next step is a statement.
Statement == {"lookup", "auth", "work", "again", "drain"}

\* Places that are left only when the event loop gets round to it.
OffLoop == {"new", "enrich", "authed", "close"}
Place == Statement \cup OffLoop \cup {"closing", "done"}

Waiting == {s \in Session : at[s] \in Statement /\ s \notin held}
Full == Cardinality(held) >= PoolMax

Init ==
    /\ at = [s \in Session |-> "new"]
    /\ loop = None
    /\ held = {}
    /\ waited = [s \in Session |-> 0]
    /\ code = [s \in Session |-> 0]

Move(s, place) == at' = [at EXCEPT ![s] = place]
Answer(s, c) == code' = [code EXCEPT ![s] = c]

\* The session's statement gets a connection.
Checkout(s) ==
    /\ s \in Waiting /\ ~Full
    /\ held' = held \cup {s}
    /\ waited' = [waited EXCEPT ![s] = 0]
    /\ UNCHANGED <<at, loop, code>>

\* Variant: after its timeout the session waits again.
WaitAgain(s) ==
    /\ s \in Waiting /\ Full /\ waited[s] = PoolTimeout
    /\ waited' = [waited EXCEPT ![s] = 0]
    /\ UNCHANGED <<at, loop, held, code>>

\* pool_timeout passes without a connection: TimeoutError, a 500.  The
\* worker's loop logs it and goes on.
GiveUp(s) ==
    /\ s \in Waiting /\ Full /\ waited[s] = PoolTimeout
    /\ waited' = [waited EXCEPT ![s] = 0]
    /\ IF s \in Drain THEN Move(s, "new") /\ UNCHANGED code
                      ELSE Move(s, "close") /\ Answer(s, 500)
    /\ loop' = IF loop = s THEN None ELSE loop
    /\ UNCHANGED held

-----------------------------------------------------------------------------
\* The loop starts the coroutine; its first statement looks the widget up.
Begin(s) ==
    /\ at[s] = "new" /\ loop = None
    /\ loop' = s
    /\ Move(s, "lookup")
    /\ UNCHANGED <<held, waited, code>>

\* The widget is read.  Spam is recorded and committed, which gives the
\* connection back; a refusal and a replay keep it until the close, and so
\* does a lead for as long as enrich_ip takes.
Decide(s) ==
    /\ at[s] = "lookup" /\ s \in held
    /\ loop' = None
    /\ \/ Move(s, "close") /\ Answer(s, 200) /\ held' \in {held, held \ {s}}
       \/ Move(s, "close") /\ Answer(s, 400) /\ UNCHANGED held
       \/ Move(s, "enrich") /\ UNCHANGED <<held, code>>
    /\ UNCHANGED waited

\* enrich_ip has ended: flush, and commit or roll back, either of which gives
\* the connection back; the refresh, or the lookup of the winner, needs one again.
Resume(s) ==
    /\ at[s] = "enrich" /\ loop = None
    /\ loop' = s
    /\ held' = held \ {s}
    /\ Move(s, "again")
    /\ UNCHANGED <<waited, code>>

\* The last statement has its connection: the handler returns.
Return(s) ==
    /\ at[s] = "again" /\ s \in held
    /\ loop' = IF loop = s THEN None ELSE loop
    /\ Move(s, "close")
    /\ Answer(s, 200)
    /\ UNCHANGED <<held, waited>>

\* Variant: the session is closed where the handler ended.
CloseAnywhere(s) ==
    /\ at[s] = "close"
    /\ Move(s, "closing")
    /\ UNCHANGED <<loop, held, waited, code>>

\* The loop sends the close of get_db to a thread.
Close(s) ==
    /\ at[s] = "close" /\ loop = None
    /\ Move(s, "closing")
    /\ UNCHANGED <<loop, held, waited, code>>

\* Variant: get_db has no finally.
ReleaseAfterSuccess(s) ==
    /\ at[s] = "closing"
    /\ held' = IF code[s] = 200 THEN held \ {s} ELSE held
    /\ Move(s, "done")
    /\ UNCHANGED <<loop, waited, code>>

\* db.close() on that thread.
Release(s) ==
    /\ at[s] = "closing"
    /\ held' = held \ {s}
    /\ Move(s, "done")
    /\ UNCHANGED <<loop, waited, code>>

-----------------------------------------------------------------------------
\* The loop sends the first step of a handler to a thread: current_tenant, or
\* the handler itself where the route is public.
Dispatch(s) ==
    /\ at[s] = "new" /\ loop = None
    /\ \E place \in {"auth", "work"} : Move(s, place)
    /\ UNCHANGED <<loop, held, waited, code>>

\* current_tenant has read the tenant, or refuses.
Authenticate(s) ==
    /\ at[s] = "auth" /\ s \in held
    /\ \/ Move(s, "authed") /\ UNCHANGED code
       \/ Move(s, "close") /\ Answer(s, 400)
    /\ UNCHANGED <<loop, held, waited>>

\* The loop sends the handler to a thread; the session keeps its connection.
Run(s) ==
    /\ at[s] = "authed" /\ loop = None
    /\ Move(s, "work")
    /\ UNCHANGED <<loop, held, waited, code>>

\* The handler reads and returns; or it commits, and returns (delete), or
\* refreshes what it has written (create, update, register).
Work(s) ==
    /\ at[s] = "work" /\ s \in held
    /\ \/ Move(s, "close") /\ Answer(s, 200) /\ held' \in {held, held \ {s}}
       \/ Move(s, "again") /\ held' = held \ {s} /\ UNCHANGED code
    /\ UNCHANGED <<loop, waited>>

\* The loop sends a drain to a thread.
Poll(s) ==
    /\ at[s] = "new" /\ loop = None
    /\ Move(s, "drain")
    /\ UNCHANGED <<loop, held, waited, code>>

\* The batch is committed and the session closed, all on the drain's thread.
Batch(s) ==
    /\ at[s] = "drain" /\ s \in held
    /\ held' = held \ {s}
    /\ Move(s, "new")
    /\ UNCHANGED <<loop, waited, code>>

\* Time passes for those that wait, up to their timeout.
Tick ==
    /\ Waiting # {}
    /\ \A s \in Waiting : waited[s] < PoolTimeout
    /\ waited' = [s \in Session |-> IF s \in Waiting THEN waited[s] + 1 ELSE 0]
    /\ UNCHANGED <<at, loop, held, code>>

Step(s) ==
    \/ Checkout(s) \/ GiveUp(s) \/ Return(s) \/ Close(s) \/ Release(s)
    \/ s \in Submission /\ (Begin(s) \/ Decide(s) \/ Resume(s))
    \/ s \in Handler /\ (Dispatch(s) \/ Authenticate(s) \/ Run(s) \/ Work(s))
    \/ s \in Drain /\ (Poll(s) \/ Batch(s))

Next == Tick \/ \E s \in Session : Step(s)

Spec == Init /\ [][Next]_vars

\* asyncio serves ready tasks in turn: a session on its way that can go on
\* whenever the loop is free does so in the end (SF).  Nobody promises one that
\* waits a connection, but its time runs out (WF).
Fairness ==
    /\ WF_vars(Tick)
    /\ \A s \in Session : /\ SF_vars(at[s] # "new" /\ s \notin Waiting /\ Step(s))
                           /\ WF_vars(Checkout(s) \/ GiveUp(s))

FairSpec == Spec /\ Fairness

-----------------------------------------------------------------------------
\* Every variable has its type, and the pool never hands out more than it has.
TypeOK ==
    /\ at \in [Session -> Place]
    /\ loop \in Submission \cup {None}
    /\ held \subseteq Session /\ Cardinality(held) <= PoolMax
    /\ waited \in [Session -> 0..PoolTimeout]
    /\ code \in [Session -> {0, 200, 400, 500}]

\* Whatever a request ended with, a timeout or a refusal too, its connection
\* goes back: those out are held by sessions still on their way.
NoLeak == \A s \in held : at[s] \notin {"new", "done"}

\* The event loop waits for a connection, and all are held by sessions that
\* can give theirs back only on the event loop.
Stalled == loop \in Waiting /\ Full /\ \A s \in held : at[s] \in OffLoop

\* Such a stall costs a request: nothing ends it before the submission on the
\* loop has failed, whatever the threads do meanwhile.
StallCostsARequest == [][Stalled => Stalled' \/ code'[loop] = 500]_vars

\* The process recovers from every stall: a session that has begun ends, or
\* for a drain goes back to sleep.
EverySessionEnds ==
    \A s \in Session : at[s] \notin {"new", "done"} ~> at[s] \in {"new", "done"}

\* submission_service.py: enrichment degrades, so it cannot "turn a good
\* submission into a failure": no submission fails when nothing is in its way
\* but others that await enrich_ip.
EnrichmentIsAbsorbed ==
    [][\A s \in Submission :
          code[s] # 500 /\ code'[s] = 500 => \E t \in held : at[t] # "enrich"]_vars
===============================================================================
