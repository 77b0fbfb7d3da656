------------------------------- MODULE Pipeline -------------------------------
(***************************************************************************)
(* From the visitor's submit to the side effect: the submission endpoint   *)
(* and the outbox composed.                                                *)
(*                                                                         *)
(* The two meet in the outbox rows, which the commit of a lead queues and  *)
(* the delete of a widget withdraws; in the process, which runs one worker *)
(* (app/main.py) and takes it along when it dies; and in PostgreSQL's row  *)
(* locks.  DELETE of a widget locks the widget, then waits for the events  *)
(* some worker has claimed; an INSERT that refers to the widget waits for  *)
(* the DELETE, and with it the event loop of its process.                  *)
(*                                                                         *)
(* The module is the outbox with the endpoint added to it: the outbox's    *)
(* rows are named by lead and type, and each process runs one worker.      *)
(***************************************************************************)
EXTENDS Outbox

CONSTANTS
    Request, Process, Widget, Key, NoKey, BlankKey, EventType, None,
    MaxCrashes, MaxFaults

\* A lead is named by the request that stores it, an outbox row by its lead and
\* its type; every process has a worker.
ASSUME RowAssumption ==
    /\ Lead = Request
    /\ Event = Request \X EventType
    /\ LeadOf = [e \in Event |-> e[1]]
    /\ Worker = Process

VARIABLES
    pc, host, target, key, seen, leadId, fault, loop,
    live, active, notify, rows, events, spamlog, crashes, edits,
    answer,   \* HTTP status of each request, which Submission calls status
    deleting  \* widgets whose DELETE has begun and waits

apiVars == <<pc, host, target, key, seen, answer, leadId, fault, loop,
             live, active, notify, rows, events, spamlog, crashes, edits>>
boxVars == vars
pipeVars == <<apiVars, boxVars, deleting>>

\* Edits of widgets are left out: an event holds a copy of what its handler
\* needs, and Submission covers what a lead owes.
Api == INSTANCE Submission WITH status <- answer, MaxEdits <- 0

PipeInit == Init /\ Api!Init /\ deleting = {}

-----------------------------------------------------------------------------
Arrive(r) == Api!Arrive(r) /\ UNCHANGED <<boxVars, deleting>>

\* Statements that neither refer to a widget nor touch the outbox.
Read(r) ==
    /\ Api!Lookup(r) \/ Api!FindByKey(r) \/ Api!Resume(r) \/ Api!Conflict(r) \/ Api!Refresh(r)
    /\ UNCHANGED <<boxVars, deleting>>

\* An INSERT checks its foreign key: it waits while the widget is being deleted.
Write(r) ==
    /\ target[r] \notin deleting
    /\ Api!Insert(r) \/ Api!RecordSpam(r)
    /\ UNCHANGED <<boxVars, deleting>>

\* Variant: the worker is told of each side effect, and misses one for good
\* when it is down.
StoreUnqueued(r) == Api!Commit(r) /\ UNCHANGED <<boxVars, deleting>>

\* The lead and its outbox rows are committed together.
Store(r) ==
    /\ Api!Commit(r)
    /\ Queue(r, {r} \X Api!Owed(r))
    /\ UNCHANGED deleting

\* A statement fails from outside, also one that waits for a lock.
Fail(r) == Api!Fail(r) /\ UNCHANGED <<boxVars, deleting>>

Serve(r) == Read(r) \/ Write(r) \/ Store(r)

\* DELETE locks the widget's row, once no flushed lead refers to it.
BeginDelete(w) ==
    /\ w \in live \ deleting
    /\ \A r \in Request : Api!Flushed(r) => target[r] # w
    /\ deleting' = deleting \cup {w}
    /\ UNCHANGED <<apiVars, boxVars>>

LeadsOf(w) == {r \in Request : target[r] = w}

\* The cascade has the locks of all rows: it commits.
FinishDelete(w) ==
    /\ w \in deleting
    /\ Api!DeleteWidget(w)
    /\ Withdraw(LeadsOf(w))
    /\ deleting' = deleting \ {w}

Work(p) == Drain(p) /\ UNCHANGED <<apiVars, deleting>>

\* The worker's connection is lost before its commit.
LoseConnection(p) == Rollback(p) /\ UNCHANGED <<apiVars, deleting>>

\* A process dies, its worker and the DELETEs it was running with it.
Crash(p) ==
    /\ Api!Crash(p)
    /\ IF claimed[p] = {} THEN UNCHANGED boxVars ELSE Rollback(p)
    /\ deleting' \in SUBSET deleting

Second == Tick /\ UNCHANGED <<apiVars, deleting>>

\* Bound: a statement fails only where no process dies and no batch is lost.
FaultsComeAlone ==
    (\E r \in Request : fault'[r] # "none") => crashes' = 0 /\ rollbacks' = 0

PipeNext ==
    /\ \/ \E r \in Request : Arrive(r) \/ Serve(r) \/ Fail(r)
       \/ \E w \in Widget : BeginDelete(w) \/ FinishDelete(w)
       \/ \E p \in Process : Work(p) \/ LoseConnection(p) \/ Crash(p)
       \/ Second
    /\ FaultsComeAlone

PipeSpec == PipeInit /\ [][PipeNext]_pipeVars

\* asyncio runs every ready coroutine, enrich_ip ends by its own timeouts, a
\* handler by its own; the worker's loop goes on after an exception, and a
\* process that died is restarted.  PostgreSQL wakes an INSERT or a DELETE when
\* the last lock it waits for is released.
Fairness ==
    /\ \A r \in Request : WF_pipeVars(Serve(r))
    /\ \A p \in Process : WF_pipeVars(Work(p))
    /\ \A w \in Widget : WF_pipeVars(FinishDelete(w))
    /\ WF_pipeVars(Second)

PipeFairSpec == PipeSpec /\ Fairness

-----------------------------------------------------------------------------
\* A side effect happens only while its lead is stored: not before the commit,
\* not after a delete, and a delete cannot overtake a batch that has begun.
PerformedWhileStored ==
    [][\A e \in Event : performed'[e] # performed[e] => e[1] \in rows]_pipeVars

\* What a stored lead owes is delivered, dead-lettered or withdrawn with its
\* widget, across crashes of the process that took it, and also if its client
\* was never told of it: a lead left behind a 500 is followed up like any other.
LeadIsFollowedUp ==
    \A r \in Request, t \in EventType :
        r \in rows /\ t \in seen[r] ~> status[<<r, t>>] \in {"delivered", "failed", "gone"}

\* Every request is answered unless its process dies, also one whose INSERT
\* waits for a DELETE that waits for a worker's batch.
RequestAnswered == Api!EveryRequestAnswered
===============================================================================
