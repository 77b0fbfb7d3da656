-------------------------------- MODULE Outbox --------------------------------
(***************************************************************************)
(* The outbox table and the workers that drain it                          *)
(* (app/outbox/worker.py, app/outbox/handlers.py).                         *)
(*                                                                         *)
(* A worker drains in one transaction: it claims a batch of due events     *)
(* with FOR UPDATE SKIP LOCKED, calls the handler of each, and commits     *)
(* once at the end.  Until then its outcomes are a draft in its session,   *)
(* while what the handlers did to the outside world is done.  A crash or a *)
(* failing commit rolls the whole batch back.  Deleting a widget cascades  *)
(* to the events of its leads and waits for their row locks.               *)
(*                                                                         *)
(* next_attempt_at is kept relative to now: a wait that counts down, due   *)
(* when it is not positive.  Past -MaxLate it no longer counts, so events  *)
(* overdue by more than that may be taken in any order.                    *)
(***************************************************************************)
EXTENDS Integers, FiniteSets

CONSTANTS
    Event,        \* outbox rows
    Lead,         \* submissions
    LeadOf,       \* the submission each event belongs to
    Worker,       \* drains that may run at the same time
    MaxAttempts,  \* settings.outbox_max_attempts
    Base,         \* settings.outbox_backoff_base_seconds
    Limit,        \* batch size of a claim
    MaxLate,      \* bound on how far overdue is counted
    MaxRollbacks  \* bound on rolled back batches

\* settings.outbox_backoff_base_seconds ** max(1, attempts)
Backoff(n) == IF n > 1 THEN Base ^ n ELSE Base

ASSUME LeadOfAssumption == LeadOf \in [Event -> Lead]
ASSUME AttemptsAssumption == MaxAttempts \in Nat \ {0}
ASSUME BackoffAssumption == \A n \in 1..MaxAttempts : Backoff(n) \in Nat
ASSUME BoundAssumption == Limit \in Nat \ {0} /\ MaxLate \in Nat /\ MaxRollbacks \in Nat

VARIABLES
    status,     \* committed status: absent, pending, delivered, failed, gone
    attempts,   \* committed attempts
    wait,       \* committed next_attempt_at, relative to now
    claimed,    \* rows each worker's transaction has locked
    todo,       \* those it has not handled yet
    draft,      \* outcomes in each worker's session
    performed,  \* how often the outside world has seen each side effect
    unrecorded, \* how many of those no delivery on record stands for
    rollbacks

tableVars == <<status, attempts, wait>>
sessionVars == <<claimed, todo, draft>>
worldVars == <<performed, unrecorded>>
vars == <<status, attempts, wait, claimed, todo, draft, performed, unrecorded, rollbacks>>

Final == {"delivered", "failed"}
Status == {"absent", "pending", "gone"} \cup Final
Row == [status : Status, attempts : Nat, wait : Int]

\* A committed row as the claim reads it.
RowOf(e) == [status |-> status[e], attempts |-> attempts[e], wait |-> wait[e]]

\* A session that has read nothing.
NoDraft == [e \in Event |-> [status |-> "absent", attempts |-> 0, wait |-> 0]]

\* Variant: a plain SELECT, without FOR UPDATE.
NeverLocked(e) == FALSE

\* FOR UPDATE: the rows a transaction has claimed are locked until it ends.
Locked(e) == \E w \in Worker : e \in claimed[w]

\* Variant: the claim does not filter on the status.
DueAnyStatus(e) == status[e] \notin {"absent", "gone"} /\ wait[e] <= 0

Due(e) == status[e] = "pending" /\ wait[e] <= 0

Init ==
    /\ status = [e \in Event |-> "absent"]
    /\ attempts = [e \in Event |-> 0]
    /\ wait = [e \in Event |-> 0]
    /\ claimed = [w \in Worker |-> {}]
    /\ todo = [w \in Worker |-> {}]
    /\ draft = [w \in Worker |-> NoDraft]
    /\ performed = [e \in Event |-> 0]
    /\ unrecorded = [e \in Event |-> 0]
    /\ rollbacks = 0

-----------------------------------------------------------------------------
\* The commit of a submission queues the events it owes, due at once.
Queue(l, owed) ==
    /\ \A e \in Event : LeadOf[e] = l => status[e] = "absent"
    /\ \A e \in owed : LeadOf[e] = l
    /\ status' = [e \in Event |-> IF e \in owed THEN "pending" ELSE status[e]]
    /\ wait' = [e \in Event |-> IF e \in owed THEN 0 ELSE wait[e]]
    /\ UNCHANGED <<attempts, sessionVars, worldVars, rollbacks>>

\* claim_due_events: lock the longest overdue, at most Limit of them,
\* stepping over rows locked by others.
Claim(w) ==
    /\ claimed[w] = {}
    /\ LET free == {e \in Event : Due(e) /\ ~Locked(e)}
       IN  \E batch \in SUBSET free \ {{}} :
             /\ Cardinality(batch) <= Limit
             /\ batch # free => Cardinality(batch) = Limit
             /\ \A e \in batch, f \in free \ batch : wait[e] <= wait[f]
             /\ claimed' = [claimed EXCEPT ![w] = batch]
             /\ todo' = [todo EXCEPT ![w] = batch]
             /\ draft' = [draft EXCEPT ![w] =
                            [e \in Event |-> IF e \in batch THEN RowOf(e) ELSE NoDraft[e]]]
    /\ UNCHANGED <<tableVars, worldVars, rollbacks>>

\* Variant: dead-letters one attempt late.
FailedLate(row) ==
    LET n == row.attempts + 1
    IN  IF n > MaxAttempts
        THEN [row EXCEPT !.attempts = n, !.status = "failed"]
        ELSE [row EXCEPT !.attempts = n, !.wait = Backoff(n)]

\* Variant: the outcome "retry" is stored as the status.
FailedAsRetry(row) ==
    [row EXCEPT !.attempts = @ + 1, !.status = "retry", !.wait = Backoff(row.attempts + 1)]

\* process_event after an exception: dead-letter the event, or back off.
AfterFailure(row) ==
    LET n == row.attempts + 1
    IN  IF n >= MaxAttempts
        THEN [row EXCEPT !.attempts = n, !.status = "failed"]
        ELSE [row EXCEPT !.attempts = n, !.wait = Backoff(n)]

AfterSuccess(row) == [row EXCEPT !.attempts = @ + 1, !.status = "delivered"]

\* The handler of the next event of the batch completes, raises before it has
\* had an effect, or raises although it had one (the answer of the webhook or
\* of the mail server is lost).
Handle(w, e) ==
    /\ e \in todo[w]
    /\ \A f \in todo[w] : draft[w][e].wait <= draft[w][f].wait
    /\ todo' = [todo EXCEPT ![w] = @ \ {e}]
    /\ \/ /\ performed' = [performed EXCEPT ![e] = @ + 1]
          /\ draft' = [draft EXCEPT ![w][e] = AfterSuccess(@)]
          /\ UNCHANGED unrecorded
       \/ /\ draft' = [draft EXCEPT ![w][e] = AfterFailure(@)]
          /\ UNCHANGED worldVars
       \/ /\ performed' = [performed EXCEPT ![e] = @ + 1]
          /\ unrecorded' = [unrecorded EXCEPT ![e] = @ + 1]
          /\ draft' = [draft EXCEPT ![w][e] = AfterFailure(@)]
    /\ UNCHANGED <<tableVars, claimed, rollbacks>>

\* The batch's one commit: every draft becomes the row, the locks go.
Commit(w) ==
    /\ claimed[w] # {}
    /\ todo[w] = {}
    /\ LET row(e) == IF e \in claimed[w] THEN draft[w][e] ELSE RowOf(e)
       IN  /\ status' = [e \in Event |-> row(e).status]
           /\ attempts' = [e \in Event |-> row(e).attempts]
           /\ wait' = [e \in Event |-> row(e).wait]
    /\ claimed' = [claimed EXCEPT ![w] = {}]
    /\ draft' = [draft EXCEPT ![w] = NoDraft]
    /\ UNCHANGED <<todo, worldVars, rollbacks>>

\* The process dies or the connection is lost before the commit: the locks go
\* and the drafts are lost, a delivery among them stays unrecorded.
Rollback(w) ==
    /\ claimed[w] # {}
    /\ rollbacks < MaxRollbacks
    /\ rollbacks' = rollbacks + 1
    /\ unrecorded' = [e \in Event |->
          IF e \in claimed[w] \ todo[w] /\ draft[w][e].status = "delivered"
          THEN unrecorded[e] + 1 ELSE unrecorded[e]]
    /\ claimed' = [claimed EXCEPT ![w] = {}]
    /\ todo' = [todo EXCEPT ![w] = {}]
    /\ draft' = [draft EXCEPT ![w] = NoDraft]
    /\ UNCHANGED <<tableVars, performed>>

\* Variant: rows go although a transaction has them locked.
WithdrawAtOnce(leads) ==
    /\ status' = [e \in Event |-> IF LeadOf[e] \in leads THEN "gone" ELSE status[e]]
    /\ UNCHANGED <<attempts, wait, sessionVars, worldVars, rollbacks>>

\* The tenant deletes a widget: its leads and their events go, stored already
\* or not; the cascade waits for locked events.
Withdraw(leads) ==
    /\ \A e \in Event : LeadOf[e] \in leads => ~Locked(e)
    /\ status' = [e \in Event |-> IF LeadOf[e] \in leads THEN "gone" ELSE status[e]]
    /\ UNCHANGED <<attempts, wait, sessionVars, worldVars, rollbacks>>

\* One second passes.
Sooner(t) == IF t > -MaxLate THEN t - 1 ELSE t

Tick ==
    /\ wait' = [e \in Event |->
                  IF status[e] = "pending" THEN Sooner(wait[e]) ELSE wait[e]]
    /\ draft' = [w \in Worker |-> [e \in Event |->
                  IF e \in claimed[w] /\ draft[w][e].status = "pending"
                  THEN [draft[w][e] EXCEPT !.wait = Sooner(@)] ELSE draft[w][e]]]
    /\ UNCHANGED <<status, attempts, claimed, todo, worldVars, rollbacks>>

Drain(w) == Claim(w) \/ Commit(w) \/ \E e \in Event : Handle(w, e)

Next ==
    \/ \E w \in Worker : Drain(w) \/ Rollback(w)
    \/ \E l \in Lead, owed \in SUBSET Event : Queue(l, owed)
    \/ \E leads \in SUBSET Lead : Withdraw(leads)
    \/ Tick

Spec == Init /\ [][Next]_vars

-----------------------------------------------------------------------------
\* The columns hold what models.py says they do: of the three outcomes of
\* process_event only two are statuses, "retry" is never stored.
TypeOK ==
    /\ status \in [Event -> Status]
    /\ attempts \in [Event -> Nat]
    /\ wait \in [Event -> Int]
    /\ claimed \in [Worker -> SUBSET Event]
    /\ todo \in [Worker -> SUBSET Event]
    /\ draft \in [Worker -> [Event -> Row]]
    /\ performed \in [Event -> Nat]
    /\ unrecorded \in [Event -> Nat]
    /\ rollbacks \in 0..MaxRollbacks

\* The recorded attempts tell where an event is: a pending one has some left,
\* a dead letter has used up exactly its attempts, whatever was rolled back.
AttemptsBounded ==
    \A e \in Event :
        /\ status[e] = "pending" => attempts[e] < MaxAttempts
        /\ status[e] = "failed" => attempts[e] = MaxAttempts
        /\ status[e] = "delivered" => attempts[e] \in 1..MaxAttempts

\* No delivery is recorded that did not happen.
DeliveredWasPerformed ==
    \A e \in Event : status[e] = "delivered" => performed[e] > 0

\* worker.py: "several workers can run without ever handling the same event
\* twice".  A side effect happens a second time only if an earlier time went
\* unrecorded: its answer was lost or its batch was rolled back.
OnceUnlessUnrecorded ==
    \A e \in Event : performed[e] <= unrecorded[e] + 1

\* Nothing is sent for an event that is settled or whose lead is deleted.
PerformedOnlyWhilePending ==
    [][\A e \in Event : performed'[e] # performed[e] => status[e] = "pending"]_vars

\* A settled event is never touched again, except by the cascade.
SettledIsFinal ==
    [][\A e \in Event :
          status[e] \in Final =>
              /\ status'[e] \in {status[e], "gone"}
              /\ attempts'[e] = attempts[e]]_vars

\* The workers implement the abstract outbox: claims, drafts and clocks left out.
Promise == INSTANCE SideEffects
    WITH Event <- Event, MaxAttempts <- MaxAttempts,
         status <- status, attempts <- attempts, performed <- performed
PromiseSpec == Promise!ASpec
===============================================================================
