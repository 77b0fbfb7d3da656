----------------------------- MODULE SideEffects -----------------------------
(***************************************************************************)
(* What the outbox promises, with workers, claims and transactions left    *)
(* out: a queued side effect is tried until it is delivered or has used up *)
(* its attempts; it is performed only while it is pending, so never after  *)
(* it was delivered, given up or withdrawn with its lead; and nothing is   *)
(* reported delivered that was not performed.                              *)
(***************************************************************************)
EXTENDS Naturals

CONSTANTS Event, MaxAttempts

VARIABLES
    status,    \* fate of each side effect
    attempts,  \* recorded attempts
    performed  \* how often the outside world has seen it

avars == <<status, attempts, performed>>

AInit ==
    /\ status = [e \in Event |-> "absent"]
    /\ attempts = [e \in Event |-> 0]
    /\ performed = [e \in Event |-> 0]

Enqueue(S) ==
    /\ \A e \in S : status[e] = "absent"
    /\ status' = [e \in Event |-> IF e \in S THEN "pending" ELSE status[e]]
    /\ UNCHANGED <<attempts, performed>>

Perform(e) ==
    /\ status[e] = "pending"
    /\ performed' = [performed EXCEPT ![e] = @ + 1]
    /\ UNCHANGED <<status, attempts>>

\* One more attempt of every event of S is on record.
Record(S) ==
    /\ \A e \in S :
          /\ status[e] = "pending"
          /\ \/ status'[e] = "delivered" /\ performed[e] > 0
             \/ status'[e] = "failed" /\ attempts[e] + 1 = MaxAttempts
             \/ status'[e] = "pending" /\ attempts[e] + 1 < MaxAttempts
    /\ \A e \in Event \ S : status'[e] = status[e]
    /\ attempts' = [e \in Event |-> IF e \in S THEN attempts[e] + 1 ELSE attempts[e]]
    /\ UNCHANGED performed

Withdraw(S) ==
    /\ status' = [e \in Event |-> IF e \in S THEN "gone" ELSE status[e]]
    /\ UNCHANGED <<attempts, performed>>

ANext ==
    \/ \E e \in Event : Perform(e)
    \/ \E S \in SUBSET Event : Enqueue(S) \/ Record(S) \/ Withdraw(S)

ASpec == AInit /\ [][ANext]_avars
==============================================================================
