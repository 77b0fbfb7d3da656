------------------------------- MODULE MCOutbox -------------------------------
(* Outbox for TLC: how the events are spread over the leads. *)
EXTENDS Outbox, TLC

CONSTANTS l1, l2, e1, e2, e3

\* One lead owes an e-mail and a webhook.
OneLead == [e \in Event |-> l1]

\* The first lead owes one side effect, the second lead the others.
TwoLeads == [e \in Event |-> IF e = e1 THEN l1 ELSE l2]

Symmetry == Permutations(Worker)
===============================================================================
