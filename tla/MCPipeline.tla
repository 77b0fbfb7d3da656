------------------------------ MODULE MCPipeline ------------------------------
(* Pipeline for TLC: the names of the outbox's rows. *)
EXTENDS Pipeline

Rows == Request \X EventType
Leads == Request
LeadOfRow == [e \in Request \X EventType |-> e[1]]
Workers == Process
===============================================================================
