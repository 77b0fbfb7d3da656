----------------------------- MODULE MCDashboard -----------------------------
(* Dashboard for TLC: two widgets of one tenant, one of another. *)
EXTENDS Dashboard, TLC

CONSTANTS t1, t2, w1, w2, w3

Owners == (w1 :> t1) @@ (w2 :> t1) @@ (w3 :> t2)
Symmetry == Permutations({w1, w2})
===============================================================================
