---------------------------- MODULE MCRateLimiter ----------------------------
(* RateLimiter for TLC: IPs and widgets are interchangeable. *)
EXTENDS RateLimiter, TLC

Symmetry == Permutations(IP) \cup Permutations(Widget)
===============================================================================
