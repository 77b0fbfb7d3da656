---------------------------- MODULE MCSubmission ----------------------------
(* Submission for TLC: requests, processes and widgets are interchangeable. *)
EXTENDS Submission, TLC

Symmetry ==
    Permutations(Request) \cup Permutations(Process) \cup Permutations(Widget)
=============================================================================
