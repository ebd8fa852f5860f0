-------------------------- MODULE MCOrderLifecycle --------------------------
(* OrderLifecycle with interchangeable workers, requests and events.       *)
EXTENDS OrderLifecycle, TLC

Symmetry ==
    Permutations(Workers) \cup Permutations(Requests) \cup Permutations(Events)
=============================================================================
