------------------------------ MODULE MCMetrics ------------------------------
(* Bounds for TLC. *)
EXTENDS Metrics, TLC

AnySeats == (SUBSET Seats) \ {{}}

(* Creates, managers and keys are told apart by name only. *)
Interchangeable ==
    Permutations(Creates) \cup Permutations(Manages) \cup Permutations(Keys)
=============================================================================
