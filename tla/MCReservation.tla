---------------------------- MODULE MCReservation ----------------------------
(* Instances of Reservation for TLC. *)
EXTENDS Reservation, TLC

(* Any nonempty set of seats can be asked for. *)
AnySeats == (SUBSET Seats) \ {{}}

(* Requests of one kind, seats, keys and cleaners are told apart by name only. *)
Interchangeable ==
    Permutations(Creates) \cup Permutations(Manages) \cup Permutations(Seats)
        \cup Permutations(Keys) \cup Permutations(Cleaners)
=============================================================================
