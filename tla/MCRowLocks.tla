----------------------------- MODULE MCRowLocks -----------------------------
(* Instances of RowLocks for TLC. *)
EXTENDS RowLocks

CONSTANTS c1, c2, m1, m2

(* Three transactions of one server compete for its two connections, while    *)
(* the other server's locks the same rows.                                    *)
TwoServers == {{c1, m1, m2}, {c2}}

AnySeats == (SUBSET Seats) \ {{}}
=============================================================================
