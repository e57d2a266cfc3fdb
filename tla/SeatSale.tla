------------------------------ MODULE SeatSale ------------------------------
(* What the system promises its users: seats are taken together by one       *)
(* reservation, and leave it only when that reservation is cancelled before  *)
(* it was confirmed.  A confirmed reservation keeps its seats for good.      *)
CONSTANTS Reservations, Seats, None

VARIABLES state,    \* each reservation's status
          owner     \* each seat's reservation, or None

vars == <<state, owner>>

Init ==
    /\ state = [r \in Reservations |-> "none"]
    /\ owner = [s \in Seats |-> None]

Give(S, r) == owner' = [s \in Seats |-> IF s \in S THEN r ELSE owner[s]]

Book(r, S) ==
    /\ state[r] = "none"
    /\ \A s \in S : owner[s] = None
    /\ state' = [state EXCEPT ![r] = "pending"]
    /\ Give(S, r)

Sell(r) ==
    /\ state[r] = "pending"
    /\ state' = [state EXCEPT ![r] = "confirmed"]
    /\ UNCHANGED owner

Drop(r) ==
    /\ state[r] = "pending"
    /\ state' = [state EXCEPT ![r] = "cancelled"]
    /\ Give({s \in Seats : owner[s] = r}, None)

Next ==
    \E r \in Reservations :
        \/ \E S \in SUBSET Seats : S # {} /\ Book(r, S)
        \/ Sell(r)
        \/ Drop(r)

Spec == Init /\ [][Next]_vars
=============================================================================
