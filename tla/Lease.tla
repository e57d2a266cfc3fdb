-------------------------------- MODULE Lease --------------------------------
(* What a lock with a TTL promises to those who ask for it: a lease of at     *)
(* most TTL is granted while nobody has one, may be renewed by its holder,    *)
(* and ends when the holder gives it back or its time is over.                *)
EXTENDS Naturals

CONSTANTS Clients, TTL, None

VARIABLES holder,   \* the client that has a lease, or None
          left      \* how long the lease lasts

vars == <<holder, left>>

Init == holder = None /\ left = 0

Grant(c) ==
    /\ holder \in {None, c}
    /\ holder' = c
    /\ left' \in 1 .. TTL

GiveBack ==
    /\ holder # None
    /\ holder' = None /\ left' = 0

Pass ==
    /\ left > 0
    /\ left' = left - 1
    /\ holder' = IF left = 1 THEN None ELSE holder

Next == (\E c \in Clients : Grant(c)) \/ GiveBack \/ Pass

Spec == Init /\ [][Next]_vars
=============================================================================
