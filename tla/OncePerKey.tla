----------------------------- MODULE OncePerKey -----------------------------
(* What an idempotency key promises to clients that send it again and again: *)
(* at most one reservation is ever made with it, that one stays, and every   *)
(* request with it is told of that one, once, or of a failure that says      *)
(* nothing.                                                                  *)
CONSTANTS Requests, Keys, None, Failed

VARIABLES asked,    \* the key a request came with, None before it came
          made,     \* the reservations made with a key, each named by its request
          told      \* the answer a request went home with, or None

vars == <<asked, made, told>>

Init ==
    /\ asked = [c \in Requests |-> None]
    /\ made = [k \in Keys |-> {}]
    /\ told = [c \in Requests |-> None]

Under(c) == asked[c] \in Keys /\ told[c] = None

(* A request comes; it may be told at once of what its key has made. *)
Ask(c, k) ==
    /\ asked[c] = None
    /\ asked' = [asked EXCEPT ![c] = k]
    /\ \E a \in made[k] \cup {None} : told' = [told EXCEPT ![c] = a]
    /\ UNCHANGED made

Make(c) ==
    /\ Under(c)
    /\ made[asked[c]] = {}
    /\ made' = [made EXCEPT ![asked[c]] = {c}]
    /\ UNCHANGED <<asked, told>>

Tell(c) ==
    /\ Under(c)
    /\ \E a \in made[asked[c]] \cup {Failed} : told' = [told EXCEPT ![c] = a]
    /\ UNCHANGED <<asked, made>>

Next ==
    \E c \in Requests :
        \/ \E k \in Keys : Ask(c, k)
        \/ Make(c)
        \/ Tell(c)

Spec == Init /\ [][Next]_vars
=============================================================================
