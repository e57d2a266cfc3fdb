------------------------------- MODULE Tables -------------------------------
(***************************************************************************)
(* The seats, reservations and reservation_seats tables of one event, the  *)
(* statements the repositories issue on them (seat_repository.go,          *)
(* reservation_repository.go) and the three transactions these are put     *)
(* together to, each as the one step in which it commits.                  *)
(***************************************************************************)
EXTENDS Naturals, FiniteSets

CONSTANTS
    Creates,    \* the requests that create a reservation; each names its row
    Seats,      \* the seats of the event
    Late,       \* those of them that are added while it is on sale
    Keys,       \* the idempotency keys clients send
    Wanted,     \* the sets of seats clients ask for
    None        \* NULL

ASSUME SeatsAssumption ==
    IsFiniteSet(Seats) /\ Late \subseteq Seats /\ Wanted \subseteq (SUBSET Seats) \ {{}}
ASSUME RowsAssumption == None \notin Creates

VARIABLES
    status,      \* reservations.status by reservation, "none" without a row
    seatStatus,  \* seats.status, "none" without a row
    reservedBy,  \* seats.reserved_by
    key,         \* a create's idempotency key, then its row's
    wants        \* a create's seat ids, then its row's reservation_seats

tables == <<status, seatStatus, reservedBy, key, wants>>

Statuses     == {"none", "pending", "confirmed", "cancelled"}
SeatStatuses == {"none", "available", "reserved", "confirmed"}

Exists(r) == status[r] # "none"
Live(r)   == status[r] \in {"pending", "confirmed"}

Available == {s \in Seats : seatStatus[s] = "available"}
Reserved  == {s \in Seats : seatStatus[s] = "reserved"}

KeyTaken(k) == \E r \in Creates : Exists(r) /\ key[r] = k

(* Statements.  ReserveSeats and ConfirmSeats fail when they match fewer rows *)
(* than ids; ReleaseSeats matches rows whatever their status and holder, and   *)
(* a reservation's seats exist (reservation_seats refers to them).            *)
(* Operators whose names begin with Mutant are faults that could be made in   *)
(* the definition below them; no specification uses them.                     *)

SetStatus(S, st) == [s \in Seats |-> IF s \in S THEN st ELSE seatStatus[s]]
SetHolder(S, r)  == [s \in Seats |-> IF s \in S THEN r ELSE reservedBy[s]]

MutantReserveFewer(S, r) ==     \* the rows matched are not counted
    /\ seatStatus' = SetStatus(S \cap Available, "reserved")
    /\ reservedBy' = SetHolder(S \cap Available, r)

MutantReserveAny(S, r) ==       \* no "AND status = 'available'"
    /\ seatStatus' = SetStatus(S, "reserved")
    /\ reservedBy' = SetHolder(S, r)

ReserveSeats(S, r) ==
    /\ S \subseteq Available
    /\ seatStatus' = SetStatus(S, "reserved")
    /\ reservedBy' = SetHolder(S, r)

ConfirmSeats(S) ==
    /\ S \subseteq Reserved
    /\ seatStatus' = SetStatus(S, "confirmed")
    /\ UNCHANGED reservedBy

MutantReleaseReserved(S) ==     \* "AND status = 'reserved'" added
    /\ seatStatus' = SetStatus(S \cap Reserved, "available")
    /\ reservedBy' = SetHolder(S \cap Reserved, None)

MutantReleaseStatus(S) ==       \* the reservation's status written to the seat
    /\ seatStatus' = SetStatus(S, "cancelled")
    /\ reservedBy' = SetHolder(S, None)

MutantReleaseHeld(S) ==         \* reserved_by not reset
    /\ seatStatus' = SetStatus(S, "available")
    /\ UNCHANGED reservedBy

ReleaseSeats(S) ==
    /\ seatStatus' = SetStatus(S, "available")
    /\ reservedBy' = SetHolder(S, None)

(* INSERT INTO seats, one or a batch: they are available. *)
InsertSeats(S) ==
    /\ S # {} /\ \A s \in S : seatStatus[s] = "none"
    /\ seatStatus' = SetStatus(S, "available")
    /\ UNCHANGED reservedBy

(* INSERT INTO reservations: idempotency_key is UNIQUE. *)
MutantInsertAnyKey(r) ==        \* without the UNIQUE constraint
    status' = [status EXCEPT ![r] = "pending"]

InsertReservation(r) ==
    /\ ~KeyTaken(key[r])
    /\ status' = [status EXCEPT ![r] = "pending"]

(* UPDATE reservations SET status ... WHERE id = r, whatever the row says by now. *)
UpdateReservation(r, st) == status' = [status EXCEPT ![r] = st]

-----------------------------------------------------------------------------
(* The transactions. *)

MutantConfirmTx(r) ==           \* the seats are left reserved
    UpdateReservation(r, "confirmed") /\ UNCHANGED <<seatStatus, reservedBy>>

MutantCancelTx(r) ==            \* the seats are left to the cancelled reservation
    UpdateReservation(r, "cancelled") /\ UNCHANGED <<seatStatus, reservedBy>>

MutantDeleteTx(r) ==            \* the row is deleted instead of cancelled
    ReleaseSeats(wants[r]) /\ UpdateReservation(r, "none")

CreateTx(r)  == InsertReservation(r) /\ ReserveSeats(wants[r], r)
ConfirmTx(r) == ConfirmSeats(wants[r]) /\ UpdateReservation(r, "confirmed")
CancelTx(r)  == ReleaseSeats(wants[r]) /\ UpdateReservation(r, "cancelled")

(* A create settles its key and its seats before it has a row. *)
Ask(c, k, S) ==
    /\ key' = [key EXCEPT ![c] = k]
    /\ wants' = [wants EXCEPT ![c] = S]

TablesInit ==
    /\ status = [r \in Creates |-> "none"]
    /\ seatStatus = [s \in Seats |-> IF s \in Late THEN "none" ELSE "available"]
    /\ reservedBy = [s \in Seats |-> None]
    /\ key = [c \in Creates |-> None]
    /\ wants = [c \in Creates |-> {}]

TablesNext ==
    \/ \E r \in Creates :
        \/ /\ ~Exists(r)
           /\ \E k \in Keys, S \in Wanted : Ask(r, k, S)
           /\ UNCHANGED <<status, seatStatus, reservedBy>>
        \/ ~Exists(r) /\ CreateTx(r) /\ UNCHANGED <<key, wants>>
        \/ Exists(r) /\ ConfirmTx(r) /\ UNCHANGED <<key, wants>>
        \/ Exists(r) /\ CancelTx(r) /\ UNCHANGED <<key, wants>>
    \/ \E S \in SUBSET Late : InsertSeats(S) /\ UNCHANGED <<status, key, wants>>

(* Any transactions, one after the other. *)
TablesSpec == TablesInit /\ [][TablesNext]_tables

-----------------------------------------------------------------------------
(* reserved_by and status of a seat agree, and a seat is never left with a   *)
(* reservation that is cancelled or did not ask for it: whatever confirms,    *)
(* cancels and cleaners overlap, every cancel frees all it may still hold.   *)
HoldersAreLive ==
    \A s \in Seats :
        IF reservedBy[s] = None
        THEN seatStatus[s] \in {"none", "available"}
        ELSE /\ seatStatus[s] \in {"reserved", "confirmed"}
             /\ Live(reservedBy[s])
             /\ s \in wants[reservedBy[s]]

(* A seat that is only reserved is held by a reservation that is still        *)
(* pending, the only ones the cleaner looks for: no seat is reserved forever. *)
ReservedSeatsArePending ==
    \A s \in Seats : seatStatus[s] = "reserved" => status[reservedBy[s]] = "pending"
=============================================================================
