----------------------------- MODULE TablesProofs -----------------------------
(* What holds of the tables under any sequence of whole transactions, for any *)
(* numbers of reservations, seats and keys.  Whatever implements TablesSpec   *)
(* has it for nothing: Reservation, transaction by transaction, and RowLocks, *)
(* row by row.                                                                *)
EXTENDS Tables, TLAPS

RowsOK ==
    /\ status \in [Creates -> Statuses]
    /\ seatStatus \in [Seats -> SeatStatuses]
    /\ reservedBy \in [Seats -> Creates \cup {None}]
    /\ key \in [Creates -> Keys \cup {None}]
    /\ wants \in [Creates -> Wanted \cup {{}}]

(* The seats of a reservation exist: reservation_seats refers to them. *)
SeatsExist == \A r \in Creates : Exists(r) => \A s \in wants[r] : seatStatus[s] # "none"

(* No two reservations have one key. *)
KeysAreUnique == \A r, q \in Creates : Exists(r) /\ Exists(q) /\ key[r] = key[q] => r = q

TablesInv == RowsOK /\ HoldersAreLive /\ ReservedSeatsArePending /\ SeatsExist /\ KeysAreUnique

LEMMA TablesInvInit == TablesInit => TablesInv
  BY DEF TablesInit, TablesInv, RowsOK, HoldersAreLive, ReservedSeatsArePending, SeatsExist,
         KeysAreUnique, Exists, Statuses, SeatStatuses

(* A create settles its key and seats: it has no row that could have others. *)
LEMMA AskKeepsInv ==
  ASSUME TablesInv, NEW r \in Creates, ~Exists(r), NEW k \in Keys, NEW S \in Wanted, Ask(r, k, S),
         UNCHANGED <<status, seatStatus, reservedBy>>
  PROVE  TablesInv'
  <1> USE RowsAssumption DEF TablesInv, RowsOK, Exists, Live, Ask
  <1>1. RowsOK'
    OBVIOUS
  <1>2. HoldersAreLive' /\ ReservedSeatsArePending'
    BY DEF HoldersAreLive, ReservedSeatsArePending
  <1>3. SeatsExist' /\ KeysAreUnique'
    BY DEF SeatsExist, KeysAreUnique
  <1>4. QED
    BY <1>1, <1>2, <1>3

(* A commit takes seats nobody holds, for a key nobody has. *)
LEMMA CreateKeepsInv ==
  ASSUME TablesInv, NEW r \in Creates, ~Exists(r), CreateTx(r), UNCHANGED <<key, wants>>
  PROVE  TablesInv'
  <1> USE RowsAssumption, SeatsAssumption
      DEF TablesInv, RowsOK, Exists, Live, CreateTx, InsertReservation, ReserveSeats, Available,
          SetStatus, SetHolder, Statuses, SeatStatuses
  <1>1. RowsOK'
    OBVIOUS
  <1>2. wants[r] \subseteq Seats /\ \A s \in Seats : reservedBy[s] # r
    BY DEF HoldersAreLive
  <1>3. HoldersAreLive' /\ ReservedSeatsArePending'
    BY <1>2 DEF HoldersAreLive, ReservedSeatsArePending
  <1>4. SeatsExist' /\ KeysAreUnique'
    BY DEF SeatsExist, KeysAreUnique, KeyTaken
  <1>5. QED
    BY <1>1, <1>3, <1>4

(* A confirm confirms every seat its reservation may hold, whoever holds them: *)
(* those it holds are among those it asked for.                                *)
LEMMA ConfirmKeepsInv ==
  ASSUME TablesInv, NEW r \in Creates, Exists(r), ConfirmTx(r), UNCHANGED <<key, wants>>
  PROVE  TablesInv'
  <1> USE RowsAssumption, SeatsAssumption
      DEF TablesInv, RowsOK, Exists, Live, ConfirmTx, ConfirmSeats, UpdateReservation, Reserved,
          SetStatus, Statuses, SeatStatuses
  <1>1. RowsOK'
    OBVIOUS
  <1>2. HoldersAreLive' /\ ReservedSeatsArePending'
    BY DEF HoldersAreLive, ReservedSeatsArePending
  <1>3. SeatsExist' /\ KeysAreUnique'
    BY DEF SeatsExist, KeysAreUnique
  <1>4. QED
    BY <1>1, <1>2, <1>3

(* A cancel frees every seat its reservation may hold, and maybe those of others. *)
LEMMA CancelKeepsInv ==
  ASSUME TablesInv, NEW r \in Creates, Exists(r), CancelTx(r), UNCHANGED <<key, wants>>
  PROVE  TablesInv'
  <1> USE RowsAssumption, SeatsAssumption
      DEF TablesInv, RowsOK, Exists, Live, CancelTx, ReleaseSeats, UpdateReservation,
          SetStatus, SetHolder, Statuses, SeatStatuses
  <1>1. RowsOK'
    OBVIOUS
  <1>2. HoldersAreLive' /\ ReservedSeatsArePending'
    BY DEF HoldersAreLive, ReservedSeatsArePending
  <1>3. SeatsExist' /\ KeysAreUnique'
    BY DEF SeatsExist, KeysAreUnique
  <1>4. QED
    BY <1>1, <1>2, <1>3

LEMMA AddKeepsInv ==
  ASSUME TablesInv, NEW S \in SUBSET Late, InsertSeats(S), UNCHANGED <<status, key, wants>>
  PROVE  TablesInv'
  BY SeatsAssumption, RowsAssumption
     DEF TablesInv, RowsOK, HoldersAreLive, ReservedSeatsArePending, SeatsExist, KeysAreUnique,
         Exists, Live, InsertSeats, SetStatus, SeatStatuses

LEMMA TablesInvStep == TablesInv /\ [TablesNext]_tables => TablesInv'
  <1> SUFFICES ASSUME TablesInv, [TablesNext]_tables PROVE TablesInv'
    OBVIOUS
  <1>1. CASE UNCHANGED tables
    BY <1>1 DEF tables, TablesInv, RowsOK, HoldersAreLive, ReservedSeatsArePending, SeatsExist,
                KeysAreUnique, Exists, Live
  <1>2. QED
    BY <1>1, AskKeepsInv, CreateKeepsInv, ConfirmKeepsInv, CancelKeepsInv, AddKeepsInv
       DEF TablesNext

LEMMA TablesInvHolds == TablesSpec => []TablesInv
  BY TablesInvInit, TablesInvStep, PTL DEF TablesSpec

(* Whatever transactions do one after the other, stale or not, a seat is never  *)
(* left with a dead reservation, nor reserved for one that is no longer pending. *)
THEOREM TablesKeepHolders == TablesSpec => [](HoldersAreLive /\ ReservedSeatsArePending)
  <1>1. TablesInv => HoldersAreLive /\ ReservedSeatsArePending
    BY DEF TablesInv
  <1>2. QED
    BY <1>1, TablesInvHolds, PTL
=============================================================================
