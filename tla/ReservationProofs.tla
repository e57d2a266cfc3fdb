-------------------------- MODULE ReservationProofs --------------------------
(* Proofs about Reservation, for any numbers of requests, cleaners, viewers, *)
(* seats and keys.                                                           *)
EXTENDS Reservation, TablesProofs, FiniteSetTheorems, TLAPS

(* The count of a finite event's available seats is a number. *)
LEMMA CountIsNat == Cardinality(Available) \in Nat
  BY SeatsAssumption, FS_Subset, FS_CardinalityType DEF Available

(* The type invariant is inductive by itself. *)
LEMMA TypeStep == TypeOK /\ [Next]_vars => TypeOK'
  <1> SUFFICES ASSUME TypeOK, [Next]_vars PROVE TypeOK'
    OBVIOUS
  <1> USE SeatsAssumption, NullAssumption
      DEF TypeOK, Requests, Statuses, SeatStatuses, Steps, database, creating, managing,
          Goto, Reply
  <1>1. ASSUME NEW c \in Creates, LookupKey(c) PROVE TypeOK'
    BY <1>1 DEF LookupKey, Ask
  <1>2. ASSUME NEW c \in Creates, AcquireLock(c) PROVE TypeOK'
    BY <1>2 DEF AcquireLock
  <1>3. ASSUME NEW c \in Creates, MissLock(c) PROVE TypeOK'
    BY <1>3 DEF MissLock
  <1>4. ASSUME NEW c \in Creates, CheckSeats(c) PROVE TypeOK'
    BY <1>4 DEF CheckSeats
  <1>5. ASSUME NEW c \in Creates, RefuseCreate(c) PROVE TypeOK'
    BY <1>5 DEF RefuseCreate
  <1>6. ASSUME NEW c \in Creates, CommitCreate(c) PROVE TypeOK'
    BY <1>6 DEF CommitCreate, CreateTx, InsertReservation, ReserveSeats, SetStatus, SetHolder
  <1>7. ASSUME NEW c \in Creates, RollbackCreate(c) PROVE TypeOK'
    BY <1>7 DEF RollbackCreate
  <1>8. ASSUME NEW c \in Creates, FinishCreate(c) PROVE TypeOK'
    BY <1>8 DEF FinishCreate, InvalidateCache
  <1>9. ASSUME NEW c \in Creates, MisreportCreate(c) PROVE TypeOK'
    BY <1>9 DEF MisreportCreate
  <1>10. ASSUME NEW c \in Creates, ReleaseLock(c) PROVE TypeOK'
    BY <1>10 DEF ReleaseLock
  <1>11. ASSUME NEW c \in Creates, Expire(c) PROVE TypeOK'
    BY <1>11 DEF Expire
  <1>12. ASSUME NEW m \in Manages, LoadForConfirm(m) \/ LoadForCancel(m) PROVE TypeOK'
    BY <1>12 DEF LoadForConfirm, LoadForCancel, Load
  <1>13. ASSUME NEW m \in Manages, CommitConfirm(m) PROVE TypeOK'
    BY <1>13 DEF CommitConfirm, ConfirmTx, ConfirmSeats, UpdateReservation, SetStatus
  <1>14. ASSUME NEW m \in Manages, CommitCancel(m) PROVE TypeOK'
    BY <1>14 DEF CommitCancel, CancelTx, ReleaseSeats, UpdateReservation, SetStatus, SetHolder
  <1>15. ASSUME NEW m \in Manages, RollbackManage(m) PROVE TypeOK'
    BY <1>15 DEF RollbackManage
  <1>16. ASSUME NEW m \in Manages, FinishManage(m) PROVE TypeOK'
    BY <1>16 DEF FinishManage, InvalidateCache
  <1>17. ASSUME NEW q \in Requests, Abandon(q) PROVE TypeOK'
    BY <1>17 DEF Abandon
  <1>18. ASSUME NEW w \in Cleaners, ListExpired(w) PROVE TypeOK'
    BY <1>18 DEF ListExpired
  <1>19. ASSUME NEW w \in Cleaners, NEW r \in Creates, CancelListed(w, r) PROVE TypeOK'
    BY <1>19 DEF CancelListed, CancelTx, ReleaseSeats, UpdateReservation, SetStatus, SetHolder
  <1>20. ASSUME NEW w \in Cleaners, NEW r \in Creates, SkipListed(w, r) PROVE TypeOK'
    BY <1>20 DEF SkipListed
  <1>21. ASSUME NEW w \in Cleaners, StopCleaner(w) PROVE TypeOK'
    BY <1>21 DEF StopCleaner
  <1>22. ASSUME NEW v \in Viewers, CountSeats(v) PROVE TypeOK'
    BY <1>22, CountIsNat DEF CountSeats
  <1>23. ASSUME NEW v \in Viewers, StoreCount(v) PROVE TypeOK'
    BY <1>23 DEF StoreCount
  <1>24. ASSUME NEW S \in Wanted, TimeoutLock(S) PROVE TypeOK'
    BY <1>24 DEF TimeoutLock
  <1>25. CASE TimeoutCache
    BY <1>25 DEF TimeoutCache
  <1>26. ASSUME NEW S \in SUBSET Late, AddSeats(S) PROVE TypeOK'
    BY <1>26 DEF AddSeats, InsertSeats, SetStatus
  <1>27. CASE UNCHANGED vars
    BY <1>27 DEF vars
  <1>28. QED
    BY <1>1, <1>2, <1>3, <1>4, <1>5, <1>6, <1>7, <1>8, <1>9, <1>10, <1>11, <1>12,
       <1>13, <1>14, <1>15, <1>16, <1>17, <1>18, <1>19, <1>20, <1>21, <1>22, <1>23,
       <1>24, <1>25, <1>26, <1>27
       DEF Next, CreateProgress, ManageProgress, CleanerProgress

LEMMA TypeInit == Init => TypeOK
  BY DEF Init, TablesInit, TypeOK, Requests, Statuses, SeatStatuses, Steps

(* The tables, the cache, the locks and the requests keep their types. *)
THEOREM TypeCorrect == Spec => []TypeOK
  BY TypeInit, TypeStep, PTL DEF Spec

-----------------------------------------------------------------------------
(* The commits, the seats added and a request's first step are all that        *)
(* changes the tables' rows, the keys and the seats asked for.                 *)
LEMMA OnlyCommitsWrite ==
  [Next]_vars =>
    \/ \E c \in Creates : LookupKey(c) \/ CommitCreate(c)
    \/ \E m \in Manages : CommitConfirm(m) \/ CommitCancel(m)
    \/ \E w \in Cleaners, r \in Creates : CancelListed(w, r)
    \/ \E S \in SUBSET Late : AddSeats(S)
    \/ UNCHANGED <<status, seatStatus, reservedBy, key, wants>>
  <1> SUFFICES ASSUME [Next]_vars,
                      ~ \E c \in Creates : LookupKey(c) \/ CommitCreate(c),
                      ~ \E m \in Manages : CommitConfirm(m) \/ CommitCancel(m),
                      ~ \E w \in Cleaners, r \in Creates : CancelListed(w, r),
                      ~ \E S \in SUBSET Late : AddSeats(S)
               PROVE  UNCHANGED <<status, seatStatus, reservedBy, key, wants>>
    OBVIOUS
  <1> QED
    BY DEF Next, CreateProgress, ManageProgress, CleanerProgress, vars, database, creating,
           AcquireLock, MissLock, CheckSeats, RefuseCreate, RollbackCreate, FinishCreate,
           MisreportCreate, ReleaseLock, Expire, LoadForConfirm, LoadForCancel, Load,
           RollbackManage, FinishManage, Abandon, ListExpired, SkipListed, StopCleaner,
           CountSeats, StoreCount, TimeoutLock, TimeoutCache

LEMMA MatchInit == Init => RequestsMatchRows
  BY NullAssumption DEF Init, TablesInit, RequestsMatchRows, Requests, Exists

(* Requests and rows match after every step.  A request replied to from a row, *)
(* or at work on it, found the row there, and rows are never deleted.          *)
LEMMA MatchStep == TypeOK /\ RequestsMatchRows /\ [Next]_vars => RequestsMatchRows'
  <1> SUFFICES ASSUME TypeOK, RequestsMatchRows, [Next]_vars PROVE RequestsMatchRows'
    OBVIOUS
  <1> USE NullAssumption, RequestAssumption
      DEF TypeOK, RequestsMatchRows, Requests, Exists, Statuses, Steps,
          database, creating, managing, Goto, Reply
  <1>1. ASSUME NEW c \in Creates, LookupKey(c) PROVE RequestsMatchRows'
    BY <1>1 DEF LookupKey, Ask, KeyTaken
  <1>2. ASSUME NEW c \in Creates, AcquireLock(c) PROVE RequestsMatchRows'
    BY <1>2 DEF AcquireLock
  <1>3. ASSUME NEW c \in Creates, MissLock(c) PROVE RequestsMatchRows'
    BY <1>3 DEF MissLock
  <1>4. ASSUME NEW c \in Creates, CheckSeats(c) PROVE RequestsMatchRows'
    BY <1>4 DEF CheckSeats
  <1>5. ASSUME NEW c \in Creates, RefuseCreate(c) PROVE RequestsMatchRows'
    BY <1>5 DEF RefuseCreate
  <1>6. ASSUME NEW c \in Creates, CommitCreate(c) PROVE RequestsMatchRows'
    BY <1>6 DEF CommitCreate, CreateTx, InsertReservation, KeyTaken
  <1>7. ASSUME NEW c \in Creates, RollbackCreate(c) PROVE RequestsMatchRows'
    BY <1>7 DEF RollbackCreate
  <1>8. ASSUME NEW c \in Creates, FinishCreate(c) PROVE RequestsMatchRows'
    BY <1>8 DEF FinishCreate
  <1>9. ASSUME NEW c \in Creates, MisreportCreate(c) PROVE RequestsMatchRows'
    BY <1>9 DEF MisreportCreate
  <1>10. ASSUME NEW c \in Creates, ReleaseLock(c) PROVE RequestsMatchRows'
    BY <1>10 DEF ReleaseLock
  <1>11. ASSUME NEW c \in Creates, Expire(c) PROVE RequestsMatchRows'
    BY <1>11 DEF Expire
  <1>12. ASSUME NEW m \in Manages, LoadForConfirm(m) \/ LoadForCancel(m)
         PROVE RequestsMatchRows'
    BY <1>12 DEF LoadForConfirm, LoadForCancel, Load, Confirmable, Cancellable
  <1>13. ASSUME NEW m \in Manages, CommitConfirm(m) PROVE RequestsMatchRows'
    BY <1>13 DEF CommitConfirm, ConfirmTx, UpdateReservation
  <1>14. ASSUME NEW m \in Manages, CommitCancel(m) PROVE RequestsMatchRows'
    BY <1>14 DEF CommitCancel, CancelTx, UpdateReservation
  <1>15. ASSUME NEW m \in Manages, RollbackManage(m) PROVE RequestsMatchRows'
    BY <1>15 DEF RollbackManage
  <1>16. ASSUME NEW m \in Manages, FinishManage(m) PROVE RequestsMatchRows'
    BY <1>16 DEF FinishManage
  <1>17. ASSUME NEW q \in Requests, Abandon(q) PROVE RequestsMatchRows'
    BY <1>17 DEF Abandon
  <1>18. ASSUME NEW w \in Cleaners, ListExpired(w) PROVE RequestsMatchRows'
    BY <1>18 DEF ListExpired
  <1>19. ASSUME NEW w \in Cleaners, NEW r \in Creates, CancelListed(w, r)
         PROVE RequestsMatchRows'
    BY <1>19 DEF CancelListed, CancelTx, UpdateReservation
  <1>20. ASSUME NEW w \in Cleaners, NEW r \in Creates, SkipListed(w, r)
         PROVE RequestsMatchRows'
    BY <1>20 DEF SkipListed
  <1>21. ASSUME NEW w \in Cleaners, StopCleaner(w) PROVE RequestsMatchRows'
    BY <1>21 DEF StopCleaner
  <1>22. CASE \E v \in Viewers : CountSeats(v) \/ StoreCount(v)
    BY <1>22 DEF CountSeats, StoreCount
  <1>23. CASE TimeoutCache \/ \E S \in Wanted : TimeoutLock(S)
    BY <1>23 DEF TimeoutLock, TimeoutCache
  <1>24. ASSUME NEW S \in SUBSET Late, AddSeats(S) PROVE RequestsMatchRows'
    BY <1>24 DEF AddSeats
  <1>25. CASE UNCHANGED vars
    BY <1>25 DEF vars
  <1>26. QED
    BY <1>1, <1>2, <1>3, <1>4, <1>5, <1>6, <1>7, <1>8, <1>9, <1>10, <1>11, <1>12,
       <1>13, <1>14, <1>15, <1>16, <1>17, <1>18, <1>19, <1>20, <1>21, <1>22, <1>23, <1>24, <1>25
       DEF Next, CreateProgress, ManageProgress, CleanerProgress

(* Requests follow the rows they answer with or work on. *)
THEOREM RequestsAlwaysMatchRows == Spec => []RequestsMatchRows
  BY MatchInit, MatchStep, TypeCorrect, PTL DEF Spec

(* One key, one reservation: whatever requests overlap, crash or are retried, *)
(* those answered with a reservation under one key are answered with the same. *)
THEOREM IdempotencyCorrect == Spec => []SameKeySameReservation
  <1>1. RequestsMatchRows => SameKeySameReservation
    BY DEF RequestsMatchRows, SameKeySameReservation
  <1>2. QED
    BY <1>1, RequestsAlwaysMatchRows, PTL

-----------------------------------------------------------------------------
(* Every step on the tables is one of their transactions: a create commits a  *)
(* row that is not there yet, confirms, cancels and cleaners change one that  *)
(* is.                                                                        *)
LEMMA WholeStep == RequestsMatchRows /\ [Next]_vars => [TablesNext]_tables
  <1> SUFFICES ASSUME RequestsMatchRows, [Next]_vars PROVE [TablesNext]_tables
    OBVIOUS
  <1> USE DEF RequestsMatchRows, Exists, TablesNext, tables, creating
  <1>1. ASSUME NEW c \in Creates, LookupKey(c) PROVE TablesNext
    BY <1>1 DEF LookupKey, database
  <1>2. ASSUME NEW c \in Creates, CommitCreate(c) PROVE TablesNext
    BY <1>2 DEF CommitCreate
  <1>3. ASSUME NEW m \in Manages, CommitConfirm(m) PROVE TablesNext
    BY <1>3 DEF CommitConfirm
  <1>4. ASSUME NEW m \in Manages, CommitCancel(m) PROVE TablesNext
    BY <1>4 DEF CommitCancel
  <1>5. ASSUME NEW w \in Cleaners, NEW r \in Creates, CancelListed(w, r) PROVE TablesNext
    BY <1>5 DEF CancelListed
  <1>6. ASSUME NEW S \in SUBSET Late, AddSeats(S) PROVE TablesNext
    BY <1>6 DEF AddSeats
  <1>7. CASE UNCHANGED <<status, seatStatus, reservedBy, key, wants>>
    BY <1>7
  <1>8. QED
    BY <1>1, <1>2, <1>3, <1>4, <1>5, <1>6, <1>7, OnlyCommitsWrite

(* The service works on the tables as Tables says: with RowLocks below it this *)
(* is the chain from locked rows to whole transactions.                       *)
THEOREM ServiceImplementsTables == Spec => TablesChangeWhole
  <1>1. Init => TablesInit
    BY DEF Init
  <1>2. QED
    BY <1>1, WholeStep, RequestsAlwaysMatchRows, PTL DEF Spec, TablesChangeWhole, TablesSpec

-----------------------------------------------------------------------------
(* What Tables ensures whatever commits, the service has with it. *)
LEMMA RowsStayConsistent == Spec => []TablesInv
  BY ServiceImplementsTables, TablesInvHolds, PTL DEF TablesChangeWhole

(* No seat is left with a dead reservation, whatever overlaps. *)
THEOREM HoldersCorrect == Spec => []HoldersAreLive
  BY RowsStayConsistent, PTL DEF TablesInv

(* No seat is reserved for a reservation that nobody will confirm or clean up. *)
THEOREM ReservedSeatsCorrect == Spec => []ReservedSeatsArePending
  BY RowsStayConsistent, PTL DEF TablesInv

-----------------------------------------------------------------------------
(* Where ownership is lost: in writes on a cancelled reservation, and in those *)
(* on one that has been robbed already.                                       *)

(* What the confirm of a reservation that owns its seats does to the others:   *)
(* nothing.  A pending one confirms what is its own, a confirmed one cannot    *)
(* confirm its seats again.                                                    *)
LEMMA ConfirmKeepsOwners ==
  ASSUME TypeOK, NEW r \in Creates, Live(r), Owns(r), wants[r] # {},
         ConfirmTx(r), UNCHANGED wants
  PROVE  Robbed' \subseteq Robbed
  <1> USE SeatsAssumption DEF TypeOK, Owns, Live
  <1>1. status[r] = "pending"
    <2> SUFFICES ASSUME status[r] = "confirmed" PROVE FALSE
      OBVIOUS
    <2>1. PICK s \in wants[r] : s \in Seats /\ seatStatus[s] = "confirmed"
      OBVIOUS
    <2>2. QED
      BY <2>1 DEF ConfirmTx, ConfirmSeats, Reserved
  <1>2. ASSUME NEW q \in Creates, Live(q)', Owns(q) PROVE Owns(q)'
    BY <1>1, <1>2 DEF ConfirmTx, ConfirmSeats, UpdateReservation, SetStatus
  <1>3. ASSUME NEW q \in Creates, Live(q)' PROVE Live(q)
    BY <1>1, <1>3 DEF ConfirmTx, UpdateReservation
  <1>4. QED
    BY <1>2, <1>3 DEF Robbed

(* Nor does its cancel: it frees what is its own. *)
LEMMA CancelKeepsOwners ==
  ASSUME TypeOK, NEW r \in Creates, Live(r), Owns(r), CancelTx(r), UNCHANGED wants
  PROVE  Robbed' \subseteq Robbed
  <1> USE SeatsAssumption DEF TypeOK, Owns, Live
  <1>1. ASSUME NEW q \in Creates, Live(q)', Owns(q) PROVE Owns(q)'
    BY <1>1 DEF CancelTx, ReleaseSeats, UpdateReservation, SetStatus, SetHolder
  <1>2. ASSUME NEW q \in Creates, Live(q)' PROVE Live(q)
    BY <1>2 DEF CancelTx, UpdateReservation
  <1>3. QED
    BY <1>1, <1>2 DEF Robbed

(* What a create commits is its own, and it takes nothing from the others. *)
LEMMA CreateKeepsOwners ==
  ASSUME TypeOK, NEW c \in Creates, CreateTx(c), UNCHANGED <<key, wants>>
  PROVE  Robbed' \subseteq Robbed
  <1> USE SeatsAssumption, NullAssumption
      DEF TypeOK, CreateTx, InsertReservation, ReserveSeats, SetStatus, SetHolder
  <1>1. Owns(c)'
    BY DEF Owns
  <1>2. ASSUME NEW q \in Creates \ {c}, Live(q), Owns(q) PROVE Owns(q)'
    BY <1>2 DEF Owns, Live, Available
  <1>3. ASSUME NEW q \in Creates \ {c}, Live(q)' PROVE Live(q)
    BY <1>3 DEF Live
  <1>4. QED
    BY <1>1, <1>2, <1>3 DEF Robbed

(* Every step robs nobody, or writes on a reservation already cancelled or robbed. *)
LEMMA OwnershipStep ==
  TypeOK /\ RequestsMatchRows /\ [Next]_vars =>
    \/ Robbed' \subseteq Robbed
    \/ StaleWrite({"cancelled"})
    \/ \E q \in Robbed : ConfirmTx(q) \/ CancelTx(q)
  <1> SUFFICES ASSUME TypeOK, RequestsMatchRows, [Next]_vars,
                      ~StaleWrite({"cancelled"}),
                      \A q \in Robbed : ~ConfirmTx(q) /\ ~CancelTx(q)
               PROVE  Robbed' \subseteq Robbed
    OBVIOUS
  <1>1. ASSUME NEW c \in Creates, LookupKey(c) PROVE Robbed' \subseteq Robbed
    <2>1. ~Exists(c) /\ UNCHANGED <<status, seatStatus, reservedBy>>
      BY <1>1 DEF LookupKey, RequestsMatchRows, database
    <2>2. \A q \in Creates : Live(q)' => Live(q) /\ wants'[q] = wants[q]
      BY <1>1, <2>1 DEF TypeOK, LookupKey, Ask, Live, Exists
    <2>3. QED
      BY <2>1, <2>2 DEF Robbed, Owns
  <1>2. ASSUME NEW c \in Creates, CommitCreate(c) PROVE Robbed' \subseteq Robbed
    BY <1>2, CreateKeepsOwners DEF CommitCreate, creating
  <1>3. ASSUME NEW r \in Creates, Exists(r), ConfirmTx(r) \/ CancelTx(r), UNCHANGED <<key, wants>>
        PROVE  Robbed' \subseteq Robbed
    <2>1. wants[r] # {}
      BY <1>3, SeatsAssumption DEF RequestsMatchRows, Exists
    <2>2. CASE Live(r)
      <3>1. Owns(r)
        BY <1>3, <2>2 DEF Robbed
      <3>2. QED
        BY <1>3, <2>1, <2>2, <3>1, ConfirmKeepsOwners, CancelKeepsOwners
    <2>3. CASE ~Live(r)
      <3>1. status[r] = "cancelled"
        BY <1>3, <2>3 DEF TypeOK, Statuses, Live, Exists
      <3>2. UNCHANGED <<status, seatStatus, reservedBy>>
        BY <1>3, <3>1 DEF StaleWrite
      <3>3. QED
        BY <1>3, <3>2 DEF Robbed, Owns, Live
    <2>4. QED
      BY <2>2, <2>3
  <1>4. ASSUME NEW m \in Manages, CommitConfirm(m) \/ CommitCancel(m)
        PROVE  Robbed' \subseteq Robbed
    <2>1. target[m] \in Creates /\ Exists(target[m])
      BY <1>4 DEF CommitConfirm, CommitCancel, RequestsMatchRows
    <2>2. QED
      BY <1>3, <1>4, <2>1 DEF CommitConfirm, CommitCancel, creating
  <1>5. ASSUME NEW w \in Cleaners, NEW r \in Creates, CancelListed(w, r)
        PROVE  Robbed' \subseteq Robbed
    <2>1. Exists(r)
      BY <1>5 DEF CancelListed, RequestsMatchRows
    <2>2. QED
      BY <1>3, <1>5, <2>1 DEF CancelListed, creating
  <1>6. ASSUME NEW S \in SUBSET Late, AddSeats(S) PROVE Robbed' \subseteq Robbed
    <2>1. UNCHANGED <<status, reservedBy, wants>>
      BY <1>6 DEF AddSeats, InsertSeats, creating
    <2>2. \A s \in Seats : seatStatus[s] # "none" => seatStatus'[s] = seatStatus[s]
      BY <1>6, SeatsAssumption DEF TypeOK, AddSeats, InsertSeats, SetStatus
    <2>3. \A q \in Creates : Owns(q) => Owns(q)'
      BY <2>1, <2>2, SeatsAssumption DEF TypeOK, Owns
    <2>4. QED
      BY <2>1, <2>3 DEF Robbed, Live
  <1>7. CASE UNCHANGED <<status, seatStatus, reservedBy, key, wants>>
    BY <1>7 DEF Robbed, Owns, Live
  <1>8. QED
    BY <1>1, <1>2, <1>4, <1>5, <1>6, <1>7, OnlyCommitsWrite

(* A confirm commits once, and is answered after that. *)
LEMMA ConfirmsCommitFirst ==
  ASSUME TypeOK, RequestsMatchRows, [Next]_vars, NEW m \in Manages,
         op'[m] = "confirm", pc'[m] = "committed" \/ answer'[m] \in Creates
  PROVE  \/ CommitConfirm(m)
         \/ /\ op[m] = "confirm" /\ target'[m] = target[m]
            /\ pc[m] = "committed" \/ answer[m] \in Creates
  <1> DEFINE Before == /\ op[m] = "confirm" /\ target'[m] = target[m]
                       /\ pc[m] = "committed" \/ answer[m] \in Creates
  <1> USE NullAssumption, RequestAssumption
      DEF TypeOK, RequestsMatchRows, Requests, Steps, managing, Goto, Reply
  <1>1. ASSUME NEW c \in Creates, LookupKey(c) PROVE Before
    BY <1>1 DEF LookupKey
  <1>2. ASSUME NEW c \in Creates, AcquireLock(c) PROVE Before
    BY <1>2 DEF AcquireLock
  <1>3. ASSUME NEW c \in Creates, MissLock(c) PROVE Before
    BY <1>3 DEF MissLock
  <1>4. ASSUME NEW c \in Creates, CheckSeats(c) \/ RefuseCreate(c) PROVE Before
    BY <1>4 DEF CheckSeats, RefuseCreate
  <1>5. ASSUME NEW c \in Creates, CommitCreate(c) \/ RollbackCreate(c) PROVE Before
    BY <1>5 DEF CommitCreate, RollbackCreate
  <1>6. ASSUME NEW c \in Creates, FinishCreate(c) \/ MisreportCreate(c) PROVE Before
    BY <1>6 DEF FinishCreate, MisreportCreate
  <1>7. ASSUME NEW c \in Creates, ReleaseLock(c) PROVE Before
    BY <1>7 DEF ReleaseLock
  <1>8. ASSUME NEW n \in Manages, LoadForConfirm(n) \/ LoadForCancel(n) PROVE Before
    BY <1>8 DEF LoadForConfirm, LoadForCancel, Load
  <1>9. ASSUME NEW n \in Manages, CommitConfirm(n) PROVE Before \/ CommitConfirm(m)
    BY <1>9 DEF CommitConfirm
  <1>10. ASSUME NEW n \in Manages, CommitCancel(n) PROVE Before
    BY <1>10 DEF CommitCancel
  <1>11. ASSUME NEW n \in Manages, RollbackManage(n) \/ FinishManage(n) PROVE Before
    BY <1>11 DEF RollbackManage, FinishManage
  <1>12. ASSUME NEW q \in Requests, Abandon(q) PROVE Before
    BY <1>12 DEF Abandon
  <1>13. CASE UNCHANGED <<pc, answer, managing>>
    BY <1>13
  <1>14. QED
    BY <1>1, <1>2, <1>3, <1>4, <1>5, <1>6, <1>7, <1>8, <1>9, <1>10, <1>11, <1>12, <1>13
       DEF Next, CreateProgress, ManageProgress, CleanerProgress, vars,
           Expire, ListExpired, CancelListed, SkipListed, StopCleaner, CountSeats,
           StoreCount, AddSeats, TimeoutLock, TimeoutCache

(* Every step leaves a confirmation as it holds, or cancels what was confirmed  *)
(* by a write that is stale.                                                   *)
LEMMA ConfirmationStep ==
  ASSUME TypeOK, RequestsMatchRows, [Next]_vars, ~StaleWrite({"confirmed"}),
         NEW m \in Manages, ConfirmationHolds(m)
  PROVE  ConfirmationHolds(m)'
  <1>1. ASSUME NEW r \in Creates, status[r] = "confirmed" PROVE status'[r] = "confirmed"
    <2> USE DEF TypeOK, RequestsMatchRows, Exists, UpdateReservation, StaleWrite
    <2>1. ASSUME NEW c \in Creates, LookupKey(c) PROVE status' = status
      BY <2>1 DEF LookupKey, database
    <2>2. ASSUME NEW c \in Creates, CommitCreate(c) PROVE status'[r] = status[r]
      BY <1>1, <2>2 DEF CommitCreate, CreateTx, InsertReservation
    <2>3. ASSUME NEW n \in Manages, CommitConfirm(n) PROVE status'[r] = "confirmed"
      BY <1>1, <2>3 DEF CommitConfirm, ConfirmTx
    <2>4. ASSUME NEW n \in Manages, CommitCancel(n) PROVE status'[r] = "confirmed"
      BY <1>1, <2>4 DEF CommitCancel, CancelTx
    <2>5. ASSUME NEW w \in Cleaners, NEW q \in Creates, CancelListed(w, q)
          PROVE  status'[r] = "confirmed"
      BY <1>1, <2>5 DEF CancelListed, CancelTx
    <2>6. ASSUME NEW S \in SUBSET Late, AddSeats(S) PROVE status' = status
      BY <2>6 DEF AddSeats
    <2>7. QED
      BY <1>1, <2>1, <2>2, <2>3, <2>4, <2>5, <2>6, OnlyCommitsWrite
  <1>2. ASSUME op'[m] = "confirm", pc'[m] = "committed" \/ answer'[m] \in Creates
        PROVE  status'[target'[m]] = "confirmed"
    <2>1. target'[m] \in Creates
      BY <1>2, TypeStep, MatchStep DEF RequestsMatchRows
    <2>2. CASE /\ op[m] = "confirm" /\ target'[m] = target[m]
               /\ pc[m] = "committed" \/ answer[m] \in Creates
      BY <1>1, <2>1, <2>2 DEF ConfirmationHolds
    <2>3. CASE CommitConfirm(m)
      BY <2>3 DEF TypeOK, RequestsMatchRows, CommitConfirm, ConfirmTx, UpdateReservation, managing
    <2>4. QED
      BY <1>2, <2>2, <2>3, ConfirmsCommitFirst
  <1>3. QED
    BY <1>2 DEF ConfirmationHolds

(* Nobody is robbed, no confirmation given, when the system starts. *)
LEMMA BreachInit == Init => OwnsItsSeats /\ ConfirmationsHold
  BY NullAssumption
     DEF Init, TablesInit, OwnsItsSeats, ConfirmationsHold, ConfirmationHolds, Live, Requests

(* Whatever has gone wrong before, a reservation that owns its seats only loses *)
(* one in a write on a reservation cancelled since it was read, or robbed       *)
(* itself, and a confirmation is only lost to a cancel of what was confirmed    *)
(* since it was read.                                                           *)
THEOREM BreachesHaveACause == Spec => LossesHaveACause
  <1>1. TypeOK /\ RequestsMatchRows /\ [Next]_vars =>
          [/\ \/ Robbed' \subseteq Robbed
              \/ StaleWrite({"cancelled"})
              \/ \E q \in Robbed : ConfirmTx(q) \/ CancelTx(q)
           /\ \A m \in Manages :
                ConfirmationHolds(m) /\ ~ConfirmationHolds(m)' => StaleWrite({"confirmed"})]_vars
    BY OwnershipStep, ConfirmationStep
  <1>2. QED
    BY <1>1, TypeCorrect, RequestsAlwaysMatchRows, PTL DEF Spec, LossesHaveACause

LEMMA WithoutIsABehaviour == ASSUME NEW Old PROVE SpecWithout(Old) => Spec
  <1>1. [Next /\ ~StaleWrite(Old)]_vars => [Next]_vars
    OBVIOUS
  <1>2. QED
    BY <1>1, PTL DEF SpecWithout, Spec

(* Were nothing written on reservations already cancelled, each live one would *)
(* own its seats, whatever confirms, cancels and cleaners overlap.             *)
THEOREM OwnershipWithoutStaleWrites == SpecWithout({"cancelled"}) => []OwnsItsSeats
  <1>1. /\ TypeOK /\ RequestsMatchRows /\ OwnsItsSeats
        /\ [Next /\ ~StaleWrite({"cancelled"})]_vars
        => OwnsItsSeats'
    <2>1. OwnsItsSeats <=> Robbed = {}
      BY DEF OwnsItsSeats, Robbed
    <2>2. OwnsItsSeats' <=> Robbed' = {}
      BY DEF OwnsItsSeats, Robbed
    <2>3. UNCHANGED vars => Robbed' = Robbed
      BY DEF Robbed, Owns, Live, vars, database, creating
    <2>4. QED
      BY <2>1, <2>2, <2>3, OwnershipStep
  <1>2. SpecWithout({"cancelled"}) => Spec
    BY WithoutIsABehaviour
  <1>3. QED
    BY <1>1, <1>2, BreachInit, TypeCorrect, RequestsAlwaysMatchRows, PTL DEF SpecWithout

(* So no seat would be sold twice: the UPDATE of a cancelled reservation is the *)
(* one cause of double booking.                                                *)
THEOREM NoDoubleBookingWithoutStaleWrites == SpecWithout({"cancelled"}) => []NoDoubleBooking
  <1>1. OwnsItsSeats => NoDoubleBooking
    BY DEF OwnsItsSeats, Owns, NoDoubleBooking
  <1>2. QED
    BY <1>1, OwnershipWithoutStaleWrites, PTL

(* Were no confirmed reservation cancelled by what read it before, the clients *)
(* told of a confirmation would keep it.                                       *)
THEOREM ConfirmationsKeptWithoutStaleWrites == SpecWithout({"confirmed"}) => []ConfirmationsAreKept
  <1>1. /\ TypeOK /\ RequestsMatchRows /\ ConfirmationsHold
        /\ [Next /\ ~StaleWrite({"confirmed"})]_vars
        => ConfirmationsHold'
    <2>1. ConfirmationsHold /\ UNCHANGED vars => ConfirmationsHold'
      BY DEF ConfirmationsHold, ConfirmationHolds, vars, database, managing
    <2>2. QED
      BY <2>1, ConfirmationStep DEF ConfirmationsHold
  <1>2. SpecWithout({"confirmed"}) => Spec
    BY WithoutIsABehaviour
  <1>3. RequestsMatchRows /\ ConfirmationsHold => ConfirmationsAreKept
    BY DEF RequestsMatchRows, ConfirmationsHold, ConfirmationHolds, ConfirmationsAreKept
  <1>4. QED
    BY <1>1, <1>2, <1>3, BreachInit, TypeCorrect, RequestsAlwaysMatchRows, PTL DEF SpecWithout

-----------------------------------------------------------------------------
(* Refinement of OncePerKey. *)

LEMMA ByKeyInit == Init => ByKey!Init
  BY DEF Init, TablesInit, ByKey!Init, Told, Made, Exists, Requests

(* As long as no row comes, goes or changes its key, keys have made what they had. *)
LEMMA SameRowsSameMade ==
  ASSUME \A r \in Creates : /\ Exists(r)' <=> Exists(r)
                            /\ Exists(r) => key'[r] = key[r]
  PROVE  Made' = Made
  BY DEF Made

(* What a request is told when it ends is nothing new, a failure or what its   *)
(* key has made.                                                               *)
LEMMA EndIsATell ==
  ASSUME TypeOK, RequestsMatchRows, NEW c \in Creates, pc[c] \notin {"new", "done"},
         pc' = [pc EXCEPT ![c] = "done"], UNCHANGED <<status, key>>,
         NEW a \in Creates \cup {None, Failed}, a \in {answer[c], Failed},
         answer' = [answer EXCEPT ![c] = a]
  PROVE  [ByKey!Next]_ByKey!vars
  <1>1. Made' = Made
    BY SameRowsSameMade DEF Exists
  <1>2. Told[c] = None /\ key[c] \in Keys
    BY DEF Told, RequestsMatchRows
  <1>3. Told' = [Told EXCEPT ![c] = a]
    BY DEF TypeOK, Told, Requests
  <1>4. CASE a = None
    BY <1>1, <1>2, <1>3, <1>4 DEF Told, ByKey!vars
  <1>5. CASE a # None
    <2>1. a \in Made[key[c]] \cup {Failed}
      BY <1>2, <1>5 DEF Made, RequestsMatchRows
    <2>2. ByKey!Tell(c)
      BY <1>1, <1>2, <1>3, <2>1 DEF ByKey!Tell, ByKey!Under
    <2>3. QED
      BY <2>2 DEF ByKey!Next
  <1>6. QED
    BY <1>4, <1>5

(* Steps that end no create, ask nothing and insert nothing are not seen. *)
LEMMA NothingTold ==
  ASSUME UNCHANGED key, \A r \in Creates : Exists(r)' <=> Exists(r),
         \A c \in Creates : /\ pc'[c] = "done" <=> pc[c] = "done"
                            /\ pc[c] = "done" => answer'[c] = answer[c]
  PROVE  UNCHANGED ByKey!vars
  <1>1. Made' = Made
    BY SameRowsSameMade
  <1>2. Told' = Told
    BY DEF Told
  <1>3. QED
    BY <1>1, <1>2 DEF ByKey!vars

LEMMA ByKeyStep == TypeOK /\ RequestsMatchRows /\ [Next]_vars => [ByKey!Next]_ByKey!vars
  <1> SUFFICES ASSUME TypeOK, RequestsMatchRows, [Next]_vars
               PROVE  [ByKey!Next]_ByKey!vars
    OBVIOUS
  <1> USE NullAssumption, RequestAssumption DEF Requests, database, creating, managing, Goto, Reply
  <1>1. ASSUME NEW c \in Creates, LookupKey(c) PROVE ByKey!Next
    <2>1. PICK k \in Keys, S \in Wanted :
            /\ Ask(c, k, S)
            /\ \/ Goto(c, "lock") /\ UNCHANGED answer
               \/ \E r \in Creates :
                  Exists(r) /\ key[r] = k /\ Reply(c, r) /\ Goto(c, "done")
      BY <1>1 DEF LookupKey
    <2>2. pc[c] = "new" /\ UNCHANGED status /\ ~Exists(c) /\ key[c] = None /\ answer[c] = None
      BY <1>1 DEF LookupKey, RequestsMatchRows
    <2>3. key' = [key EXCEPT ![c] = k]
      BY <2>1 DEF Ask
    <2>4. Made' = Made
      BY <2>2, <2>3, SameRowsSameMade DEF TypeOK, Exists
    <2>5. \E a \in Made[k] \cup {None} : Told' = [Told EXCEPT ![c] = a]
      <3>1. CASE Goto(c, "lock") /\ UNCHANGED answer
        <4>1. Told' = [Told EXCEPT ![c] = None]
          BY <2>2, <3>1 DEF TypeOK, Told
        <4>2. QED
          BY <4>1
      <3>2. ASSUME NEW r \in Creates, Exists(r), key[r] = k, Reply(c, r), Goto(c, "done")
            PROVE  \E a \in Made[k] \cup {None} : Told' = [Told EXCEPT ![c] = a]
        <4>1. Told' = [Told EXCEPT ![c] = r]
          BY <3>2 DEF TypeOK, Told
        <4>2. r \in Made[k]
          BY <3>2 DEF Made
        <4>3. QED
          BY <4>1, <4>2
      <3>3. QED
        BY <2>1, <3>1, <3>2
    <2>6. ByKey!Ask(c, k)
      BY <2>2, <2>3, <2>4, <2>5 DEF ByKey!Ask
    <2>7. QED
      BY <2>6 DEF ByKey!Next
  <1>2. ASSUME NEW c \in Creates, CommitCreate(c) PROVE ByKey!Next
    <2>1. /\ pc[c] = "insert" /\ pc' = [pc EXCEPT ![c] = "committed"]
          /\ ~KeyTaken(key[c]) /\ status' = [status EXCEPT ![c] = "pending"]
          /\ UNCHANGED <<answer, key>>
      BY <1>2 DEF CommitCreate, CreateTx, InsertReservation
    <2>2. key[c] \in Keys
      BY <2>1 DEF RequestsMatchRows
    <2>3. Told' = Told /\ Told[c] = None
      BY <2>1 DEF TypeOK, Told
    <2>4. Made[key[c]] = {}
      BY <2>1, <2>2 DEF Made, KeyTaken
    <2>5. Made' = [Made EXCEPT ![key[c]] = {c}]
      <3>1. \A r \in Creates : Exists(r)' <=> Exists(r) \/ r = c
        BY <2>1 DEF TypeOK, Exists
      <3>2. \A k \in Keys : {r \in Creates : Exists(r)' /\ key'[r] = k}
                              = IF k = key[c] THEN {c} ELSE Made[k]
        BY <2>1, <3>1 DEF Made, KeyTaken
      <3>3. QED
        BY <2>2, <3>2 DEF Made
    <2>6. ByKey!Make(c)
      BY <2>1, <2>2, <2>3, <2>4, <2>5 DEF ByKey!Make, ByKey!Under
    <2>7. QED
      BY <2>6 DEF ByKey!Next
  <1>3. ASSUME NEW c \in Creates, MissLock(c) PROVE [ByKey!Next]_ByKey!vars
    <2>1. CASE UNCHANGED <<pc, answer>>
      BY <1>3, <2>1, NothingTold DEF MissLock, Exists
    <2>2. CASE Goto(c, "done") /\ Reply(c, Failed)
      BY <1>3, <2>2, EndIsATell DEF MissLock
    <2>3. QED
      BY <1>3, <2>1, <2>2 DEF MissLock
  <1>4. ASSUME NEW c \in Creates, ReleaseLock(c) PROVE [ByKey!Next]_ByKey!vars
    <2>1. answer[c] \in Creates \cup {None, Failed} /\ answer' = [answer EXCEPT ![c] = answer[c]]
      BY <1>4 DEF ReleaseLock, TypeOK
    <2>2. QED
      BY <1>4, <2>1, EndIsATell DEF ReleaseLock
  <1>5. ASSUME NEW c \in Creates, Abandon(c) PROVE [ByKey!Next]_ByKey!vars
    BY <1>5, EndIsATell DEF Abandon
  <1>6. ASSUME NEW c \in Creates,
               \/ AcquireLock(c) \/ CheckSeats(c) \/ RefuseCreate(c) \/ RollbackCreate(c)
               \/ FinishCreate(c) \/ MisreportCreate(c)
        PROVE  UNCHANGED ByKey!vars
    BY <1>6, NothingTold
       DEF TypeOK, AcquireLock, CheckSeats, RefuseCreate, RollbackCreate, FinishCreate,
           MisreportCreate, Exists
  <1>7. ASSUME NEW m \in Manages,
               \/ LoadForConfirm(m) \/ LoadForCancel(m) \/ RollbackManage(m) \/ FinishManage(m)
               \/ Abandon(m)
        PROVE  UNCHANGED ByKey!vars
    BY <1>7, NothingTold
       DEF TypeOK, LoadForConfirm, LoadForCancel, Load, RollbackManage, FinishManage, Abandon, Exists
  <1>8. ASSUME NEW m \in Manages, CommitConfirm(m) \/ CommitCancel(m)
        PROVE  UNCHANGED ByKey!vars
    BY <1>8, NothingTold
       DEF TypeOK, RequestsMatchRows, CommitConfirm, CommitCancel, ConfirmTx, CancelTx,
           UpdateReservation, Exists
  <1>9. ASSUME NEW w \in Cleaners, NEW r \in Creates, CancelListed(w, r)
        PROVE  UNCHANGED ByKey!vars
    BY <1>9, NothingTold
       DEF TypeOK, RequestsMatchRows, CancelListed, CancelTx, UpdateReservation, Exists
  <1>10. CASE UNCHANGED <<status, key, pc, answer>>
    BY <1>10, NothingTold DEF Exists
  <1>11. QED
    BY <1>1, <1>2, <1>3, <1>4, <1>5, <1>6, <1>7, <1>8, <1>9, <1>10
       DEF Next, CreateProgress, ManageProgress, CleanerProgress, vars, Expire, ListExpired,
           SkipListed, StopCleaner, CountSeats, StoreCount, AddSeats, TimeoutLock, TimeoutCache

(* The reservation service implements OncePerKey, with nothing assumed of how  *)
(* requests, confirms, cancels and cleaners overlap, crash or are misreported. *)
THEOREM KeysAreSafe == Spec => KeysAreIdempotent
  BY ByKeyInit, ByKeyStep, TypeCorrect, RequestsAlwaysMatchRows, PTL
     DEF Spec, KeysAreIdempotent, ByKey!Spec

-----------------------------------------------------------------------------
(* Refinement of SeatSale. *)

Resolved == {"confirmed", "cancelled"}

(* What is left without a kind of stale write is left without any of its kinds. *)
LEMMA FewerStaleWrites ==
  ASSUME NEW Old, NEW More, Old \subseteq More
  PROVE  SpecWithout(More) => SpecWithout(Old)
  <1>1. [Next /\ ~StaleWrite(More)]_vars => [Next /\ ~StaleWrite(Old)]_vars
    BY DEF StaleWrite
  <1>2. QED
    BY <1>1, PTL DEF SpecWithout

LEMMA PromiseInit == Init => Sale!Init
  BY DEF Init, TablesInit, Sale!Init

(* A commit of a create books, of a confirm sells, of a cancel drops; no other *)
(* step is seen by the abstract specification.  A cancel drops exactly the     *)
(* reservation's own seats because the seats asked for and held are the same.  *)
LEMMA PromiseStep ==
  /\ TypeOK /\ RequestsMatchRows /\ HoldersAreLive /\ OwnsItsSeats
  /\ [Next /\ ~StaleWrite(Resolved)]_vars
  => [Sale!Next]_(Sale!vars)
  <1> SUFFICES ASSUME TypeOK, RequestsMatchRows, HoldersAreLive, OwnsItsSeats,
                      [Next]_vars, ~StaleWrite(Resolved)
               PROVE  [Sale!Next]_(Sale!vars)
    BY DEF vars, database, Sale!vars
  <1> USE NullAssumption, SeatsAssumption DEF Live
  <1>1. ASSUME NEW c \in Creates, LookupKey(c) PROVE UNCHANGED Sale!vars
    BY <1>1 DEF LookupKey, Ask, database, Sale!vars
  <1>2. ASSUME NEW c \in Creates, CommitCreate(c) PROVE Sale!Next
    <2>1. /\ status[c] = "none"
          /\ wants[c] \in SUBSET Seats /\ wants[c] # {}
      BY <1>2 DEF CommitCreate, RequestsMatchRows, Exists
    <2>2. \A s \in wants[c] : reservedBy[s] = None
      BY <1>2, <2>1 DEF CommitCreate, CreateTx, ReserveSeats, Available, HoldersAreLive
    <2>3. Sale!Book(c, wants[c])
      BY <1>2, <2>1, <2>2
         DEF CommitCreate, CreateTx, InsertReservation, ReserveSeats, SetHolder, Sale!Book, Sale!Give
    <2>4. QED
      BY <2>1, <2>3 DEF Sale!Next
  <1>3. ASSUME NEW r \in Creates, Exists(r), ConfirmTx(r) \/ CancelTx(r)
        PROVE  [Sale!Next]_(Sale!vars)
    <2>1. CASE status[r] # "pending"
      <3>1. UNCHANGED <<status, seatStatus, reservedBy>>
        BY <1>3, <2>1 DEF TypeOK, Statuses, Exists, StaleWrite, Resolved
      <3>2. QED
        BY <3>1 DEF Sale!vars
    <2>2. CASE status[r] = "pending" /\ ConfirmTx(r)
      <3>1. Sale!Sell(r)
        BY <2>2 DEF ConfirmTx, ConfirmSeats, UpdateReservation, Sale!Sell
      <3>2. QED
        BY <3>1 DEF Sale!Next
    <2>3. CASE status[r] = "pending" /\ CancelTx(r)
      <3>1. \A s \in Seats : s \in wants[r] <=> reservedBy[s] = r
        BY <2>3 DEF OwnsItsSeats, Owns, HoldersAreLive
      <3>2. Sale!Drop(r)
        BY <2>3, <3>1 DEF CancelTx, ReleaseSeats, UpdateReservation, SetHolder, Sale!Drop, Sale!Give
      <3>3. QED
        BY <3>2 DEF Sale!Next
    <2>4. QED
      BY <1>3, <2>1, <2>2, <2>3
  <1>4. ASSUME NEW m \in Manages, CommitConfirm(m) \/ CommitCancel(m)
        PROVE  [Sale!Next]_(Sale!vars)
    BY <1>3, <1>4 DEF CommitConfirm, CommitCancel, RequestsMatchRows
  <1>5. ASSUME NEW w \in Cleaners, NEW r \in Creates, CancelListed(w, r)
        PROVE  [Sale!Next]_(Sale!vars)
    BY <1>3, <1>5 DEF CancelListed, RequestsMatchRows
  <1>6. ASSUME NEW S \in SUBSET Late, AddSeats(S) PROVE UNCHANGED Sale!vars
    BY <1>6 DEF AddSeats, InsertSeats, Sale!vars
  <1>7. CASE UNCHANGED <<status, seatStatus, reservedBy, key, wants>>
    BY <1>7 DEF Sale!vars
  <1>8. QED
    BY <1>1, <1>2, <1>4, <1>5, <1>6, <1>7, OnlyCommitsWrite

(* Without stale writes the service keeps the promise of SeatSale, with         *)
(* confirms, cancels and cleaners of one reservation overlapping as they like. *)
THEOREM PromiseKeptWithoutStaleWrites ==
  SpecWithout({"confirmed", "cancelled"}) => KeepsThePromise
  <1>1. SpecWithout({"confirmed", "cancelled"}) => Spec
    BY WithoutIsABehaviour
  <1>2. SpecWithout({"confirmed", "cancelled"}) => []OwnsItsSeats
    <2>1. SpecWithout({"confirmed", "cancelled"}) => SpecWithout({"cancelled"})
      BY FewerStaleWrites
    <2>2. QED
      BY <2>1, OwnershipWithoutStaleWrites, PTL
  <1>3. /\ TypeOK /\ RequestsMatchRows /\ HoldersAreLive /\ OwnsItsSeats
        /\ [Next /\ ~StaleWrite({"confirmed", "cancelled"})]_vars
        => [Sale!Next]_(Sale!vars)
    BY PromiseStep DEF Resolved
  <1>4. QED
    BY <1>1, <1>2, <1>3, PromiseInit, TypeCorrect, RequestsAlwaysMatchRows, HoldersCorrect, PTL
       DEF SpecWithout, KeepsThePromise, Sale!Spec

-----------------------------------------------------------------------------
(* Calm behaviour: no two confirms, cancels or cleaner rounds under way have *)
(* read the same reservation.                                                *)

LEMMA CalmIsABehaviour == CalmSpec => Spec
  <1>1. [Next /\ OneManagerAtATime']_vars => [Next]_vars
    OBVIOUS
  <1>2. QED
    BY <1>1, PTL DEF CalmSpec, Spec

LEMMA CalmStaysCalm == CalmSpec => []OneManagerAtATime
  <1>1. Init => OneManagerAtATime
    BY DEF Init, TablesInit, OneManagerAtATime, Requests
  <1>2. OneManagerAtATime /\ [Next /\ OneManagerAtATime']_vars => OneManagerAtATime'
    BY DEF OneManagerAtATime, vars, managing
  <1>3. QED
    BY <1>1, <1>2, PTL DEF CalmSpec

LEMMA CalmInit == Init => NothingIsStale
  BY NullAssumption DEF Init, TablesInit, NothingIsStale, Requests

(* What a confirm, a cancel or a cleaner read stays pending until it commits,  *)
(* and a reservation that is not pending never changes again.                  *)
LEMMA StaleStep ==
  /\ TypeOK /\ RequestsMatchRows /\ NothingIsStale /\ OneManagerAtATime
  /\ [Next]_vars
  => NothingIsStale'
  <1> SUFFICES ASSUME TypeOK, RequestsMatchRows, NothingIsStale, OneManagerAtATime,
                      [Next]_vars
               PROVE  NothingIsStale'
    OBVIOUS
  <1> USE NullAssumption, RequestAssumption
      DEF TypeOK, RequestsMatchRows, NothingIsStale, OneManagerAtATime, Requests, Exists,
          Statuses, Steps, database, creating, managing, Goto, Reply
  <1>1. ASSUME NEW c \in Creates, LookupKey(c) PROVE NothingIsStale'
    BY <1>1 DEF LookupKey, Ask
  <1>2. ASSUME NEW c \in Creates, AcquireLock(c) \/ MissLock(c) PROVE NothingIsStale'
    BY <1>2 DEF AcquireLock, MissLock
  <1>3. ASSUME NEW c \in Creates, CheckSeats(c) \/ RefuseCreate(c) PROVE NothingIsStale'
    BY <1>3 DEF CheckSeats, RefuseCreate
  <1>4. ASSUME NEW c \in Creates, CommitCreate(c) PROVE NothingIsStale'
    BY <1>4 DEF CommitCreate, CreateTx, InsertReservation
  <1>5. ASSUME NEW c \in Creates, RollbackCreate(c) \/ FinishCreate(c)
        PROVE  NothingIsStale'
    BY <1>5 DEF RollbackCreate, FinishCreate
  <1>6. ASSUME NEW c \in Creates, MisreportCreate(c) \/ ReleaseLock(c)
        PROVE  NothingIsStale'
    BY <1>6 DEF MisreportCreate, ReleaseLock
  <1>7. ASSUME NEW c \in Creates, Expire(c) PROVE NothingIsStale'
    BY <1>7 DEF Expire
  <1>8. ASSUME NEW m \in Manages, LoadForConfirm(m) \/ LoadForCancel(m)
        PROVE  NothingIsStale'
    BY <1>8 DEF LoadForConfirm, LoadForCancel, Load, Confirmable, Cancellable
  <1>9. ASSUME NEW m \in Manages, CommitConfirm(m) PROVE NothingIsStale'
    BY <1>9 DEF CommitConfirm, ConfirmTx, UpdateReservation
  <1>10. ASSUME NEW m \in Manages, CommitCancel(m) PROVE NothingIsStale'
    BY <1>10 DEF CommitCancel, CancelTx, UpdateReservation
  <1>11. ASSUME NEW m \in Manages, RollbackManage(m) \/ FinishManage(m)
         PROVE  NothingIsStale'
    BY <1>11 DEF RollbackManage, FinishManage
  <1>12. ASSUME NEW q \in Requests, Abandon(q) PROVE NothingIsStale'
    BY <1>12 DEF Abandon
  <1>13. ASSUME NEW w \in Cleaners, ListExpired(w) PROVE NothingIsStale'
    BY <1>13 DEF ListExpired
  <1>14. ASSUME NEW w \in Cleaners, NEW r \in Creates, CancelListed(w, r)
         PROVE  NothingIsStale'
    BY <1>14 DEF CancelListed, CancelTx, UpdateReservation
  <1>15. ASSUME NEW w \in Cleaners, NEW r \in Creates, SkipListed(w, r)
         PROVE  NothingIsStale'
    BY <1>15 DEF SkipListed
  <1>16. ASSUME NEW w \in Cleaners, StopCleaner(w) PROVE NothingIsStale'
    BY <1>16 DEF StopCleaner
  <1>17. CASE \E v \in Viewers : CountSeats(v) \/ StoreCount(v)
    BY <1>17 DEF CountSeats, StoreCount
  <1>18. CASE TimeoutCache \/ \E S \in Wanted : TimeoutLock(S)
    BY <1>18 DEF TimeoutLock, TimeoutCache
  <1>19. ASSUME NEW S \in SUBSET Late, AddSeats(S) PROVE NothingIsStale'
    BY <1>19 DEF AddSeats
  <1>20. CASE UNCHANGED vars
    BY <1>20 DEF vars
  <1>21. QED
    BY <1>1, <1>2, <1>3, <1>4, <1>5, <1>6, <1>7, <1>8, <1>9, <1>10, <1>11, <1>12,
       <1>13, <1>14, <1>15, <1>16, <1>17, <1>18, <1>19, <1>20
       DEF Next, CreateProgress, ManageProgress, CleanerProgress

(* In calm behaviour nothing acts on a stale read. *)
THEOREM CalmIsNeverStale == CalmSpec => []NothingIsStale
  BY CalmInit, StaleStep, TypeCorrect, RequestsAlwaysMatchRows, CalmIsABehaviour,
     CalmStaysCalm, PTL DEF Spec

(* Nothing that is not stale is a stale write: a calm step changes the status  *)
(* of a reservation without a row or of a pending one, or adds seats.          *)
LEMMA CalmStep ==
  /\ TypeOK /\ RequestsMatchRows /\ NothingIsStale /\ SeatsExist /\ [Next]_vars
  => ~StaleWrite(Resolved)
  <1> SUFFICES ASSUME TypeOK, RequestsMatchRows, NothingIsStale, SeatsExist, [Next]_vars,
                      StaleWrite(Resolved)
               PROVE  FALSE
    OBVIOUS
  <1> USE DEF TypeOK, RequestsMatchRows, Exists, Statuses, UpdateReservation
  <1>1. PICK r \in Creates : /\ status[r] \in {"confirmed", "cancelled"}
                             /\ ConfirmTx(r) \/ CancelTx(r)
    BY DEF StaleWrite, Resolved
  <1>2. ~UNCHANGED <<status, seatStatus, reservedBy>>
    BY DEF StaleWrite
  <1>3. \A q \in Creates \ {r} : status'[q] = status[q]
    BY <1>1 DEF ConfirmTx, CancelTx
  <1>4. ASSUME NEW q \in Creates, status[q] \in {"none", "pending"}, status'[q] # status[q]
        PROVE  FALSE
    BY <1>1, <1>3, <1>4
  <1>5. ASSUME NEW c \in Creates, LookupKey(c) PROVE FALSE
    BY <1>2, <1>5 DEF LookupKey, database
  <1>6. ASSUME NEW c \in Creates, CommitCreate(c) PROVE FALSE
    BY <1>4, <1>6 DEF CommitCreate, CreateTx, InsertReservation
  <1>7. ASSUME NEW m \in Manages, CommitConfirm(m) PROVE FALSE
    BY <1>4, <1>7 DEF CommitConfirm, ConfirmTx, NothingIsStale
  <1>8. ASSUME NEW m \in Manages, CommitCancel(m) PROVE FALSE
    BY <1>4, <1>8 DEF CommitCancel, CancelTx, NothingIsStale
  <1>9. ASSUME NEW w \in Cleaners, NEW q \in Creates, CancelListed(w, q) PROVE FALSE
    BY <1>4, <1>9 DEF CancelListed, CancelTx, NothingIsStale
  <1>10. ASSUME NEW S \in SUBSET Late, AddSeats(S) PROVE FALSE
    <2>1. PICK s \in Seats : seatStatus[s] = "none" /\ seatStatus'[s] = "available"
      BY <1>10, SeatsAssumption DEF AddSeats, InsertSeats, SetStatus
    <2>2. s \notin wants[r]
      BY <1>1, <2>1 DEF SeatsExist
    <2>3. QED
      BY <1>1, <2>1, <2>2 DEF ConfirmTx, CancelTx, ConfirmSeats, ReleaseSeats, SetStatus
  <1>11. QED
    BY <1>2, <1>5, <1>6, <1>7, <1>8, <1>9, <1>10, OnlyCommitsWrite

(* Calm behaviour has no stale writes, so all that holds without them holds in it. *)
THEOREM CalmHasNoStaleWrites == CalmSpec => SpecWithout({"confirmed", "cancelled"})
  <1>1. /\ TypeOK /\ RequestsMatchRows /\ NothingIsStale /\ TablesInv
        /\ [Next /\ OneManagerAtATime']_vars
        => [Next /\ ~StaleWrite({"confirmed", "cancelled"})]_vars
    BY CalmStep DEF Resolved, TablesInv
  <1>2. QED
    BY <1>1, TypeCorrect, RequestsAlwaysMatchRows, CalmIsNeverStale, RowsStayConsistent,
       CalmIsABehaviour, PTL DEF CalmSpec, SpecWithout

(* In calm behaviour every live reservation owns the seats it asked for. *)
THEOREM OwnershipCorrect == CalmSpec => []OwnsItsSeats
  <1>1. SpecWithout({"confirmed", "cancelled"}) => SpecWithout({"cancelled"})
    BY FewerStaleWrites
  <1>2. QED
    BY <1>1, CalmHasNoStaleWrites, OwnershipWithoutStaleWrites, PTL

(* In calm behaviour no seat is sold twice, however creates interleave, lose   *)
(* their locks or crash: only overlapping management can break it.             *)
THEOREM CalmNeverDoubleBooks == CalmSpec => []NoDoubleBooking
  <1>1. SpecWithout({"confirmed", "cancelled"}) => SpecWithout({"cancelled"})
    BY FewerStaleWrites
  <1>2. QED
    BY <1>1, CalmHasNoStaleWrites, NoDoubleBookingWithoutStaleWrites, PTL

(* In calm behaviour a reservation a client was told is confirmed stays so. *)
THEOREM CalmKeepsConfirmations == CalmSpec => []ConfirmationsAreKept
  <1>1. SpecWithout({"confirmed", "cancelled"}) => SpecWithout({"confirmed"})
    BY FewerStaleWrites
  <1>2. QED
    BY <1>1, CalmHasNoStaleWrites, ConfirmationsKeptWithoutStaleWrites, PTL

(* Calm behaviour of the reservation service keeps the promise of SeatSale. *)
THEOREM CalmKeepsThePromise == CalmSpec => KeepsThePromise
  BY CalmHasNoStaleWrites, PromiseKeptWithoutStaleWrites, PTL
=============================================================================
