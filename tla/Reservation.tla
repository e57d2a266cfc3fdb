----------------------------- MODULE Reservation -----------------------------
(***************************************************************************)
(* The reservations of one event: the HTTP handlers that create, confirm   *)
(* and cancel a reservation (internal/application/reservation_service.go), *)
(* the worker that cancels the expired ones, the tables they share in      *)
(* PostgreSQL, the seat lock and the seat count they keep in Redis.        *)
(*                                                                         *)
(* Every request is a process, because every request runs on a goroutine   *)
(* of one of several servers.  A read outside a transaction is a step of   *)
(* its own and what it returned may be stale in the next one.  A           *)
(* transaction is one step, its commit: under READ COMMITTED each of its   *)
(* UPDATEs evaluates its WHERE again on the row it locks, and the rows     *)
(* stay locked until the commit, so nothing can come between the checks    *)
(* that count and the commit.                                              *)
(***************************************************************************)
EXTENDS Tables

CONSTANTS       \* Creates are the POST /reservations requests
    Manages,    \* the POST /reservations/:id/confirm and .../cancel requests
    Cleaners,   \* the expired-reservation cleaners, one in each server
    Viewers,    \* the GET .../seats/available/count requests under way
    MaxTries,   \* attempts at the lock (3 in the code)
    Failed      \* the answer of a request that ended in an error

Requests == Creates \cup Manages

ASSUME TriesAssumption   == MaxTries \in Nat \ {0}
ASSUME RequestAssumption == Creates \cap Manages = {}
ASSUME NullAssumption    == /\ None \notin Creates \cup Keys \cup Nat
                            /\ Failed \notin Creates
                            /\ None # Failed

VARIABLES
    expired,     \* the reservations whose expires_at has passed
    \* Redis
    lock,        \* the lock's owner by lock key, a key being a set of seats
    cache,       \* the event's cached count of available seats
    \* the requests
    pc,          \* the step each is at
    answer,      \* what it answered: a reservation, or Failed
    tries,       \* a create's failed attempts at the lock
    op,          \* what a managing request does
    target,      \* the reservation it does it to
    \* the workers
    todo,        \* what each cleaner read and has not worked off yet
    counted      \* what each viewer counted and has not cached yet

database == <<status, seatStatus, reservedBy, expired>>
creating == <<key, wants, tries>>
managing == <<op, target>>
vars == <<database, lock, cache, pc, answer, creating, managing, todo, counted>>

Steps == {"new", "lock", "check", "insert", "committed", "unlock",
          "update", "done"}

(* The domain methods, on the copy of the row the handler has read. *)
MutantCancellable == {r \in Creates : Live(r)}                        \* confirmed ones too

Confirmable == {r \in Creates : status[r] = "pending" /\ r \notin expired}
Cancellable == {r \in Creates : status[r] = "pending"}

(* DEL of the cached count; its failure is logged and ignored. *)
InvalidateCache == cache' \in {None, cache}

-----------------------------------------------------------------------------
Goto(q, step)  == pc' = [pc EXCEPT ![q] = step]
Reply(q, what) == answer' = [answer EXCEPT ![q] = what]

(* CreateReservation *)

(* A request arrives; a reservation with its key is returned as it is. *)
LookupKey(c) ==
    /\ pc[c] = "new"
    /\ \E k \in Keys, S \in Wanted :
        /\ Ask(c, k, S)
        /\ \/ /\ ~KeyTaken(k)
              /\ Goto(c, "lock")
              /\ UNCHANGED answer
           \/ \E r \in Creates :
              /\ Exists(r) /\ key[r] = k
              /\ Reply(c, r)
              /\ Goto(c, "done")
    /\ UNCHANGED <<database, lock, cache, tries, managing, todo, counted>>

(* SetNX wins; the key is the whole set of seats, sorted and joined. *)
AcquireLock(c) ==
    /\ pc[c] = "lock"
    /\ lock[wants[c]] = None
    /\ lock' = [lock EXCEPT ![wants[c]] = c]
    /\ Goto(c, "check")
    /\ UNCHANGED <<database, cache, answer, creating, managing, todo, counted>>

(* SetNX loses: another attempt after a delay, or the request gives up. *)
MissLock(c) ==
    /\ pc[c] = "lock"
    /\ lock[wants[c]] # None
    /\ tries' = [tries EXCEPT ![c] = @ + 1]
    /\ IF tries[c] + 1 < MaxTries
       THEN UNCHANGED <<pc, answer>>
       ELSE Goto(c, "done") /\ Reply(c, Failed)
    /\ UNCHANGED <<database, lock, cache, key, wants, managing, todo, counted>>

(* The event is open and every seat read is available. *)
CheckSeats(c) ==
    /\ pc[c] = "check"
    /\ wants[c] \subseteq Available
    /\ Goto(c, "insert")
    /\ UNCHANGED <<database, lock, cache, answer, creating, managing, todo, counted>>

(* A read fails, the event is gone or closed, a seat is unknown or taken. *)
RefuseCreate(c) ==
    /\ pc[c] = "check"
    /\ Reply(c, Failed)
    /\ Goto(c, "unlock")
    /\ UNCHANGED <<database, lock, cache, creating, managing, todo, counted>>

(* The transaction commits. *)
CommitCreate(c) ==
    /\ pc[c] = "insert"
    /\ CreateTx(c)
    /\ Goto(c, "committed")
    /\ UNCHANGED <<expired, lock, cache, answer, creating, managing, todo, counted>>

(* It does not: the key or a seat is taken by now, or a statement fails. *)
MutantRollbackCreate(c) ==      \* the row is inserted outside the transaction
    /\ pc[c] = "insert"
    /\ InsertReservation(c)
    /\ Reply(c, Failed)
    /\ Goto(c, "unlock")
    /\ UNCHANGED <<seatStatus, reservedBy, expired, lock, cache, creating, managing, todo, counted>>

RollbackCreate(c) ==
    /\ pc[c] = "insert"
    /\ Reply(c, Failed)
    /\ Goto(c, "unlock")
    /\ UNCHANGED <<database, lock, cache, creating, managing, todo, counted>>

FinishCreate(c) ==
    /\ pc[c] = "committed"
    /\ InvalidateCache
    /\ Reply(c, c)
    /\ Goto(c, "unlock")
    /\ UNCHANGED <<database, lock, creating, managing, todo, counted>>

(* The commit took place but its acknowledgement was lost: Commit reports an error. *)
MisreportCreate(c) ==
    /\ pc[c] = "committed"
    /\ Reply(c, Failed)
    /\ Goto(c, "unlock")
    /\ UNCHANGED <<database, lock, cache, creating, managing, todo, counted>>

(* The deferred Release deletes the key if it still holds this request's value; *)
(* its error is ignored.                                                        *)
MutantReleaseLock(c) ==         \* tried again while the lock is another's
    /\ pc[c] = "unlock"
    /\ lock[wants[c]] = c
    /\ lock' = [lock EXCEPT ![wants[c]] = None]
    /\ Goto(c, "done")
    /\ UNCHANGED <<database, cache, answer, creating, managing, todo, counted>>

ReleaseLock(c) ==
    /\ pc[c] = "unlock"
    /\ \/ lock[wants[c]] = c /\ lock' = [lock EXCEPT ![wants[c]] = None]
       \/ UNCHANGED lock
    /\ Goto(c, "done")
    /\ UNCHANGED <<database, cache, answer, creating, managing, todo, counted>>

-----------------------------------------------------------------------------
(* ConfirmReservation and CancelReservation: a read, the domain method on the *)
(* copy read, then a transaction that does not look at the status again.      *)

Load(m, what, Allowed) ==
    /\ pc[m] = "new"
    /\ \E r \in Creates :
        /\ op' = [op EXCEPT ![m] = what]
        /\ target' = [target EXCEPT ![m] = r]
        /\ IF r \in Allowed
           THEN Goto(m, "update") /\ UNCHANGED answer
           ELSE Goto(m, "done") /\ Reply(m, Failed)
    /\ UNCHANGED <<database, lock, cache, creating, todo, counted>>

LoadForConfirm(m) == Load(m, "confirm", Confirmable)
LoadForCancel(m)  == Load(m, "cancel", Cancellable)

CommitConfirm(m) ==
    /\ pc[m] = "update" /\ op[m] = "confirm"
    /\ ConfirmTx(target[m])
    /\ Goto(m, "committed")
    /\ UNCHANGED <<expired, lock, cache, answer, creating, managing, todo, counted>>

CommitCancel(m) ==
    /\ pc[m] = "update" /\ op[m] = "cancel"
    /\ CancelTx(target[m])
    /\ Goto(m, "committed")
    /\ UNCHANGED <<expired, lock, cache, answer, creating, managing, todo, counted>>

RollbackManage(m) ==
    /\ pc[m] = "update"
    /\ Reply(m, Failed)
    /\ Goto(m, "done")
    /\ UNCHANGED <<database, lock, cache, creating, managing, todo, counted>>

(* A cancel invalidates the cached count; a confirm leaves it alone. *)
FinishManage(m) ==
    /\ pc[m] = "committed"
    /\ IF op[m] = "cancel" THEN InvalidateCache ELSE UNCHANGED cache
    /\ Reply(m, target[m])
    /\ Goto(m, "done")
    /\ UNCHANGED <<database, lock, creating, managing, todo, counted>>

(* The request dies where it is: its server crashes, a panic, the 30 second *)
(* timeout, a Commit that reports an error.  An open transaction is rolled  *)
(* back; a lock is left to its TTL, Release needs the same context.         *)
Abandon(q) ==
    /\ pc[q] \notin {"new", "done"}
    /\ Reply(q, Failed)
    /\ Goto(q, "done")
    /\ UNCHANGED <<database, lock, cache, creating, managing, todo, counted>>

-----------------------------------------------------------------------------
(* CancelExpiredReservations, run by each server's cleaner. *)

(* One SELECT; an interrupted or failed round starts over with the next one. *)
ListExpired(w) ==
    /\ todo[w] = {}
    /\ todo' = [todo EXCEPT ![w] = {r \in expired : status[r] = "pending"}]
    /\ UNCHANGED <<database, lock, cache, pc, answer, creating, managing, counted>>

(* One transaction for each reservation read, the cached count left alone. *)
CancelListed(w, r) ==
    /\ r \in todo[w]
    /\ CancelTx(r)
    /\ todo' = [todo EXCEPT ![w] = @ \ {r}]
    /\ UNCHANGED <<expired, lock, cache, pc, answer, creating, managing, counted>>

(* A transaction fails: continue with the next reservation. *)
SkipListed(w, r) ==
    /\ r \in todo[w]
    /\ todo' = [todo EXCEPT ![w] = @ \ {r}]
    /\ UNCHANGED <<database, lock, cache, pc, answer, creating, managing, counted>>

(* The server stops or crashes in the middle of the list. *)
StopCleaner(w) ==
    /\ todo[w] # {}
    /\ todo' = [todo EXCEPT ![w] = {}]
    /\ UNCHANGED <<database, lock, cache, pc, answer, creating, managing, counted>>

-----------------------------------------------------------------------------
(* CountAvailableSeats: on a miss, or when Redis fails, count and then store; *)
(* a hit changes nothing.                                                     *)

CountSeats(v) ==
    /\ counted[v] = None
    /\ counted' = [counted EXCEPT ![v] = Cardinality(Available)]
    /\ UNCHANGED <<database, lock, cache, pc, answer, creating, managing, todo>>

StoreCount(v) ==
    /\ counted[v] # None
    /\ cache' \in {counted[v], cache}
    /\ counted' = [counted EXCEPT ![v] = None]
    /\ UNCHANGED <<database, lock, pc, answer, creating, managing, todo>>

-----------------------------------------------------------------------------
(* POST .../seats and .../seats/bulk, while the event is on sale: the cached  *)
(* count is left alone, SeatService.InvalidateCache has no caller.            *)
AddSeats(S) ==
    /\ InsertSeats(S)
    /\ UNCHANGED <<status, expired, lock, cache, pc, answer, creating, managing, todo, counted>>

-----------------------------------------------------------------------------
(* The passing of time. *)

(* 15 minutes after its creation; only a pending row is asked for its deadline. *)
Expire(r) ==
    /\ status[r] = "pending" /\ r \notin expired
    /\ expired' = expired \cup {r}
    /\ UNCHANGED <<status, seatStatus, reservedBy, lock, cache, pc, answer,
                   creating, managing, todo, counted>>

(* The lock's TTL of 10 seconds, whatever its owner is doing. *)
TimeoutLock(S) ==
    /\ lock[S] # None
    /\ lock' = [lock EXCEPT ![S] = None]
    /\ UNCHANGED <<database, cache, pc, answer, creating, managing, todo, counted>>

(* The count's TTL of 30 seconds. *)
MutantTimeoutCache == FALSE /\ UNCHANGED vars                         \* SET without a TTL

TimeoutCache ==
    /\ cache # None
    /\ cache' = None
    /\ UNCHANGED <<database, lock, pc, answer, creating, managing, todo, counted>>

-----------------------------------------------------------------------------
Init ==
    /\ TablesInit
    /\ expired = {}
    /\ lock = [S \in Wanted |-> None]
    /\ cache = None
    /\ pc = [q \in Requests |-> "new"]
    /\ answer = [q \in Requests |-> None]
    /\ tries = [c \in Creates |-> 0]
    /\ op = [m \in Manages |-> "none"]
    /\ target = [m \in Manages |-> None]
    /\ todo = [w \in Cleaners |-> {}]
    /\ counted = [v \in Viewers |-> None]

CreateProgress(c) ==
    \/ AcquireLock(c) \/ MissLock(c)
    \/ CheckSeats(c) \/ RefuseCreate(c)
    \/ CommitCreate(c) \/ RollbackCreate(c)
    \/ FinishCreate(c) \/ MisreportCreate(c)
    \/ ReleaseLock(c)

ManageProgress(m) ==
    \/ CommitConfirm(m) \/ CommitCancel(m) \/ RollbackManage(m) \/ FinishManage(m)

CleanerProgress(w) ==
    \/ ListExpired(w)
    \/ \E r \in Creates : CancelListed(w, r) \/ SkipListed(w, r)

Next ==
    \/ \E c \in Creates : LookupKey(c) \/ CreateProgress(c) \/ Expire(c)
    \/ \E m \in Manages : LoadForConfirm(m) \/ LoadForCancel(m) \/ ManageProgress(m)
    \/ \E q \in Requests : Abandon(q)
    \/ \E w \in Cleaners : CleanerProgress(w) \/ StopCleaner(w)
    \/ \E v \in Viewers : CountSeats(v) \/ StoreCount(v)
    \/ \E S \in SUBSET Late : AddSeats(S)
    \/ \E S \in Wanted : TimeoutLock(S)
    \/ TimeoutCache

Spec == Init /\ [][Next]_vars

(* What the code does not ensure: that no two of the confirms, cancels and   *)
(* cleaner rounds under way have read the same reservation.  CalmSpec is the *)
(* system with clients and servers that happen to keep to it.                *)
OneManagerAtATime ==
    /\ \A m, n \in Manages :
          pc[m] = "update" /\ pc[n] = "update" /\ m # n => target[m] # target[n]
    /\ \A m \in Manages, w \in Cleaners :
          pc[m] = "update" => target[m] \notin todo[w]
    /\ \A v, w \in Cleaners : v # w => todo[v] \cap todo[w] = {}

CalmSpec == Init /\ [][Next /\ OneManagerAtATime']_vars

(* The commit of a confirm, a cancel or a cleaner that changes the tables for *)
(* a reservation that is by then in one of the statuses Old.                   *)
StaleWrite(Old) ==
    /\ \E r \in Creates : status[r] \in Old /\ (ConfirmTx(r) \/ CancelTx(r))
    /\ <<status, seatStatus, reservedBy>>' # <<status, seatStatus, reservedBy>>

(* The system without those writes, as it would be if UPDATE reservations     *)
(* looked at the status again and the transaction failed on one of Old.  Unlike *)
(* CalmSpec it lets confirms, cancels and cleaners overlap as they like.       *)
SpecWithout(Old) == Init /\ [][Next /\ ~StaleWrite(Old)]_vars

(* Invalidations that take place and take effect: no request dies between its *)
(* commit and the DEL, which Redis executes.                                  *)
PromptInvalidation ==
    \A q \in Requests :
        pc[q] = "committed" /\ pc'[q] # "committed" =>
            /\ answer'[q] # Failed
            /\ q \in Creates \/ op[q] = "cancel" => cache' = None

PromptSpec == Init /\ [][Next /\ PromptInvalidation]_vars

(* Handlers run to their end unless they are abandoned; deadlines and TTLs    *)
(* pass; the cleaner's ticker fires again and again, and a transaction tried  *)
(* again and again does not fail forever.                                     *)
Fairness ==
    /\ \A c \in Creates : WF_vars(CreateProgress(c)) /\ WF_vars(Expire(c))
    /\ \A m \in Manages : WF_vars(ManageProgress(m))
    /\ \A w \in Cleaners :
          /\ WF_vars(CleanerProgress(w))
          /\ \A r \in Creates : SF_vars(CancelListed(w, r))
    /\ \A v \in Viewers : WF_vars(StoreCount(v))
    /\ \A S \in Wanted : WF_vars(TimeoutLock(S))
    /\ WF_vars(TimeoutCache)

FairSpec == Spec /\ Fairness

-----------------------------------------------------------------------------
(* Every variable keeps its type, the columns those of the migrations. *)
TypeOK ==
    /\ status \in [Creates -> Statuses]
    /\ seatStatus \in [Seats -> SeatStatuses]
    /\ reservedBy \in [Seats -> Creates \cup {None}]
    /\ expired \subseteq Creates
    /\ lock \in [Wanted -> Creates \cup {None}]
    /\ cache \in Nat \cup {None}
    /\ pc \in [Requests -> Steps]
    /\ answer \in [Requests -> Creates \cup {None, Failed}]
    /\ key \in [Creates -> Keys \cup {None}]
    /\ wants \in [Creates -> Wanted \cup {{}}]
    /\ tries \in [Creates -> Nat]
    /\ op \in [Manages -> {"none", "confirm", "cancel"}]
    /\ target \in [Manages -> Creates \cup {None}]
    /\ todo \in [Cleaners -> SUBSET Creates]
    /\ counted \in [Viewers -> Nat \cup {None}]

(* Requests with one idempotency key that are answered with a reservation are *)
(* answered with the same one, and it exists.  The key is looked up outside   *)
(* the transaction and again by the UNIQUE constraint.                        *)
SameKeySameReservation ==
    \A c, d \in Creates :
        answer[c] \in Creates /\ answer[d] \in Creates /\ key[c] = key[d] =>
            answer[c] = answer[d] /\ Exists(answer[c])

(* Whatever handlers, cleaners and crashes interleave, the tables change by    *)
(* whole transactions: a row is inserted once, with all its seats, and later   *)
(* only confirmed or cancelled, by writes that may be stale but not partial.   *)
(* RowLocks takes the same transactions apart and shows that they are steps.   *)
TablesChangeWhole == TablesSpec

(* The seats a reservation asked for are its own, in the status that goes     *)
(* with its own; a live one of which this is not true has been robbed.        *)
Owns(r) ==
    \A s \in wants[r] :
        /\ reservedBy[s] = r
        /\ seatStatus[s] = IF status[r] = "pending" THEN "reserved" ELSE "confirmed"

Robbed == {r \in Creates : Live(r) /\ ~Owns(r)}

(* What a pending or confirmed reservation asked for is its own.  Only true   *)
(* under CalmSpec.                                                            *)
OwnsItsSeats == \A r \in Creates : Live(r) => Owns(r)

(* No seat is sold twice: live reservations share no seat. *)
NoDoubleBooking ==
    \A r, q \in Creates : Live(r) /\ Live(q) /\ r # q => wants[r] \cap wants[q] = {}

(* A client told that a reservation is confirmed keeps it. *)
ConfirmationsAreKept ==
    \A m \in Manages :
        op[m] = "confirm" /\ answer[m] \in Creates => status[answer[m]] = "confirmed"

(* The same from the commit of the confirm on, before its client is told. *)
ConfirmationHolds(m) ==
    op[m] = "confirm" /\ (pc[m] = "committed" \/ answer[m] \in Creates) =>
        status[target[m]] = "confirmed"

ConfirmationsHold == \A m \in Manages : ConfirmationHolds(m)

(* Where these are lost, however much has gone wrong before.  A reservation    *)
(* that becomes live, or that owns its seats, is only robbed of one by the     *)
(* commit of a confirm or cancel of a reservation that has been cancelled      *)
(* since it was read, or has been robbed itself: the first loss is due to a    *)
(* stale write, each later one to another or to what those before have left.  *)
(* A confirmation is only lost to a cancel of what was confirmed since it was  *)
(* read.  The cleaner's cancels count among these; creates are never at fault, *)
(* whatever has become of their locks.                                         *)
LossesHaveACause ==
    [][/\ \/ Robbed' \subseteq Robbed
          \/ StaleWrite({"cancelled"})
          \/ \E q \in Robbed : ConfirmTx(q) \/ CancelTx(q)
       /\ \A m \in Manages :
            ConfirmationHolds(m) /\ ~ConfirmationHolds(m)' => StaleWrite({"confirmed"})]_vars

(* How the requests' progress follows the rows: none has a reservation before  *)
(* its commit, what one answers or works on is a row that exists, and two     *)
(* rows never have one key.                                                   *)
RequestsMatchRows ==
    /\ \A c \in Creates :
        /\ pc[c] \in {"new", "lock", "check", "insert"} => ~Exists(c)
        /\ pc[c] = "committed" => Exists(c)
        /\ IF pc[c] = "new" THEN answer[c] = None /\ key[c] = None
                            ELSE wants[c] \in Wanted /\ key[c] \in Keys
        /\ answer[c] \in Creates => Exists(answer[c]) /\ key[answer[c]] = key[c]
    /\ \A m \in Manages :
        /\ pc[m] \in {"update", "committed"} => target[m] \in Creates /\ Exists(target[m])
        /\ pc[m] = "new" => answer[m] = None
        /\ answer[m] \in Creates => pc[m] = "done" /\ answer[m] = target[m]
    /\ \A w \in Cleaners : \A r \in todo[w] : Exists(r)
    /\ \A r, q \in Creates : Exists(r) /\ Exists(q) /\ key[r] = key[q] => r = q

(* In calm behaviour what confirms, cancels and cleaners have read of a        *)
(* reservation is still so when they commit, and what they have committed     *)
(* stays.                                                                     *)
NothingIsStale ==
    /\ \A m \in Manages :
        /\ pc[m] = "update" => status[target[m]] = "pending"
        /\ op[m] = "confirm" /\ (pc[m] = "committed" \/ answer[m] \in Creates)
              => status[target[m]] = "confirmed"
    /\ \A w \in Cleaners : \A r \in todo[w] : status[r] = "pending"

(* What users are promised, kept by the reservations and seats tables. *)
Sale == INSTANCE SeatSale WITH Reservations <- Creates, state <- status, owner <- reservedBy

(* Calm behaviour implements it: a booking takes all its seats in one step,   *)
(* and nothing but a cancel of a pending reservation, of all its seats and no *)
(* others, ever takes one back.                                               *)
KeepsThePromise == Sale!Spec

(* What a request was told when it ended; what it settled before does not count. *)
Told == [c \in Creates |-> IF pc[c] = "done" THEN answer[c] ELSE None]
Made == [k \in Keys |-> {r \in Creates : Exists(r) /\ key[r] = k}]

ByKey == INSTANCE OncePerKey WITH Requests <- Creates, asked <- key, made <- Made, told <- Told

(* A key sent again is safe: whatever races, fails, crashes or is misreported, *)
(* it makes one reservation at most, which no cancel or cleaner ever takes out *)
(* from under the key, and every request that is told of one is told of that.  *)
KeysAreIdempotent == ByKey!Spec

(* The count viewers get from the cache is right whenever nobody is at work. *)
CacheIsFresh ==
    /\ \A q \in Requests : pc[q] \in {"new", "done"}
    /\ \A v \in Viewers : counted[v] = None
    /\ cache # None
    => cache = Cardinality(Available)

(* Every request that has started is answered, in spite of the lock. *)
RequestsAreAnswered ==
    \A q \in Requests : pc[q] # "new" ~> pc[q] = "done"

(* A reserved seat does not stay reserved: it is confirmed or it is available *)
(* again, however confirms, cancels and cleaners overlap and fail.            *)
ReservedSeatsMoveOn ==
    \A s \in Seats : seatStatus[s] = "reserved" ~> seatStatus[s] # "reserved"

(* Once the seats stop changing, the cached count becomes right for good,     *)
(* although neither the cleaner nor a count stored late is ever corrected.    *)
CacheConverges ==
    <>[](cache \in {None, Cardinality(Available)})
=============================================================================
