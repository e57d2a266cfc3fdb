------------------------------ MODULE RowLocks ------------------------------
(***************************************************************************)
(* The transactions of Tables, statement by statement and row by row, as   *)
(* PostgreSQL runs them under READ COMMITTED.  An UPDATE takes the rows    *)
(* that match when the statement starts, in an order SQL leaves open,      *)
(* waits for each one's lock and then evaluates its WHERE again.  An       *)
(* INSERT waits for an uncommitted row with the same unique key.  Locks    *)
(* are kept to the end of the transaction; what it wrote is seen by others *)
(* only then.  The rows of reservation_seats are its own: they are         *)
(* inserted without waiting.                                               *)
(***************************************************************************)
EXTENDS Tables

CONSTANTS
    Manages,    \* the transactions that confirm or cancel a reservation
    Pools,      \* the transactions of each server, which has a pool of its own
    MaxConns    \* the connections in a pool, 25 (one of them is golang-migrate's)

Txs == Creates \cup Manages

ASSUME TxAssumption == Creates \cap Manages = {} /\ None \notin Creates \cup Manages
ASSUME PoolAssumption == Pools \subseteq SUBSET Txs /\ MaxConns \in Nat \ {0}

VARIABLES
    step,      \* the statement each transaction is at
    op,        \* what it is for
    target,    \* the reservation it writes
    unread,    \* the rows its UPDATE of seats has still to lock
    hits,      \* the rows it has locked and found matching
    rowLock,   \* the transaction that has locked a seat's row
    resLock,   \* ... a reservation's row
    keyLock    \* ... a key in the unique index

locks == <<rowLock, resLock, keyLock>>
vars  == <<tables, step, op, target, unread, hits, locks>>

Active(t) == step[t] \notin {"idle", "done"}

(* Begin takes a connection and waits while there is none; the statements of  *)
(* a transaction run on it, and Commit or Rollback gives it back.             *)
Full(t) ==
    \E P \in Pools : t \in P /\ Cardinality({u \in P : Active(u)}) >= MaxConns

(* The rows that satisfy the WHERE of a transaction's UPDATE of seats. *)
MutantMatching(t) ==            \* a release, too, looks for reserved seats only
    {s \in Seats : seatStatus[s] = IF op[t] = "create" THEN "available" ELSE "reserved"}

Matching(t) ==
    {s \in Seats : /\ op[t] = "create"  => seatStatus[s] = "available"
                   /\ op[t] = "confirm" => seatStatus[s] = "reserved"}

Asked(t) == wants[target[t]]

Unlocked(L, t) == [x \in DOMAIN L |-> IF L[x] = t THEN None ELSE L[x]]

UnlockAll(t) ==
    /\ rowLock' = Unlocked(rowLock, t)
    /\ resLock' = Unlocked(resLock, t)
    /\ keyLock' = Unlocked(keyLock, t)

Goto(t, s) == step' = [step EXCEPT ![t] = s]

-----------------------------------------------------------------------------
BeginCreate(c) ==
    /\ step[c] = "idle" /\ ~Full(c)
    /\ \E k \in Keys, S \in Wanted : Ask(c, k, S)
    /\ op' = [op EXCEPT ![c] = "create"]
    /\ target' = [target EXCEPT ![c] = c]
    /\ Goto(c, "insert")
    /\ UNCHANGED <<status, seatStatus, reservedBy, unread, hits, locks>>

BeginManage(m) ==
    /\ step[m] = "idle" /\ ~Full(m)
    /\ \E r \in Creates : Exists(r) /\ target' = [target EXCEPT ![m] = r]
    /\ \E what \in {"confirm", "cancel"} : op' = [op EXCEPT ![m] = what]
    /\ Goto(m, "update")
    /\ UNCHANGED <<tables, unread, hits, locks>>

(* INSERT INTO reservations *)
MutantInsertKey(c) ==           \* does not wait for an uncommitted row
    /\ step[c] = "insert"
    /\ ~KeyTaken(key[c])
    /\ keyLock' = [keyLock EXCEPT ![key[c]] = c]
    /\ Goto(c, "update")
    /\ UNCHANGED <<tables, op, target, unread, hits, rowLock, resLock>>

InsertKey(c) ==
    /\ step[c] = "insert"
    /\ keyLock[key[c]] = None
    /\ ~KeyTaken(key[c])
    /\ keyLock' = [keyLock EXCEPT ![key[c]] = c]
    /\ Goto(c, "update")
    /\ UNCHANGED <<tables, op, target, unread, hits, rowLock, resLock>>

(* UPDATE seats: the statement's snapshot ... *)
MutantStartUpdate(t) ==         \* db.ExecContext: on another connection
    /\ step[t] = "update" /\ ~Full(t)
    /\ unread' = [unread EXCEPT ![t] = Asked(t) \cap Matching(t)]
    /\ Goto(t, "rows")
    /\ UNCHANGED <<tables, op, target, hits, locks>>

StartUpdate(t) ==
    /\ step[t] = "update"
    /\ unread' = [unread EXCEPT ![t] = Asked(t) \cap Matching(t)]
    /\ Goto(t, "rows")
    /\ UNCHANGED <<tables, op, target, hits, locks>>

(* ... one row after the other ... *)
MutantLockRow(t, s) ==          \* the WHERE is not evaluated again
    /\ step[t] = "rows"
    /\ s \in unread[t]
    /\ rowLock[s] = None
    /\ rowLock' = [rowLock EXCEPT ![s] = t]
    /\ unread' = [unread EXCEPT ![t] = @ \ {s}]
    /\ hits' = [hits EXCEPT ![t] = @ \cup {s}]
    /\ UNCHANGED <<tables, step, op, target, resLock, keyLock>>

LockRow(t, s) ==
    /\ step[t] = "rows"
    /\ s \in unread[t]
    /\ rowLock[s] = None
    /\ rowLock' = [rowLock EXCEPT ![s] = t]
    /\ unread' = [unread EXCEPT ![t] = @ \ {s}]
    /\ hits' = [hits EXCEPT ![t] = @ \cup ({s} \cap Matching(t))]
    /\ UNCHANGED <<tables, step, op, target, resLock, keyLock>>

(* ... and the count of rows; a shortfall is an error, so a rollback. *)
CountRows(t) ==
    /\ step[t] = "rows"
    /\ unread[t] = {}
    /\ hits[t] = Asked(t) \/ op[t] = "cancel"
    /\ Goto(t, IF op[t] = "create" THEN "commit" ELSE "reservation")
    /\ UNCHANGED <<tables, op, target, unread, hits, locks>>

(* UPDATE reservations *)
LockReservation(m) ==
    /\ step[m] = "reservation"
    /\ resLock[target[m]] = None
    /\ resLock' = [resLock EXCEPT ![target[m]] = m]
    /\ Goto(m, "commit")
    /\ UNCHANGED <<tables, op, target, unread, hits, rowLock, keyLock>>

(* What a transaction for an operation leaves in the rows it has written. *)
MutantSeatAfter ==              \* a confirm leaves the seats as they are
    [create |-> "reserved", confirm |-> "reserved", cancel |-> "available"]
SeatAfter == [create |-> "reserved", confirm |-> "confirmed", cancel |-> "available"]
MutantRowAfter == SeatAfter     \* a seat's status in reservations.status
RowAfter  == [create |-> "pending",  confirm |-> "confirmed", cancel |-> "cancelled"]

Commit(t) ==
    /\ step[t] = "commit"
    /\ seatStatus' = SetStatus(hits[t], SeatAfter[op[t]])
    /\ reservedBy' = CASE op[t] = "create"  -> SetHolder(hits[t], t)
                       [] op[t] = "confirm" -> reservedBy
                       [] op[t] = "cancel"  -> SetHolder(hits[t], None)
    /\ status' = [status EXCEPT ![target[t]] = RowAfter[op[t]]]
    /\ Goto(t, "done")
    /\ UnlockAll(t)
    /\ UNCHANGED <<key, wants, op, target, unread, hits>>

(* An error, a rollback, a lost connection. *)
Abort(t) ==
    /\ Active(t)
    /\ Goto(t, "done")
    /\ UnlockAll(t)
    /\ UNCHANGED <<tables, op, target, unread, hits>>

-----------------------------------------------------------------------------
(* t waits for a lock that u has. *)
WaitsFor(t, u) ==
    \/ step[t] = "insert" /\ keyLock[key[t]] = u
    \/ step[t] = "rows" /\ \E s \in unread[t] : rowLock[s] = u
    \/ step[t] = "reservation" /\ resLock[target[t]] = u

(* A transaction can go no further than its wait: for a row, it is committed *)
(* to the one it has come to, so it may be stuck although others are free.   *)
MutantDeadlocked(t) == FALSE          \* cycles are not detected
Deadlocked(t) ==
    /\ \E u \in Txs : WaitsFor(t, u)
    /\ \E W \in SUBSET Txs : t \in W /\ \A x \in W : \E y \in W : WaitsFor(x, y)

Refused(t) ==
    \/ step[t] = "insert" /\ KeyTaken(key[t])
    \/ step[t] = "rows" /\ unread[t] = {} /\ hits[t] # Asked(t) /\ op[t] # "cancel"

(* An error ends a transaction whose key is taken or whose UPDATE matched too *)
(* few rows, and PostgreSQL one that waits in a cycle.                        *)
Fail(t) == Active(t) /\ (Refused(t) \/ Deadlocked(t)) /\ Abort(t)

Advance(t) ==
    \/ t \in Creates /\ InsertKey(t)
    \/ StartUpdate(t)
    \/ \E s \in Seats : LockRow(t, s)
    \/ CountRows(t)
    \/ t \in Manages /\ LockReservation(t)
    \/ Commit(t)

Init ==
    /\ TablesInit
    /\ step = [t \in Txs |-> "idle"]
    /\ op = [t \in Txs |-> "none"]
    /\ target = [t \in Txs |-> None]
    /\ unread = [t \in Txs |-> {}]
    /\ hits = [t \in Txs |-> {}]
    /\ rowLock = [s \in Seats |-> None]
    /\ resLock = [r \in Creates |-> None]
    /\ keyLock = [k \in Keys |-> None]

Next ==
    \/ \E c \in Creates : BeginCreate(c)
    \/ \E m \in Manages : BeginManage(m)
    \/ \E t \in Txs : Advance(t) \/ Abort(t)

Spec == Init /\ [][Next]_vars

(* A transaction that waits for nobody goes on, to its commit or to an error; *)
(* of those that wait for each other one at least is ended.                   *)
FairSpec == Spec /\ \A t \in Txs : WF_vars(Advance(t) \/ Fail(t))

-----------------------------------------------------------------------------
(* Every variable keeps its type. *)
TypeOK ==
    /\ status \in [Creates -> Statuses]
    /\ seatStatus \in [Seats -> SeatStatuses]
    /\ reservedBy \in [Seats -> Creates \cup {None}]
    /\ key \in [Creates -> Keys \cup {None}]
    /\ wants \in [Creates -> Wanted \cup {{}}]
    /\ step \in [Txs -> {"idle", "insert", "update", "rows", "reservation", "commit", "done"}]
    /\ op \in [Txs -> {"none", "create", "confirm", "cancel"}]
    /\ target \in [Txs -> Creates \cup {None}]
    /\ unread \in [Txs -> SUBSET Seats]
    /\ hits \in [Txs -> SUBSET Seats]
    /\ rowLock \in [Seats -> Txs \cup {None}]
    /\ resLock \in [Creates -> Txs \cup {None}]
    /\ keyLock \in [Keys -> Txs \cup {None}]

(* What an UPDATE has found matching is locked and goes on matching until its *)
(* transaction ends, and a key that was free when inserted stays free.        *)
MatchesHold ==
    \A t \in Txs : Active(t) =>
        /\ hits[t] \subseteq Matching(t)
        /\ \A s \in hits[t] : rowLock[s] = t
        /\ op[t] = "create" /\ step[t] # "insert" => ~KeyTaken(key[t])

CreatesFollow ==
    \A c \in Creates :
        /\ step[c] # "done" => ~Exists(c)
        /\ step[c] # "idle" => /\ op[c] = "create" /\ target[c] = c
                               /\ key[c] \in Keys /\ wants[c] \in Wanted
        /\ step[c] \in {"update", "rows", "commit"} => keyLock[key[c]] = c
        /\ step[c] # "reservation"

ManagesFollow ==
    \A m \in Manages :
        /\ step[m] # "idle" => /\ op[m] \in {"confirm", "cancel"}
                               /\ target[m] \in Creates /\ Exists(target[m])
        /\ step[m] # "insert"

UpdatesFollow ==
    \A t \in Txs :
        /\ step[t] \in {"idle", "insert", "update"} => hits[t] = {}
        /\ step[t] = "rows" => /\ hits[t] \cup unread[t] \subseteq Asked(t)
                               /\ op[t] = "cancel" => hits[t] \cup unread[t] = Asked(t)
        /\ step[t] \in {"reservation", "commit"} => hits[t] = Asked(t)

LocksFollow ==
    \A t \in Txs :
        /\ \A s \in Seats : rowLock[s] = t =>
              step[t] \in {"rows", "reservation", "commit"} /\ s \notin unread[t]
        /\ \A r \in Creates : resLock[r] = t => step[t] = "commit" /\ target[t] = r
        /\ \A k \in Keys : keyLock[k] = t =>
              t \in Creates /\ step[t] \in {"update", "rows", "commit"} /\ key[t] = k

(* What a transaction has done by the statement it is at: a create has no row  *)
(* yet and has its key to itself, one that commits has found every row it     *)
(* asked for, and one that has ended, or not come to its UPDATE, has no locks. *)
StatementsFollow == CreatesFollow /\ ManagesFollow /\ UpdatesFollow /\ LocksFollow

(* Seen through what is committed, transactions are single steps: the check   *)
(* of every row and of the key, the writes and the commit are one.            *)
TransactionsAreAtomic == TablesSpec

(* What t needs for its next statement is there. *)
Ready(t) ==
    \/ step[t] = "insert" /\ keyLock[key[t]] = None /\ ~KeyTaken(key[t])
    \/ step[t] = "rows" /\ \E s \in unread[t] : rowLock[s] = None
    \/ step[t] = "rows" /\ unread[t] = {} /\ (hits[t] = Asked(t) \/ op[t] = "cancel")
    \/ step[t] = "reservation" /\ resLock[target[t]] = None
    \/ step[t] \in {"update", "commit"}

(* Whatever waits, for a row, a key or a connection, waits for nothing but     *)
(* transactions, one of which goes on, is refused or is ended as a deadlock's  *)
(* victim: locks and connections never outlive the transactions they belong to. *)
NeverStuck ==
    \A t \in Txs :
        Active(t) \/ (step[t] = "idle" /\ Full(t)) =>
            \E u \in Txs : Active(u) /\ (Ready(u) \/ Refused(u) \/ Deadlocked(u))

(* Deadlocks are over rows of seats only, which two UPDATEs lock in different  *)
(* orders: a wait for a key or for a reservation's row never closes a cycle.   *)
DeadlocksAreOverSeats ==
    \A W \in SUBSET Txs :
        W # {} /\ (\A x \in W : \E y \in W : WaitsFor(x, y)) =>
            /\ \A x \in W : step[x] # "reservation"
            /\ \E x, y \in W :
                  x # y /\ step[x] = "rows" /\ step[y] = "rows" /\ WaitsFor(x, y)

(* How far a transaction has come; a step of the system takes one further. *)
Order == [idle |-> 0, insert |-> 1, update |-> 2, rows |-> 3, reservation |-> 4, commit |-> 5,
          done |-> 6]

OnlyForward(t) ==
    /\ \/ Order[step[t]] < Order[step'[t]]
       \/ step'[t] = step[t] /\ unread'[t] \subseteq unread[t] /\ unread'[t] # unread[t]
    /\ \A u \in Txs \ {t} : step'[u] = step[u] /\ unread'[u] = unread[u]

(* Nothing is tried again inside a transaction: every step takes one of them a *)
(* statement or a row further, and leaves the others where they are.           *)
StepsGoForward == [][\E t \in Txs : OnlyForward(t)]_vars

(* Every transaction ends, the ones that lock rows in opposite orders and the *)
(* ones that have taken a pool's last connections too.                        *)
TransactionsEnd == \A t \in Txs : Active(t) ~> step[t] = "done"
=============================================================================
