--------------------------- MODULE RowLocksProofs ---------------------------
(* Transactions that lock row by row are atomic, for any numbers of *)
(* transactions, seats and keys.                                    *)
EXTENDS RowLocks, TablesProofs, FiniteSetTheorems, TLAPS

Inv == TypeOK /\ StatementsFollow /\ MatchesHold

LEMMA InvInit == Init => Inv
  BY TxAssumption DEF Init, TablesInit, Inv, TypeOK, StatementsFollow, CreatesFollow,
         ManagesFollow, UpdatesFollow, LocksFollow, MatchesHold, Txs, Active,
         Exists, Statuses, SeatStatuses

(* The type invariant, action by action. *)
LEMMA TypeStep == TypeOK /\ StatementsFollow /\ [Next]_vars => TypeOK'
  <1> SUFFICES ASSUME TypeOK, StatementsFollow, [Next]_vars PROVE TypeOK'
    OBVIOUS
  <1> USE SeatsAssumption, TxAssumption
      DEF TypeOK, Txs, Statuses, SeatStatuses, Goto, locks, tables, Unlocked, UnlockAll
  <1>1. ASSUME NEW c \in Creates, BeginCreate(c) PROVE TypeOK'
    BY <1>1 DEF BeginCreate, Ask
  <1>2. ASSUME NEW m \in Manages, BeginManage(m) PROVE TypeOK'
    BY <1>2 DEF BeginManage
  <1>3. ASSUME NEW c \in Creates, InsertKey(c) PROVE TypeOK'
    BY <1>3 DEF InsertKey
  <1>4. ASSUME NEW t \in Txs, StartUpdate(t) PROVE TypeOK'
    <2>1. Asked(t) \cap Matching(t) \subseteq Seats
      BY <1>4 DEF Asked, StartUpdate, StatementsFollow, CreatesFollow, ManagesFollow, UpdatesFollow
    <2>2. QED
      BY <1>4, <2>1 DEF StartUpdate
  <1>5. ASSUME NEW t \in Txs, NEW s \in Seats, LockRow(t, s) PROVE TypeOK'
    BY <1>5 DEF LockRow
  <1>6. ASSUME NEW t \in Txs, CountRows(t) PROVE TypeOK'
    BY <1>6 DEF CountRows
  <1>7. ASSUME NEW m \in Manages, LockReservation(m) PROVE TypeOK'
    BY <1>7 DEF LockReservation
  <1>8. ASSUME NEW t \in Txs, Commit(t) PROVE TypeOK'
    <2>1. /\ op[t] \in {"create", "confirm", "cancel"}
          /\ op[t] = "create" => t \in Creates
      BY <1>8 DEF Commit, StatementsFollow, CreatesFollow, ManagesFollow, UpdatesFollow
    <2> USE DEF SetStatus, SetHolder, SeatAfter, RowAfter
    <2>2. seatStatus' \in [Seats -> SeatStatuses] /\ status' \in [Creates -> Statuses]
      <3>1. SeatAfter[op[t]] \in SeatStatuses /\ RowAfter[op[t]] \in Statuses
        BY <2>1
      <3>2. QED
        BY <1>8, <3>1 DEF Commit
    <2>3. reservedBy' \in [Seats -> Creates \cup {None}]
      <3>1. CASE op[t] = "create"
        BY <1>8, <2>1, <3>1 DEF Commit
      <3>2. CASE op[t] = "confirm"
        BY <1>8, <3>2 DEF Commit
      <3>3. CASE op[t] = "cancel"
        BY <1>8, <3>3 DEF Commit
      <3>4. QED
        BY <2>1, <3>1, <3>2, <3>3
    <2>4. QED
      BY <1>8, <2>2, <2>3 DEF Commit
  <1>9. ASSUME NEW t \in Txs, Abort(t) PROVE TypeOK'
    BY <1>9 DEF Abort
  <1>10. CASE UNCHANGED vars
    BY <1>10 DEF vars
  <1>11. QED
    BY <1>1, <1>2, <1>3, <1>4, <1>5, <1>6, <1>7, <1>8, <1>9, <1>10 DEF Next, Advance

(* What has been done by each statement. *)
StatementsOnly == CreatesFollow /\ ManagesFollow /\ UpdatesFollow

LEMMA StatementsStep ==
  TypeOK /\ StatementsFollow /\ [Next]_vars => StatementsOnly'
  <1> SUFFICES ASSUME TypeOK, StatementsFollow, [Next]_vars PROVE StatementsOnly'
    OBVIOUS
  <1> USE SeatsAssumption, TxAssumption
      DEF TypeOK, StatementsFollow, StatementsOnly, CreatesFollow, ManagesFollow, UpdatesFollow, Txs, Exists, Asked, Statuses, Goto, locks, tables
  <1>1. ASSUME NEW c \in Creates, BeginCreate(c) PROVE StatementsOnly'
    BY <1>1 DEF BeginCreate, Ask
  <1>2. ASSUME NEW m \in Manages, BeginManage(m) PROVE StatementsOnly'
    BY <1>2 DEF BeginManage
  <1>3. ASSUME NEW c \in Creates, InsertKey(c) PROVE StatementsOnly'
    BY <1>3 DEF InsertKey
  <1>4. ASSUME NEW t \in Txs, StartUpdate(t) PROVE StatementsOnly'
    <2>1. op[t] = "cancel" => Matching(t) = Seats
      BY DEF Matching
    <2>2. Asked(t) \subseteq Seats
      BY <1>4 DEF StartUpdate
    <2>3. QED
      BY <1>4, <2>1, <2>2 DEF StartUpdate
  <1>5. ASSUME NEW t \in Txs, NEW s \in Seats, LockRow(t, s) PROVE StatementsOnly'
    <2>1. op[t] = "cancel" => Matching(t) = Seats
      BY DEF Matching
    <2>2. QED
      BY <1>5, <2>1 DEF LockRow
  <1>6. ASSUME NEW t \in Txs, CountRows(t) PROVE StatementsOnly'
    <2>1. hits[t] = Asked(t)
      <3>1. unread[t] = {} /\ (op[t] = "cancel" => hits[t] \cup unread[t] = Asked(t))
        BY <1>6 DEF CountRows
      <3>2. hits[t] \cup {} = hits[t]
        OBVIOUS
      <3>3. QED
        BY <1>6, <3>1, <3>2 DEF CountRows
    <2>2. op[t] = "create" <=> t \in Creates
      BY <1>6 DEF CountRows
    <2>3. CreatesFollow'
      BY <1>6, <2>2 DEF CountRows
    <2>4. ManagesFollow'
      BY <1>6, <2>2 DEF CountRows
    <2>5. UpdatesFollow'
      BY <1>6, <2>1 DEF CountRows
    <2>6. QED
      BY <2>3, <2>4, <2>5
  <1>7. ASSUME NEW m \in Manages, LockReservation(m) PROVE StatementsOnly'
    BY <1>7 DEF LockReservation
  <1>8. ASSUME NEW t \in Txs, Commit(t) PROVE StatementsOnly'
    <2>1. /\ target[t] \in Creates
          /\ status' = [status EXCEPT ![target[t]] = RowAfter[op[t]]]
          /\ RowAfter[op[t]] # "none"
          /\ target[t] \in Creates /\ ~Exists(target[t]) => target[t] = t
      BY <1>8 DEF Commit, RowAfter
    <2>2. /\ step[t] = "commit" /\ step' = [step EXCEPT ![t] = "done"]
          /\ UNCHANGED <<key, wants, op, target, unread, hits>>
      BY <1>8 DEF Commit
    <2>3. \A k \in Keys : keyLock'[k] = IF keyLock[k] = t THEN None ELSE keyLock[k]
      BY <1>8 DEF Commit, UnlockAll, Unlocked
    <2>4. \A r \in Creates : r # target[t] => status'[r] = status[r]
      BY <2>1
    <2>5. \A r \in Creates : status[r] # "none" => status'[r] # "none"
      BY <2>1
    <2>6. CreatesFollow'
      BY <2>1, <2>2, <2>3, <2>4
    <2>7. ManagesFollow'
      BY <2>2, <2>5
    <2>8. UpdatesFollow'
      BY <2>2
    <2>9. QED
      BY <2>6, <2>7, <2>8
  <1>9. ASSUME NEW t \in Txs, Abort(t) PROVE StatementsOnly'
    <2>1. \A k \in Keys : keyLock'[k] = IF keyLock[k] = t THEN None ELSE keyLock[k]
      BY <1>9 DEF Abort, UnlockAll, Unlocked
    <2>2. /\ step' = [step EXCEPT ![t] = "done"]
          /\ UNCHANGED <<status, key, wants, op, target, unread, hits>>
      BY <1>9 DEF Abort
    <2>3. step[t] \notin {"idle", "done"}
      BY <1>9 DEF Abort, Active
    <2>4. CreatesFollow'
      BY <2>1, <2>2, <2>3
    <2>5. ManagesFollow'
      BY <2>2, <2>3
    <2>6. UpdatesFollow'
      BY <2>2
    <2>7. QED
      BY <2>4, <2>5, <2>6
  <1>10. CASE UNCHANGED vars
    BY <1>10 DEF vars
  <1>11. QED
    BY <1>1, <1>2, <1>3, <1>4, <1>5, <1>6, <1>7, <1>8, <1>9, <1>10 DEF Next, Advance

(* Locks are taken by the statements that need them and kept until the end. *)
LEMMA LocksStep ==
  TypeOK /\ StatementsFollow /\ [Next]_vars => LocksFollow'
  <1> SUFFICES ASSUME TypeOK, StatementsFollow, [Next]_vars, NEW t \in Txs
               PROVE  /\ \A s \in Seats : rowLock'[s] = t =>
                           step'[t] \in {"rows", "reservation", "commit"} /\ s \notin unread'[t]
                      /\ \A r \in Creates : resLock'[r] = t =>
                           step'[t] = "commit" /\ target'[t] = r
                      /\ \A k \in Keys : keyLock'[k] = t =>
                           t \in Creates /\ step'[t] \in {"update", "rows", "commit"} /\ key'[t] = k
    BY DEF LocksFollow
  <1> DEFINE Kept == /\ \A s \in Seats : rowLock'[s] = t =>
                           step'[t] \in {"rows", "reservation", "commit"} /\ s \notin unread'[t]
                     /\ \A r \in Creates : resLock'[r] = t =>
                           step'[t] = "commit" /\ target'[t] = r
                     /\ \A k \in Keys : keyLock'[k] = t =>
                           t \in Creates /\ step'[t] \in {"update", "rows", "commit"} /\ key'[t] = k
  <1> USE TxAssumption DEF TypeOK, StatementsFollow, LocksFollow, Txs, Goto, locks, tables
  <1>1. ASSUME NEW c \in Creates, BeginCreate(c) PROVE Kept
    BY <1>1 DEF BeginCreate, Ask
  <1>2. ASSUME NEW m \in Manages, BeginManage(m) PROVE Kept
    BY <1>2 DEF BeginManage
  <1>3. ASSUME NEW c \in Creates, InsertKey(c) PROVE Kept
    BY <1>3 DEF InsertKey
  <1>4. ASSUME NEW u \in Txs, StartUpdate(u) PROVE Kept
    BY <1>4 DEF StartUpdate
  <1>5. ASSUME NEW u \in Txs, NEW s \in Seats, LockRow(u, s) PROVE Kept
    BY <1>5 DEF LockRow
  <1>6. ASSUME NEW u \in Txs, CountRows(u) PROVE Kept
    <2>1. u \in Creates => op[u] = "create"
      BY <1>6 DEF CountRows, CreatesFollow
    <2>2. QED
      BY <1>6, <2>1 DEF CountRows
  <1>7. ASSUME NEW m \in Manages, LockReservation(m) PROVE Kept
    BY <1>7 DEF LockReservation
  <1>8. ASSUME NEW u \in Txs, Commit(u) \/ Abort(u) PROVE Kept
    <2>1. /\ \A s \in Seats : rowLock'[s] = IF rowLock[s] = u THEN None ELSE rowLock[s]
          /\ \A r \in Creates : resLock'[r] = IF resLock[r] = u THEN None ELSE resLock[r]
          /\ \A k \in Keys : keyLock'[k] = IF keyLock[k] = u THEN None ELSE keyLock[k]
      BY <1>8 DEF Commit, Abort, UnlockAll, Unlocked
    <2>2. step' = [step EXCEPT ![u] = "done"] /\ UNCHANGED <<key, target, unread>>
      BY <1>8 DEF Commit, Abort
    <2>3. QED
      BY <2>1, <2>2
  <1>9. CASE UNCHANGED vars
    BY <1>9 DEF vars
  <1> HIDE DEF TypeOK, OnlyForward, Order, Goto
  <1>10. QED
    BY <1>1, <1>2, <1>3, <1>4, <1>5, <1>6, <1>7, <1>8, <1>9 DEF Next, Advance

(* A commit changes only rows its own transaction has locked, and takes only   *)
(* the key it has inserted: others' matches are untouched.                     *)
LEMMA MatchesStep == Inv /\ [Next]_vars => MatchesHold'
  <1> SUFFICES ASSUME TypeOK, StatementsFollow, MatchesHold, [Next]_vars
               PROVE  MatchesHold'
    BY DEF Inv
  <1> USE SeatsAssumption, TxAssumption
      DEF TypeOK, StatementsFollow, CreatesFollow, ManagesFollow, UpdatesFollow, MatchesHold, Txs, Exists, Active, Matching, Available,
          Reserved, KeyTaken, Goto, locks, tables
  <1>1. ASSUME NEW c \in Creates, BeginCreate(c) PROVE MatchesHold'
    BY <1>1 DEF BeginCreate, Ask
  <1>2. ASSUME NEW m \in Manages, BeginManage(m) PROVE MatchesHold'
    BY <1>2 DEF BeginManage
  <1>3. ASSUME NEW c \in Creates, InsertKey(c) PROVE MatchesHold'
    BY <1>3 DEF InsertKey
  <1>4. ASSUME NEW t \in Txs, StartUpdate(t) PROVE MatchesHold'
    BY <1>4 DEF StartUpdate
  <1>5. ASSUME NEW t \in Txs, NEW s \in Seats, LockRow(t, s) PROVE MatchesHold'
    BY <1>5 DEF LockRow
  <1>6. ASSUME NEW t \in Txs, CountRows(t) PROVE MatchesHold'
    BY <1>6 DEF CountRows
  <1>7. ASSUME NEW m \in Manages, LockReservation(m) PROVE MatchesHold'
    <2>1. \A u \in Txs : Active(u)' => Active(u)
      BY <1>7 DEF LockReservation
    <2>2. op[m] # "create"
      BY <1>7 DEF LockReservation
    <2>3. QED
      BY <1>7, <2>1, <2>2 DEF LockReservation
  <1>8. ASSUME NEW t \in Txs, Commit(t) PROVE MatchesHold'
    <2>1. \A s \in Seats : s \notin hits[t] => seatStatus'[s] = seatStatus[s]
      BY <1>8 DEF Commit, SetStatus
    <2>2. \A s \in Seats : rowLock[s] # t => rowLock'[s] = rowLock[s]
      BY <1>8 DEF Commit, UnlockAll, Unlocked
    <2>3. \A u \in Txs : u # t /\ Active(u) => hits[u] \cap hits[t] = {}
      BY <1>8 DEF Commit
    <2>4. ASSUME NEW c \in Creates, c # t, Active(c), step[c] # "insert",
                 NEW r \in Creates, status'[r] # "none", key[r] = key[c]
          PROVE  FALSE
      <3>1. status[r] = "none"
        BY <2>4
      <3>2. r = t
        BY <1>8, <3>1, <2>4 DEF Commit
      <3>3. keyLock[key[c]] = c /\ keyLock[key[t]] = t
        BY <1>8, <2>4, <3>2 DEF Commit
      <3>4. QED
        BY <3>2, <3>3, <2>4
    <2>5. /\ step' = [step EXCEPT ![t] = "done"]
          /\ UNCHANGED <<key, wants, op, target, unread, hits>>
      BY <1>8 DEF Commit
    <2>6. ASSUME NEW u \in Txs, Active(u)' PROVE u # t /\ Active(u)
      BY <2>5, <2>6
    <2>7. ASSUME NEW u \in Txs, Active(u)'
          PROVE  hits'[u] \subseteq Matching(u)' /\ \A s \in hits'[u] : rowLock'[s] = u
      <3>1. \A s \in hits[u] : s \in Seats /\ seatStatus'[s] = seatStatus[s]
        BY <2>1, <2>3, <2>6, <2>7
      <3>2. op[u] \in {"create", "confirm", "cancel"} /\ op'[u] = op[u]
        BY <2>5, <2>6, <2>7
      <3>3. hits'[u] \subseteq Matching(u)'
        BY <2>5, <2>6, <2>7, <3>1, <3>2
      <3>4. \A s \in hits'[u] : rowLock'[s] = u
        BY <2>2, <2>5, <2>6, <2>7
      <3>5. QED
        BY <3>3, <3>4
    <2>8. ASSUME NEW u \in Txs, Active(u)', op'[u] = "create", step'[u] # "insert"
          PROVE  ~KeyTaken(key[u])'
      BY <2>4, <2>5, <2>6, <2>8
    <2>9. QED
      BY <2>5, <2>7, <2>8
  <1>9. ASSUME NEW t \in Txs, Abort(t) PROVE MatchesHold'
    <2>1. \A s \in Seats : rowLock[s] # t => rowLock'[s] = rowLock[s]
      BY <1>9 DEF Abort, UnlockAll, Unlocked
    <2>2. QED
      BY <1>9, <2>1 DEF Abort
  <1>10. CASE UNCHANGED vars
    BY <1>10 DEF vars
  <1>11. QED
    BY <1>1, <1>2, <1>3, <1>4, <1>5, <1>6, <1>7, <1>8, <1>9, <1>10 DEF Next, Advance

(* Types, statements and matches hold in every state of every execution. *)
LEMMA InvHolds == Spec => []Inv
  <1>1. Inv /\ [Next]_vars => Inv'
    BY TypeStep, StatementsStep, LocksStep, MatchesStep DEF Inv, StatementsFollow, StatementsOnly
  <1>2. QED
    BY <1>1, InvInit, PTL DEF Spec

(* The rows, the locks and the statements keep their types. *)
THEOREM RowLocksTypeCorrect == Spec => []TypeOK
  BY InvHolds, PTL DEF Inv

(* What a transaction has done by each of its statements: no commit without    *)
(* every row that was asked for, no row inserted twice.                       *)
THEOREM StatementsAlwaysFollow == Spec => []StatementsFollow
  BY InvHolds, PTL DEF Inv

(* What an UPDATE matched goes on matching, locked, until the commit. *)
THEOREM MatchesAlwaysHold == Spec => []MatchesHold
  BY InvHolds, PTL DEF Inv

-----------------------------------------------------------------------------
(* Waiting.  A lock another transaction waits for is held by one that is at   *)
(* its UPDATE of seats or later.                                              *)
LEMMA WaitsAreForHolders ==
  ASSUME Inv, NEW t \in Txs, NEW u \in Txs, WaitsFor(t, u)
  PROVE  /\ Active(u)
         /\ step[t] = "insert" => step[u] \in {"update", "rows", "commit"}
         /\ step[t] = "rows" => step[u] \in {"rows", "reservation", "commit"} /\ t # u
         /\ step[t] = "reservation" => step[u] = "commit"
  <1> USE DEF Inv, TypeOK, StatementsFollow, LocksFollow, Active, Txs
  <1>1. CASE step[t] = "insert"
    <2>1. t \in Creates /\ key[t] \in Keys
      BY <1>1 DEF ManagesFollow, CreatesFollow
    <2>2. QED
      BY <1>1, <2>1 DEF WaitsFor
  <1>2. CASE step[t] = "rows"
    BY <1>2 DEF WaitsFor
  <1>3. CASE step[t] = "reservation"
    <2>1. t \in Manages /\ target[t] \in Creates
      BY <1>3 DEF CreatesFollow, ManagesFollow
    <2>2. QED
      BY <1>3, <2>1 DEF WaitsFor
  <1>4. QED
    BY <1>1, <1>2, <1>3 DEF WaitsFor

(* A transaction that can neither go on nor is refused waits for another one. *)
LEMMA TheStuckWait ==
  ASSUME Inv, NEW t \in Txs, Active(t), ~Ready(t), ~Refused(t)
  PROVE  \E u \in Txs : WaitsFor(t, u)
  <1> USE DEF Inv, TypeOK, StatementsFollow, Active, Txs
  <1>1. CASE step[t] = "insert"
    <2>1. t \in Creates /\ key[t] \in Keys
      BY <1>1 DEF CreatesFollow, ManagesFollow
    <2>2. keyLock[key[t]] \in Txs
      BY <1>1, <2>1 DEF Ready, Refused
    <2>3. QED
      BY <1>1, <2>2 DEF WaitsFor
  <1>2. CASE step[t] = "rows"
    <2>1. unread[t] # {}
      BY <1>2 DEF Ready, Refused
    <2>2. PICK s \in unread[t] : s \in Seats /\ rowLock[s] # None
      BY <1>2, <2>1 DEF Ready
    <2>3. QED
      BY <1>2, <2>2 DEF WaitsFor
  <1>3. CASE step[t] = "reservation"
    <2>1. target[t] \in Creates
      BY <1>3 DEF CreatesFollow, ManagesFollow
    <2>2. resLock[target[t]] \in Txs
      BY <1>3, <2>1 DEF Ready
    <2>3. QED
      BY <1>3, <2>2 DEF WaitsFor
  <1>4. CASE step[t] \in {"update", "commit"}
    BY <1>4 DEF Ready
  <1>5. QED
    BY <1>1, <1>2, <1>3, <1>4

(* If no active transaction could go on or were refused, each would wait for   *)
(* one of them, and all of them would be deadlocked.                           *)
LEMMA SomebodyMoves ==
  ASSUME Inv, NEW t \in Txs, Active(t)
  PROVE  \E u \in Txs : Active(u) /\ (Ready(u) \/ Refused(u) \/ Deadlocked(u))
  <1> SUFFICES ASSUME \A u \in Txs : Active(u) => ~Ready(u) /\ ~Refused(u) /\ ~Deadlocked(u)
               PROVE  FALSE
    OBVIOUS
  <1> DEFINE W == {u \in Txs : Active(u)}
  <1>1. \A x \in W : \E y \in W : WaitsFor(x, y)
    BY TheStuckWait, WaitsAreForHolders
  <1>2. t \in W /\ W \in SUBSET Txs
    OBVIOUS
  <1>3. Deadlocked(t)
    <2>1. \E u \in Txs : WaitsFor(t, u)
      BY <1>1, <1>2
    <2> HIDE DEF W
    <2>2. QED
      BY <1>1, <1>2, <2>1 DEF Deadlocked
  <1>4. QED
    BY <1>3

(* A pool without a free connection has a transaction under way. *)
LEMMA FullPoolsAreActive ==
  ASSUME NEW t \in Txs, Full(t)
  PROVE  \E u \in Txs : Active(u)
  <1>1. PICK P \in Pools : Cardinality({u \in P : Active(u)}) >= MaxConns
    BY DEF Full
  <1>2. {u \in P : Active(u)} # {}
    BY <1>1, PoolAssumption, FS_EmptySet
  <1>3. QED
    BY <1>2, PoolAssumption

(* There is always somebody who can move: no set of transactions waits for     *)
(* locks or connections that nobody will give back.                            *)
THEOREM NeverStuckHolds == Spec => []NeverStuck
  <1>1. Inv => NeverStuck
    BY SomebodyMoves, FullPoolsAreActive DEF NeverStuck
  <1>2. QED
    BY <1>1, InvHolds, PTL

(* Every deadlock is one of UPDATEs of seats; to update them in one order      *)
(* would leave none.                                                           *)
THEOREM OnlySeatsDeadlock == Spec => []DeadlocksAreOverSeats
  <1>1. ASSUME Inv, NEW W \in SUBSET Txs, W # {},
               \A x \in W : \E y \in W : WaitsFor(x, y)
        PROVE  /\ \A x \in W : step[x] # "reservation"
               /\ \E x, y \in W :
                     x # y /\ step[x] = "rows" /\ step[y] = "rows" /\ WaitsFor(x, y)
    <2>1. \A x \in W : step[x] \in {"insert", "rows", "reservation"}
      BY <1>1 DEF WaitsFor
    <2>2. \A x \in W : step[x] # "reservation"
      BY <1>1, <2>1, WaitsAreForHolders
    <2>3. ASSUME NEW x \in W, NEW y \in W, WaitsFor(x, y) PROVE step[y] = "rows"
      BY <1>1, <2>1, <2>2, <2>3, WaitsAreForHolders
    <2>4. PICK x \in W, y \in W : WaitsFor(x, y)
      BY <1>1
    <2>5. PICK z \in W : WaitsFor(y, z)
      BY <1>1
    <2>6. step[y] = "rows" /\ step[z] = "rows"
      BY <2>3, <2>4, <2>5
    <2>7. y # z
      BY <2>5, <2>6, WaitsAreForHolders, <1>1
    <2>8. QED
      BY <2>2, <2>5, <2>6, <2>7
  <1>2. Inv => DeadlocksAreOverSeats
    BY <1>1 DEF DeadlocksAreOverSeats
  <1>3. QED
    BY <1>2, InvHolds, PTL

(* Every action moves the transaction it is about, and no other. *)
LEMMA ForwardStep == TypeOK /\ [Next]_vars => [\E t \in Txs : OnlyForward(t)]_vars
  <1> SUFFICES ASSUME TypeOK, Next PROVE \E t \in Txs : OnlyForward(t)
    OBVIOUS
  <1> USE TxAssumption DEF TypeOK, Txs, OnlyForward, Order, Goto
  <1>1. ASSUME NEW c \in Creates, BeginCreate(c) PROVE OnlyForward(c)
    BY <1>1 DEF BeginCreate
  <1>2. ASSUME NEW m \in Manages, BeginManage(m) PROVE OnlyForward(m)
    BY <1>2 DEF BeginManage
  <1>3. ASSUME NEW c \in Creates, InsertKey(c) PROVE OnlyForward(c)
    BY <1>3 DEF InsertKey
  <1>4. ASSUME NEW t \in Txs, StartUpdate(t) PROVE OnlyForward(t)
    BY <1>4 DEF StartUpdate
  <1>5. ASSUME NEW t \in Txs, NEW s \in Seats, LockRow(t, s) PROVE OnlyForward(t)
    <2>1. step[t] = "rows" /\ step' = step
      BY <1>5 DEF LockRow
    <2>2. s \in unread[t] /\ unread' = [unread EXCEPT ![t] = @ \ {s}]
      BY <1>5 DEF LockRow
    <2>3. unread'[t] \subseteq unread[t] /\ unread'[t] # unread[t]
      BY <2>2
    <2>4. QED
      BY <2>1, <2>2, <2>3
  <1>6. ASSUME NEW t \in Txs, CountRows(t) PROVE OnlyForward(t)
    BY <1>6 DEF CountRows
  <1>7. ASSUME NEW m \in Manages, LockReservation(m) PROVE OnlyForward(m)
    BY <1>7 DEF LockReservation
  <1>8. ASSUME NEW t \in Txs, Commit(t) PROVE OnlyForward(t)
    BY <1>8 DEF Commit
  <1>9. ASSUME NEW t \in Txs, Abort(t) PROVE OnlyForward(t)
    BY <1>9 DEF Abort, Active
  <1> HIDE DEF TypeOK, OnlyForward, Order, Goto
  <1>10. QED
    BY <1>1, <1>2, <1>3, <1>4, <1>5, <1>6, <1>7, <1>8, <1>9 DEF Next, Advance

(* No transaction repeats a statement, waits for a lock twice or goes back:     *)
(* with NeverStuckHolds, what is left of TransactionsEnd is that a step which   *)
(* can be taken is taken.                                                       *)
THEOREM TransactionsGoForward == Spec => StepsGoForward
  <1>1. TypeOK /\ [Next]_vars => [\E t \in Txs : OnlyForward(t)]_vars
    BY ForwardStep
  <1>2. QED
    BY <1>1, RowLocksTypeCorrect, PTL DEF Spec, StepsGoForward

-----------------------------------------------------------------------------
(* A commit is one of the transactions of Tables, whose guards hold of what    *)
(* is committed at that moment; no other statement changes what is committed.  *)
LEMMA AtomicStep == Inv /\ [Next]_vars => [TablesNext]_tables
  <1> SUFFICES ASSUME TypeOK, StatementsFollow, MatchesHold, [Next]_vars
               PROVE  [TablesNext]_tables
    BY DEF Inv
  <1>1. ASSUME NEW c \in Creates, BeginCreate(c) PROVE TablesNext
    BY <1>1 DEF BeginCreate, StatementsFollow, CreatesFollow, ManagesFollow, UpdatesFollow, TablesNext
  <1>2. ASSUME NEW t \in Txs, Commit(t) PROVE TablesNext
    <2> USE <1>2 DEF Txs
    <2>1. hits[t] = Asked(t) /\ hits[t] \subseteq Matching(t) /\ target[t] \in Creates
      BY DEF Commit, StatementsFollow, CreatesFollow, ManagesFollow, UpdatesFollow, MatchesHold, Active
    <2>2. UNCHANGED <<key, wants>>
      BY DEF Commit
    <2>3. CASE t \in Creates
      <3>1. op[t] = "create" /\ target[t] = t /\ ~Exists(t) /\ ~KeyTaken(key[t])
        BY <2>3 DEF Commit, StatementsFollow, CreatesFollow, ManagesFollow, UpdatesFollow, MatchesHold, Active
      <3>2. CreateTx(t)
        BY <2>1, <3>1 DEF Commit, SeatAfter, RowAfter, Matching, Asked, Available, CreateTx,
                          InsertReservation, ReserveSeats
      <3>3. QED
        BY <2>2, <2>3, <3>1, <3>2 DEF TablesNext
    <2>4. CASE t \in Manages
      <3>1. op[t] \in {"confirm", "cancel"} /\ Exists(target[t])
        BY <2>4 DEF Commit, StatementsFollow, CreatesFollow, ManagesFollow, UpdatesFollow
      <3>2. CASE op[t] = "confirm"
        <4>1. ConfirmTx(target[t])
          BY <2>1, <3>2
             DEF Commit, SeatAfter, RowAfter, Matching, Asked, Reserved, ConfirmTx, ConfirmSeats,
                 UpdateReservation
        <4>2. QED
          BY <2>1, <2>2, <3>1, <4>1 DEF TablesNext
      <3>3. CASE op[t] = "cancel"
        <4>1. CancelTx(target[t])
          BY <2>1, <3>3
             DEF Commit, SeatAfter, RowAfter, Asked, CancelTx, ReleaseSeats,
                 UpdateReservation
        <4>2. QED
          BY <2>1, <2>2, <3>1, <4>1 DEF TablesNext
      <3>4. QED
        BY <3>1, <3>2, <3>3
    <2>5. QED
      BY <2>3, <2>4
  <1>3. CASE UNCHANGED tables
    BY <1>3
  <1>4. QED
    BY <1>1, <1>2, <1>3
       DEF Next, Advance, BeginManage, InsertKey, StartUpdate, LockRow, CountRows,
           LockReservation, Abort, vars

(* Row by row transactions implement atomic ones: the ground on which            *)
(* Reservation models each as one step.                                          *)
THEOREM TransactionsImplementTables == Spec => TransactionsAreAtomic
  <1>1. Init => TablesInit
    BY DEF Init
  <1>2. QED
    BY <1>1, AtomicStep, InvHolds, PTL DEF Spec, TransactionsAreAtomic, TablesSpec

(* So what Tables ensures holds row by row, too: whatever rows are locked and   *)
(* checked in between, and whichever transaction is a deadlock's victim, no     *)
(* seat is left with a dead reservation or reserved for one not pending.        *)
THEOREM RowsKeepHolders == Spec => [](HoldersAreLive /\ ReservedSeatsArePending)
  BY TransactionsImplementTables, TablesKeepHolders, PTL DEF TransactionsAreAtomic
=============================================================================
