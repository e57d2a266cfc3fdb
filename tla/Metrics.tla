------------------------------- MODULE Metrics -------------------------------
(***************************************************************************)
(* What the reservation endpoints tell their clients and what they tell    *)
(* Prometheus: the HTTP status the handlers (api/handler/reservation.go)   *)
(* make of a result, the one the middleware (middleware/prometheus.go)     *)
(* counts, and the counters and gauges of pkg/metrics.  Every step is a    *)
(* step of Reservation with what it reports added to it.  A figure is the  *)
(* sum of what all server processes have ever counted: each keeps its own  *)
(* in memory and starts again from zero, which is for queries to make up   *)
(* for.                                                                    *)
(***************************************************************************)
EXTENDS Reservation, Integers

ASSUME CountAssumption == IsFiniteSet(Creates) /\ IsFiniteSet(Manages)

VARIABLES
    success, conflicts, lockFailures,   \* reservations_total by status
    pendingGauge, confirmedGauge,       \* active_reservations by status
    told,      \* the status each client was answered, None without an answer
    seen,      \* the status http_requests_total has counted for it
    \* history
    wrote,     \* the requests that have committed
    metered,   \* those of them that have been counted
    cleaned    \* the reservations a cleaner has cancelled

totals  == <<success, conflicts, lockFailures>>
gauges  == <<pendingGauge, confirmedGauge>>
replies == <<told, seen>>
figures == <<totals, gauges, replies, wrote, metered, cleaned>>

Codes == {200, 201, 400, 404, 500, 503}

Fine(q) == IF q \in Creates THEN 201 ELSE 200

(* The handler returns: its status reaches the client through the middleware. *)
Respond(q, code) ==
    /\ told' = [told EXCEPT ![q] = code]
    /\ seen' = [seen EXCEPT ![q] = code]

(* The counting after a commit, which no context can interrupt. *)
MutantMeter(q) ==               \* a confirmed reservation stays counted as pending
    /\ metered' = metered \cup {q}
    /\ success' = success + (IF q \in Creates THEN 1 ELSE 0)
    /\ pendingGauge' = pendingGauge + (IF q \in Creates THEN 1 ELSE
                                       IF op[q] = "confirm" THEN 0 ELSE -1)
    /\ confirmedGauge' = confirmedGauge + (IF q \in Manages /\ op[q] = "confirm" THEN 1 ELSE 0)

Meter(q) ==
    /\ metered' = metered \cup {q}
    /\ success' = success + (IF q \in Creates THEN 1 ELSE 0)
    /\ pendingGauge' = pendingGauge + (IF q \in Creates THEN 1 ELSE -1)
    /\ confirmedGauge' = confirmedGauge + (IF q \in Manages /\ op[q] = "confirm" THEN 1 ELSE 0)

-----------------------------------------------------------------------------
(* POST /reservations *)

(* A reservation that exists is answered like a new one, and not counted. *)
Receive(c) ==
    /\ LookupKey(c)
    /\ IF pc'[c] = "done" THEN Respond(c, Fine(c)) ELSE UNCHANGED replies
    /\ UNCHANGED <<totals, gauges, wrote, metered, cleaned>>

Contend(c) ==
    /\ MissLock(c)
    /\ IF pc'[c] = "done"
       THEN Respond(c, 400) /\ lockFailures' = lockFailures + 1
       ELSE UNCHANGED <<replies, lockFailures>>
    /\ UNCHANGED <<success, conflicts, gauges, wrote, metered, cleaned>>

(* Only a seat that is found taken is a conflict, not one lost in the transaction. *)
Refuse(c) ==
    /\ RefuseCreate(c)
    /\ \/ UNCHANGED conflicts
       \/ /\ \E s \in wants[c] : seatStatus[s] \in {"reserved", "confirmed"}
          /\ conflicts' = conflicts + 1
    /\ UNCHANGED <<success, lockFailures, gauges, replies, wrote, metered, cleaned>>

Book(c) ==
    /\ CommitCreate(c)
    /\ wrote' = wrote \cup {c}
    /\ UNCHANGED <<totals, gauges, replies, metered, cleaned>>

CountBooking(c) ==
    /\ FinishCreate(c)
    /\ Meter(c)
    /\ UNCHANGED <<conflicts, lockFailures, replies, wrote, cleaned>>

(* Whatever the error, it is answered with 400. *)
Return(c) ==
    /\ ReleaseLock(c)
    /\ Respond(c, IF answer[c] \in Creates THEN Fine(c) ELSE 400)
    /\ UNCHANGED <<totals, gauges, wrote, metered, cleaned>>

(* POST /reservations/:id/confirm and .../cancel *)

Find(m) ==
    /\ LoadForConfirm(m) \/ LoadForCancel(m)
    /\ IF pc'[m] = "done"
       THEN Respond(m, IF Exists(target'[m]) THEN 400 ELSE 404)
       ELSE UNCHANGED replies
    /\ UNCHANGED <<totals, gauges, wrote, metered, cleaned>>

Change(m) ==
    /\ CommitConfirm(m) \/ CommitCancel(m)
    /\ wrote' = wrote \cup {m}
    /\ UNCHANGED <<totals, gauges, replies, metered, cleaned>>

CountChange(m) ==
    /\ FinishManage(m)
    /\ Meter(m)
    /\ Respond(m, Fine(m))
    /\ UNCHANGED <<conflicts, lockFailures, wrote, cleaned>>

MutantFail(m) ==                \* counted before the transaction
    /\ RollbackManage(m)
    /\ Meter(m)
    /\ Respond(m, 400)
    /\ UNCHANGED <<conflicts, lockFailures, wrote, cleaned>>

Fail(m) ==
    /\ RollbackManage(m)
    /\ Respond(m, 400)
    /\ UNCHANGED <<totals, gauges, wrote, metered, cleaned>>

-----------------------------------------------------------------------------
(* Requests that are abandoned. *)

(* Their process dies: neither client nor counters learn anything. *)
Die(q) == Abandon(q) /\ UNCHANGED figures

(* Where a create may end because of its lock, which is counted: Redis fails   *)
(* before or after it has set it.  Before its first attempt the lookup of the *)
(* key may have failed instead, which is not.                                 *)
Unlocked(q) ==
    \/ (pc[q] = "lock" => tries[q] = 0) /\ UNCHANGED lockFailures
    \/ pc[q] \in {"lock", "check"} /\ lockFailures' = lockFailures + 1

(* PostgreSQL or Redis fails a create that looks up its key or wants the lock; *)
(* a Commit reports an error.                                                  *)
Error(q) ==
    /\ pc[q] \in (IF q \in Creates THEN {"lock", "check"} ELSE {"committed"})
    /\ Abandon(q)
    /\ Respond(q, 400)
    /\ Unlocked(q)
    /\ UNCHANGED <<success, conflicts, gauges, wrote, metered, cleaned>>

(* The server was started without Redis, and the handler calls a method of     *)
(* what is missing: a create before its first attempt at the lock, a cancel     *)
(* after its commit and its counting.  The panic unwinds the Prometheus         *)
(* middleware, which counts nothing, up to Recover, which makes it a 500,       *)
(* unless the timeout middleware in between has answered by then.              *)
Panic(q) ==
    /\ \/ /\ q \in Creates /\ pc[q] = "lock" /\ tries[q] = 0
          /\ UNCHANGED <<success, gauges, metered>>
       \/ /\ q \in Manages /\ pc[q] = "committed" /\ op[q] = "cancel"
          /\ Meter(q)
    /\ Abandon(q)
    /\ \E code \in {500, 503} : told' = [told EXCEPT ![q] = code]
    /\ UNCHANGED <<seen, conflicts, lockFailures, wrote, cleaned>>

(* The timeout middleware answers.  The handler's goroutine is inside of it and *)
(* the Prometheus middleware inside both: what the handler has done is counted  *)
(* as such, what is left of it fails, and 503 is never counted.                *)
MutantCutOff(q) ==              \* the context is looked at before the counting
    /\ Abandon(q)
    /\ told' = [told EXCEPT ![q] = 503]
    /\ seen' = [seen EXCEPT ![q] =
                  IF pc[q] = "committed" \/ (pc[q] = "unlock" /\ answer[q] = q)
                  THEN Fine(q) ELSE 400]
    /\ Unlocked(q)
    /\ UNCHANGED <<success, conflicts, gauges, wrote, metered, cleaned>>

CutOff(q) ==
    /\ Abandon(q)
    /\ told' = [told EXCEPT ![q] = 503]
    /\ \/ /\ pc[q] = "committed"
          /\ Meter(q)
          /\ seen' = [seen EXCEPT ![q] = Fine(q)]
          /\ UNCHANGED lockFailures
       \/ /\ seen' = [seen EXCEPT ![q] = IF pc[q] = "unlock" /\ answer[q] = q THEN 201 ELSE 400]
          /\ Unlocked(q)
          /\ UNCHANGED <<success, gauges, metered>>
    /\ UNCHANGED <<conflicts, wrote, cleaned>>

(* The cleaner logs what it cancels and counts it nowhere. *)
Clean(w, r) ==
    /\ CancelListed(w, r)
    /\ cleaned' = cleaned \cup {r}
    /\ UNCHANGED <<totals, gauges, replies, wrote, metered>>

(* Steps that report nothing. *)
Unreported ==
    \/ \E c \in Creates : \/ AcquireLock(c) \/ CheckSeats(c) \/ RollbackCreate(c)
                          \/ MisreportCreate(c) \/ Expire(c)
    \/ \E w \in Cleaners : \/ ListExpired(w) \/ StopCleaner(w)
                           \/ \E r \in Creates : SkipListed(w, r)
    \/ \E v \in Viewers : CountSeats(v) \/ StoreCount(v)
    \/ \E S \in SUBSET Late : AddSeats(S)
    \/ \E S \in Wanted : TimeoutLock(S)
    \/ TimeoutCache

-----------------------------------------------------------------------------
MeteredInit ==
    /\ Init
    /\ success = 0 /\ conflicts = 0 /\ lockFailures = 0
    /\ pendingGauge = 0 /\ confirmedGauge = 0
    /\ told = [q \in Requests |-> None]
    /\ seen = [q \in Requests |-> None]
    /\ wrote = {} /\ metered = {} /\ cleaned = {}

MeteredNext ==
    \/ \E c \in Creates : \/ Receive(c) \/ Contend(c) \/ Refuse(c) \/ Book(c)
                          \/ CountBooking(c) \/ Return(c)
    \/ \E m \in Manages : Find(m) \/ Change(m) \/ CountChange(m) \/ Fail(m)
    \/ \E q \in Requests : Die(q) \/ Error(q) \/ Panic(q) \/ CutOff(q)
    \/ \E w \in Cleaners, r \in Creates : Clean(w, r)
    \/ Unreported /\ UNCHANGED figures

MeteredSpec == MeteredInit /\ [][MeteredNext]_<<vars, figures>>

-----------------------------------------------------------------------------
(* Every figure keeps its type: totals only grow, the gauge of pending         *)
(* reservations may fall below zero.                                           *)
MeteredTypeOK ==
    /\ success \in Nat /\ conflicts \in Nat /\ lockFailures \in Nat
    /\ pendingGauge \in Int /\ confirmedGauge \in Nat
    /\ told \in [Requests -> Codes \cup {None}]
    /\ seen \in [Requests -> Codes \cup {None}]
    /\ wrote \subseteq Requests /\ metered \subseteq wrote
    /\ cleaned \subseteq Creates

(* Commits that were not counted: under way, unacknowledged, or lost in a crash. *)
Unmetered == wrote \ metered

Having(st) == {r \in Creates : status[r] = st}

(* A reservation is counted as a success once, however often it is asked for.  *)
SuccessesMatchRows ==
    Cardinality({r \in Creates : Exists(r)}) = success + Cardinality(Unmetered \cap Creates)

(* The gauge of pending reservations shows at most as many too many as the     *)
(* cleaner has cancelled and as there are confirms and cancels uncounted.  It  *)
(* may show too few: overlapping cancels of one reservation each count down.   *)
PendingIsBounded ==
    pendingGauge <= Cardinality(Having("pending")) + Cardinality(cleaned)
                        + Cardinality(Unmetered \cap Manages)

(* No confirmed reservation that was counted is missing from its gauge. *)
ConfirmedIsBounded ==
    Cardinality(Having("confirmed"))
        <= confirmedGauge + Cardinality({m \in Unmetered \cap Manages : op[m] = "confirm"})

(* An attempt to reserve is counted under one label, or under none. *)
AttemptsAreCountedOnce ==
    success + conflicts + lockFailures
        <= Cardinality({c \in Creates : pc[c] \in {"unlock", "done"}})

(* How far the figures of the dashboards can be from the reservations table,   *)
(* whatever overlaps, fails, times out and is retried: commits are counted in  *)
(* memory after the fact, by the requests only and not by the cleaner.         *)
FiguresFollowRows ==
    SuccessesMatchRows /\ PendingIsBounded /\ ConfirmedIsBounded /\ AttemptsAreCountedOnce

(* What clients are told of their requests, and Prometheus of the answers.  A  *)
(* request that has committed is told that it was refused only if its commit    *)
(* was not acknowledged; it is told of an internal error, which is counted      *)
(* nowhere, only if it is a cancel.  A success, told or counted, is one, or     *)
(* that of the request with the same key.  What is told and what is counted     *)
(* differ only for requests that are cut off or panic.                          *)
Excused(q) ==
    /\ told[q] \in {400, 404} /\ q \in wrote => q \notin metered
    /\ told[q] = 500 =>
          seen[q] = None /\ (q \in wrote => q \in Manages /\ op[q] = "cancel")
    /\ Fine(q) \in {told[q], seen[q]} => q \in metered \/ answer[q] \in Creates \ {q}
    /\ told[q] # seen[q] => told[q] \in {500, 503}

AnswersAreExcused == \A q \in Requests : Excused(q)
=============================================================================
