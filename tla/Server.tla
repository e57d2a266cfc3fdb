------------------------------- MODULE Server -------------------------------
(***************************************************************************)
(* The life of one server process (cmd/api/main.go): it connects, migrates *)
(* the schema it shares with other processes, goes on with Redis or        *)
(* without, starts the cleaner (internal/worker) and the HTTP server, and  *)
(* on a signal stops both and closes its connections while requests are    *)
(* under way.  Of a request only what it needs of Redis and of the         *)
(* database, and whether it has committed, is seen here.                   *)
(***************************************************************************)
CONSTANTS
    Requests,    \* the requests that clients send in the process's life
    None         \* no answer yet

ASSUME NoneAssumption == None \notin {"ok", "error", "panic", "timeout"}

Kinds == {"create", "confirm", "cancel", "count"}

VARIABLES
    schema,      \* schema_migrations: "old", "dirty" or "current"
    migrator,    \* whose session has the advisory lock of the migrations
    main,        \* what the main goroutine is at
    connected,   \* whether Redis answered at startup
    open,        \* the connection pools that are open
    server,      \* the HTTP server's goroutine
    cleaner,     \* the worker's goroutine
    late,        \* Shutdown gave up after its 30 seconds
    kind,        \* what each request is
    pc,          \* what the goroutine of its handler is at
    wrote,       \* whether it has committed anything
    answer       \* what the client was answered

database == <<schema, migrator>>
process  == <<main, connected, open, late>>
requests == <<kind, pc, wrote, answer>>
vars     == <<process, server, cleaner, requests, database>>

Starting == {"setup", "migrating", "migrated", "launching"}
Stages == {"setup", "migrating", "migrated", "launching", "serving", "signalled", "cancelled",
           "stopping", "draining", "closing", "exited", "killed"}

Alive   == main \notin {"exited", "killed"}
CtxDone == main \in {"cancelled", "stopping", "draining", "closing"}
Stopped == main \in {"stopping", "draining", "closing"}     \* stopCh is closed

Accepted(r) == pc[r] # "none"
Running(r)  == pc[r] \notin {"none", "done"}
Waiting     == {r \in Requests : Accepted(r) /\ answer[r] = None}

(* What main opens at startup, and closes at the end. *)
Pools == {"db"} \cup (IF connected THEN {"redis"} ELSE {})

-----------------------------------------------------------------------------
(* main() *)

(* NewConnection; that it fails, like every logger.Fatal, is a Kill. *)
OpenDB ==
    /\ main = "setup"
    /\ main' = "migrating"
    /\ open' = {"db"}
    /\ UNCHANGED <<connected, late, server, cleaner, requests, database>>

(* RunMigrations: Up waits for the lock, marks the version dirty, runs the    *)
(* migration and marks it clean.                                              *)
BeginUp ==
    /\ main = "migrating" /\ migrator = "none" /\ schema = "old"
    /\ migrator' = "self" /\ schema' = "dirty"
    /\ UNCHANGED <<process, server, cleaner, requests>>

EndUp ==
    /\ main = "migrating" /\ migrator = "self"
    /\ migrator' = "none" /\ schema' = "current"
    /\ main' = "migrated"
    /\ UNCHANGED <<connected, open, late, server, cleaner, requests>>

(* ErrNoChange *)
NoChange ==
    /\ main = "migrating" /\ migrator = "none" /\ schema = "current"
    /\ main' = "migrated"
    /\ UNCHANGED <<connected, open, late, server, cleaner, requests, database>>

(* ErrDirty: somebody died between the two marks.  logger.Fatal. *)
MutantRefuseDirty ==            \* logged like the error of Redis
    /\ main = "migrating" /\ migrator = "none" /\ schema = "dirty"
    /\ main' = "migrated"
    /\ UNCHANGED <<connected, open, late, server, cleaner, requests, database>>

RefuseDirty ==
    /\ main = "migrating" /\ migrator = "none" /\ schema = "dirty"
    /\ main' = "killed"
    /\ UNCHANGED <<connected, open, late, server, cleaner, requests, database>>

(* Another server starts at the same time, and its migration ends or dies. *)
OthersMigrate ==
    /\ \/ /\ migrator = "none" /\ schema = "old"
          /\ migrator' = "other" /\ schema' = "dirty"
       \/ /\ migrator = "other"
          /\ migrator' = "none" /\ schema' \in {"dirty", "current"}
    /\ UNCHANGED <<process, server, cleaner, requests>>

(* NewClient pings Redis; an error is logged and main goes on. *)
MutantConnect ==                \* the client is kept although the ping failed
    /\ main = "migrated"
    /\ connected' \in BOOLEAN
    /\ open' = {"db", "redis"}
    /\ main' = "launching"
    /\ UNCHANGED <<late, server, cleaner, requests, database>>

Connect ==
    /\ main = "migrated"
    /\ connected' \in BOOLEAN
    /\ open' = {"db"} \cup (IF connected' THEN {"redis"} ELSE {})
    /\ main' = "launching"
    /\ UNCHANGED <<late, server, cleaner, requests, database>>

(* go cleaner.Start(ctx), go e.Start(addr) *)
Launch ==
    /\ main = "launching"
    /\ main' = "serving"
    /\ cleaner' = "new" /\ server' = "new"
    /\ UNCHANGED <<connected, open, late, requests, database>>

Signal ==
    /\ main = "serving"
    /\ main' = "signalled"
    /\ UNCHANGED <<connected, open, late, server, cleaner, requests, database>>

(* cancel() *)
CancelContext ==
    /\ main = "signalled"
    /\ main' = "cancelled"
    /\ UNCHANGED <<connected, open, late, server, cleaner, requests, database>>

(* cleaner.Stop(): close(stopCh), then <-doneCh; e.Shutdown closes the listener. *)
CloseStopCh ==
    /\ main = "cancelled"
    /\ main' = "stopping"
    /\ UNCHANGED <<connected, open, late, server, cleaner, requests, database>>

AwaitCleaner ==
    /\ main = "stopping" /\ cleaner = "done"
    /\ main' = "draining"
    /\ server' = "closed"
    /\ UNCHANGED <<connected, open, late, cleaner, requests, database>>

(* Shutdown returns when every connection is idle, or when its context is over. *)
MutantDrain ==                  \* Close instead of Shutdown
    /\ main = "draining"
    /\ main' = "closing"
    /\ UNCHANGED <<connected, open, late, server, cleaner, requests, database>>

Drain ==
    /\ main = "draining" /\ Waiting = {}
    /\ main' = "closing"
    /\ UNCHANGED <<connected, open, late, server, cleaner, requests, database>>

GiveUp ==
    /\ main = "draining"
    /\ late' = TRUE
    /\ main' = "closing"
    /\ UNCHANGED <<connected, open, server, cleaner, requests, database>>

(* The deferred calls, last one first: redisClient.Close, db.Close. *)
CloseRedis ==
    /\ main = "closing" /\ "redis" \in open
    /\ open' = open \ {"redis"}
    /\ UNCHANGED <<main, connected, late, server, cleaner, requests, database>>

CloseDB ==
    /\ main = "closing" /\ open = {"db"}
    /\ open' = {}
    /\ UNCHANGED <<main, connected, late, server, cleaner, requests, database>>

Exit ==
    /\ main = "closing" /\ open = {}
    /\ main' = "exited"
    /\ UNCHANGED <<connected, open, late, server, cleaner, requests, database>>

(* A logger.Fatal: no database, a failed migration, an address in use; or a   *)
(* signal, that of the end before it is listened for.                         *)
Kill ==
    /\ Alive
    /\ main' = "killed"
    /\ migrator' = IF migrator = "self" THEN "none" ELSE migrator
    /\ UNCHANGED <<connected, open, late, schema, server, cleaner, requests>>

-----------------------------------------------------------------------------
(* The goroutines main has started. *)

Listen ==
    /\ Alive /\ server = "new"
    /\ server' = "listening"
    /\ UNCHANGED <<process, cleaner, requests, database>>

StartCleaner ==
    /\ Alive /\ cleaner = "new"
    /\ cleaner' = "waiting"
    /\ UNCHANGED <<process, server, requests, database>>

(* select: the ticker may be chosen although the context is over, too. *)
StartRound ==
    /\ Alive /\ cleaner = "waiting"
    /\ cleaner' = "cleaning"
    /\ UNCHANGED <<process, server, requests, database>>

(* With the context over, every call of a round fails and it ends soon. *)
EndRound ==
    /\ Alive /\ cleaner = "cleaning"
    /\ cleaner' = "waiting"
    /\ UNCHANGED <<process, server, requests, database>>

MutantLeaveLoop ==              \* no case for the context, stopCh is never closed
    /\ FALSE
    /\ UNCHANGED vars

LeaveLoop ==
    /\ Alive /\ cleaner = "waiting"
    /\ CtxDone \/ Stopped
    /\ cleaner' = "done"
    /\ UNCHANGED <<process, server, requests, database>>

-----------------------------------------------------------------------------
(* Requests. *)

Reply(r, what) ==
    answer' = IF answer[r] = None THEN [answer EXCEPT ![r] = what] ELSE answer

End(r, what) ==
    /\ pc' = [pc EXCEPT ![r] = "done"]
    /\ Reply(r, what)
    /\ UNCHANGED <<process, server, cleaner, database, kind, wrote>>

Goto(r, step) ==
    /\ pc' = [pc EXCEPT ![r] = step]
    /\ UNCHANGED <<process, server, cleaner, database, kind, answer>>

(* What a handler turns to first: for a create the reservation with its key,   *)
(* for a count the cache, for the others the row.                             *)
First(k) ==
    CASE k = "create" -> "lookup"
      [] k = "count"  -> "redis"
      [] OTHER        -> "db"

Accept(r) ==
    /\ Alive /\ server = "listening" /\ pc[r] = "none"
    /\ \E k \in Kinds :
        /\ kind' = [kind EXCEPT ![r] = k]
        /\ pc' = [pc EXCEPT ![r] = First(k)]
    /\ UNCHANGED <<process, server, cleaner, database, wrote, answer>>

(* There is a reservation with a create's key, and it is returned, or none. *)
LookupKey(r) ==
    /\ Alive /\ pc[r] = "lookup" /\ "db" \in open
    /\ End(r, "ok") \/ (Goto(r, "redis") /\ UNCHANGED wrote)

(* Creates lock their seats.  Counts look into the cache, which may have the   *)
(* answer.  Without Redis the lock manager and the cache are nil pointers in   *)
(* interfaces that are not nil: the services' checks for nil pass, and the     *)
(* calls panic.                                                                *)
AskRedis(r) ==
    /\ Alive /\ pc[r] = "redis"
    /\ \/ connected /\ Goto(r, "db") /\ UNCHANGED wrote
       \/ connected /\ kind[r] = "count" /\ End(r, "ok")
       \/ ~connected /\ End(r, "panic")

(* The transaction commits, or the count is read. *)
UseDB(r) ==
    /\ Alive /\ pc[r] = "db" /\ "db" \in open
    /\ wrote' = [wrote EXCEPT ![r] = kind[r] # "count"]
    /\ Goto(r, "after")

(* Creates, cancels and counts turn to the cache, confirms do not. *)
MutantUseCache(r) ==            \* cancels do so before their transaction, in UseDB's place
    /\ Alive /\ pc[r] = "db" /\ ~connected /\ kind[r] = "cancel"
    /\ End(r, "panic")

UseCache(r) ==
    /\ Alive /\ pc[r] = "after"
    /\ End(r, IF kind[r] # "confirm" /\ ~connected THEN "panic" ELSE "ok")

(* Refused, or a call failed: a pool is closed, a connection lost. *)
Refuse(r) ==
    /\ Alive /\ Running(r)
    /\ End(r, "error")

(* The timeout middleware answers after 30 seconds.  The handler's goroutine  *)
(* goes on, unseen by Shutdown: its context is cancelled, so that its calls   *)
(* fail, but the one under way may still succeed.                             *)
Timeout(r) ==
    /\ Alive /\ Running(r) /\ answer[r] = None
    /\ Reply(r, "timeout")
    /\ UNCHANGED <<process, server, cleaner, database, kind, pc, wrote>>

-----------------------------------------------------------------------------
Init ==
    /\ schema \in {"old", "dirty", "current"} /\ migrator = "none"
    /\ main = "setup" /\ connected = FALSE /\ open = {} /\ late = FALSE
    /\ server = "off" /\ cleaner = "off"
    /\ kind = [r \in Requests |-> None]
    /\ pc = [r \in Requests |-> "none"]
    /\ wrote = [r \in Requests |-> FALSE]
    /\ answer = [r \in Requests |-> None]

MainProgress ==
    \/ OpenDB \/ BeginUp \/ EndUp \/ NoChange \/ RefuseDirty
    \/ Connect \/ Launch
    \/ CancelContext \/ CloseStopCh \/ AwaitCleaner \/ Drain \/ GiveUp
    \/ CloseRedis \/ CloseDB \/ Exit

CleanerProgress == StartCleaner \/ EndRound

RequestStep(r) ==
    \/ Accept(r) \/ LookupKey(r) \/ AskRedis(r) \/ UseDB(r) \/ UseCache(r)
    \/ Refuse(r) \/ Timeout(r)

Next ==
    \/ MainProgress \/ Signal \/ Kill \/ OthersMigrate
    \/ Listen
    \/ CleanerProgress \/ StartRound \/ LeaveLoop
    \/ \E r \in Requests : RequestStep(r)

Spec == Init /\ [][Next]_vars

(* Goroutines are scheduled and calls return, in time or with an error; so    *)
(* does another server's migration, or its session ends; of the cases that    *)
(* are ready, select does not choose the ticker every time.                   *)
FairSpec ==
    /\ Spec
    /\ WF_vars(MainProgress) /\ WF_vars(migrator = "other" /\ OthersMigrate)
    /\ WF_vars(CleanerProgress) /\ SF_vars(LeaveLoop)

-----------------------------------------------------------------------------
(* Every variable keeps its type; there is no pool for a Redis that failed.   *)
TypeOK ==
    /\ schema \in {"old", "dirty", "current"} /\ migrator \in {"none", "self", "other"}
    /\ main \in Stages
    /\ connected \in BOOLEAN /\ late \in BOOLEAN
    /\ open \subseteq {"db", "redis"} /\ ("redis" \in open => connected)
    /\ server \in {"off", "new", "listening", "closed"}
    /\ cleaner \in {"off", "new", "waiting", "cleaning", "done"}
    /\ kind \in [Requests -> Kinds \cup {None}]
    /\ pc \in [Requests -> {"none", "lookup", "redis", "db", "after", "done"}]
    /\ wrote \in [Requests -> BOOLEAN]
    /\ answer \in [Requests -> {None, "ok", "error", "panic", "timeout"}]

(* Whichever of the servers that start at once migrates the schema or dies    *)
(* migrating it, none of them serves on a schema that is not complete.        *)
ServesMigrated == main \notin Starting \cup {"killed"} => schema = "current"

(* A handler meets a closed pool only if the drain took too long or if its     *)
(* client has been told of a timeout: then the connection is idle, Shutdown     *)
(* does not wait for it, and the handler's goroutine goes on behind it.        *)
PoolsOutliveRequests ==
    \A r \in Requests :
        Running(r) /\ ~(Pools \subseteq open) => late \/ answer[r] = "timeout"

(* Panics come from a missing Redis only.  A create that panics has done      *)
(* nothing, a cancel that panics is done nevertheless.                        *)
PanicsAreContained ==
    \A r \in Requests : answer[r] = "panic" =>
        /\ ~connected
        /\ kind[r] \in {"create", "cancel", "count"}
        /\ wrote[r] <=> kind[r] = "cancel"

(* A signal ends the process, whatever the worker and the requests are at,    *)
(* and a start ends too, although it waits for another one's migration.       *)
MainNeverHangs ==
    /\ main = "signalled" ~> main \in {"exited", "killed"}
    /\ main = "setup" ~> main \notin Starting

(* A server that has started without Redis works without locks and cache, as  *)
(* the warning it logs says.                                                  *)
ServesWithoutRedis == \A r \in Requests : answer[r] # "panic"
=============================================================================
