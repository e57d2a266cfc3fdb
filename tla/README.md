# Verification of the event ticket reservation service

TLA+ specifications of this repository's Go service, TLC configurations that
check them, and TLAPS proofs. The service sells the seats of events over HTTP.
Several servers may run side by side; they share PostgreSQL and Redis and
nothing else. What has to be right lies between them: which steps of which
requests, workers and clients may come between which others.

Contents: [the system](#1-the-system) · [modules](#2-modules) ·
[how the models correspond to the code](#3-from-code-to-model) ·
[runs](#4-runs) · [fairness](#5-fairness) · [proofs](#6-proofs) ·
[where the code departs from its documents](#7-where-the-code-departs-from-its-documents) ·
[what is not modelled](#8-what-is-not-modelled) · [plan](#9-plan) ·
[running it](#10-running-it)

## 1. The system

| Component (code) | State | Operations | What makes it correct |
|---|---|---|---|
| Reservation service (`internal/application/reservation_service.go`, `domain/reservation`) | none of its own; rows it has read | create, confirm, cancel, cancel expired | no seat sold twice, confirmed reservations final, one reservation per idempotency key, no seat reserved forever, every request answered |
| Repositories and transactions (`infrastructure/postgres`, `db/migrations`) | `events`, `seats`, `reservations`, `reservation_seats` | statements, READ COMMITTED transactions | what a transaction checked still holds when it commits; it takes effect whole or not at all; deadlocks end |
| Distributed lock (`infrastructure/redis/distributed_lock.go`) | one Redis key per set of seats | `SET NX` with retries, extend, release | at most one holder within the TTL; never left behind |
| Seat count cache (`redis/seat_cache.go`, `application/seat_service.go`) | one Redis key per event | count, store, invalidate | becomes right once nothing changes |
| Expired reservation cleaner (`internal/worker`) | the list it is working off | a round each minute, stop | finds every reservation that is left over |
| Events and seats catalog (`event_service.go`, `event_repository.go`, `seat_service.go`, `seat_repository.go`) | `events`, `seats` | create, edit with version check, delete, add seats singly and in bulk | no update lost, nobody's booking loses its event, bulk creation whole |
| Server process and migrations (`cmd/api/main.go`, `postgres/db.go`, `postgres/migrations.go`) | connections, goroutines, the schema's version | connect, migrate, start with or without Redis, shut down | never serves on an incomplete schema; closes nothing under a handler whose client waits; always stops |
| HTTP layer (`internal/api`) | none | bind, validate, time out after 30 s, recover from panics | may end a request at any point of the service |
| Metrics (`pkg/metrics`, `middleware/prometheus.go`, the services) | counters and gauges in memory | count attempts, commits, answers | stay within known bounds of the tables; a success that is counted is one |
| Logging, configuration | — | — | decide nothing |

Interaction. A handler calls one service; services call the repositories, the
lock manager and the cache, which talk to PostgreSQL and Redis. Reads outside a
transaction (idempotency key, event, seats, the reservation to confirm or
cancel, the cleaner's list) are separate round trips, so anything may happen
between two of them. The lock is taken before the checks of a create and
released by a `defer`. The cache is invalidated after the commit. The cleaner
runs on a goroutine of every server, without a lock.

Hard behaviour: stale reads followed by unconditional writes (cancel, cleaner,
confirm); a lock that can time out under its owner and whose key is the whole
set of seats, so that it does not separate overlapping requests; commits whose
acknowledgement is lost; requests that die with the lock taken; commands to Redis
that are sent twice or arrive late; rows locked in opposite orders on the last
connections of a pool; counts cached after they have become wrong, or left alone
when seats are added; clients that are told 503 or 400 of what has been done;
servers that migrate one schema at once, or die migrating it. `PROJECT.json` lists each of these hazards at its
line, with the properties that cover it.

## 2. Modules

| Module | Models | Composition |
|---|---|---|
| `Tables` | the statements on seats and reservations, the insertion of seats and the three booking transactions as indivisible steps | base of `Reservation` and of `RowLocks` |
| `Reservation` | create, confirm, cancel, cleaner, cache, lock and seats added during the sale, all interleaved | EXTENDS `Tables`; implements `TablesSpec` and `OncePerKey`, and `SeatSale` without stale writes |
| `SeatSale` | abstract: seats are taken together, lost only by a cancel before confirmation | refined by `Reservation` |
| `OncePerKey` | abstract: an idempotency key makes one reservation at most, and everybody told of one is told of that | refined by `Reservation` |
| `RowLocks` | the same transactions statement by statement and row by row under READ COMMITTED, on the connections of each server's pool | EXTENDS `Tables`; implements `TablesSpec` |
| `Metrics` | what every step of `Reservation` counts and answers: HTTP status told, status counted, `reservations_total`, `active_reservations` | EXTENDS `Reservation` and implements its `Spec` |
| `DistributedLock` | the Redis lock, command by command, over an unreliable network | on its own; implements `Lease`; `Reservation` assumes less than it provides |
| `Lease` | abstract: a lease of at most a TTL, one at a time, renewed, given back or run out | refined by `DistributedLock` |
| `Catalog` | one event and its seats under concurrent edits, deletion, growth and booking | on its own |
| `Server` | the life of one server process: connection, migration beside other servers, goroutines, signal, drain, closes | on its own |
| `MCReservation`, `MCRowLocks`, `MCMetrics` | definitions for TLC | EXTEND their module |
| `TablesProofs` | theorems and proofs | EXTENDS `Tables` |
| `ReservationProofs`, `RowLocksProofs` | theorems and proofs | EXTEND their module and `TablesProofs` |
| `DistributedLockProofs`, `CatalogProofs`, `ServerProofs` | theorems and proofs | EXTEND their module |
| `MetricsProofs` | theorems and proofs | EXTENDS `Metrics` and `ReservationProofs` |

The layers justify each other. `Reservation` takes a transaction to be one step;
that this is right for READ COMMITTED with these statements is what `RowLocks`
shows and `TransactionsImplementTables` proves. That `Reservation` in turn does
nothing to the tables but such transactions, whole and one at a time, is
`TablesChangeWhole`, proved as `ServiceImplementsTables`: the two share the
interface `TablesSpec`, and what is proved of it (`TablesKeepHolders`) holds of both.
`Metrics` adds observations and disables nothing it
relies on (`ReportingIsPassive`), so every safety property of `Reservation` is
one of the metered service. `Reservation` trusts the lock
with nothing: its TTL may fire at any time. What the lock does ensure is in
`DistributedLock`: a `Lease`.

Operators named `Mutant...` are faults that could be made in the definition
below them (a dropped `WHERE`, a count not compared, a missing TTL). No
specification uses them. `PROJECT.json` names, for every property, one that
breaks it.

## 3. From code to model

`PROJECT.json` maps each definition to its lines. The conventions are these.

**Reservation.** A request is a process with a program counter `pc`. Its steps
are the round trips: `LookupKey` (the idempotency lookup, then the early return
of the reservation found), `AcquireLock`/`MissLock` (one attempt; `MaxTries`
stands for 3), `CheckSeats` (event and seats read, all available),
`CommitCreate` (the transaction), `FinishCreate` (invalidate, answer),
`ReleaseLock` (the deferred release, whose error is ignored). Every early return
and error is a step of its own (`RefuseCreate`, `RollbackCreate`,
`MisreportCreate`), and `Abandon` ends a request anywhere: a crash, a panic, the
30 second timeout, an error of the idempotency lookup. A request that has
died leaves its lock to the TTL, because `Release` is given the same context; so
does one whose `SET NX` comes so late that nobody waits for it any more, which to
other requests is the same (`AcquireLock`, then `Abandon`). What a client was told
(`Told`) is the answer of a request that is done: the response is written after
the deferred release.

A confirm or cancel reads the row and applies the domain method to its copy
(`Load`); its transaction then writes what it decided, and the model like the
code does not look at the status again. `ReleaseSeats` matches rows whatever
their status and holder, as the `UPDATE` does. The cleaner lists once, then runs one transaction
for each entry; failures skip (`SkipListed`), stopping forgets the list.

Data is abstracted to what the properties tell apart. A create request names the
row it may insert. Seat ids form a set: a request with an id twice fails on
the primary key of `reservation_seats`, which `RollbackCreate` covers. Time is the set `expired`: `expires_at` and
the cleaner's cutoff are 15 minutes after creation both, and one clock is
assumed to decide them. Prices, totals, users and log lines are left out.
`AddSeats` inserts one or several of the seats in `Late` while bookings, counts
and the cleaner are at work, and like the code leaves the cached count alone. `CheckSeats` merges the reads of the
event and of the seats: what lies between them is judged again at the commit
(seats) or never again (the event's start).

**Metrics.** Each step of `Reservation` is a step here, with what the code
counts and answers at that point: `Book` is `CommitCreate`, `CountBooking` is
`FinishCreate` and the counting, and so on; steps that report nothing are
`Unreported`. `told` is the status the client got, `seen` the one
`http_requests_total` counted. `Abandon` is split by its cause: `Die` (the
process ends, nothing is counted), `Error` (a call fails, 400), `CutOff` (the
timeout middleware answers 503 while the handler, inside of it, ends as far as
it can, and the Prometheus middleware, inside both, counts what the handler
returned) and `Panic` (a server without Redis: a create panics at the lock, a
cancel at the cache, after its commit and its counting; Recover answers 500, and
the Prometheus middleware, which the panic unwinds, counts nothing). Any request
may meet a server without Redis, whatever the others meet. A figure is the sum of what all processes have ever
counted: each keeps its own and starts from zero, which is for queries to make
up for. `wrote`, `metered` and `cleaned` are history. Refusals before the
service is called (401, a body that does not parse) touch nothing and are left
out.

**RowLocks.** A transaction's `UPDATE seats` takes a snapshot of matching rows
(`StartUpdate`), locks them one by one in any order and evaluates its `WHERE`
again on each (`LockRow`), then compares counts (`CountRows`). An `INSERT` waits
for an uncommitted row with the same key. Writes become visible at `Commit`. The
insertion into `reservation_seats` takes key-share locks, which do not conflict
with these updates, and is left out. `Deadlocked` is the set of transactions in a cycle of waits; `Fail`
ends one. A transaction takes a connection of its server's pool when it begins
and keeps it to its end, while its statements wait for locks; `Full` makes
others wait with their `Begin`. Reads outside transactions take a connection
for one statement and wait for nobody while they have it, so they are left out.

**DistributedLock.** Each client is one `AcquireLockWithRetry` and what follows.
`sent` holds the commands under way, so they may arrive late, twice
(`SendAgain`: go-redis sends again on another connection) or never (`Lose`).
`Execute` is Redis running one command or script. `age` counts, by the client's clock, from when it sent the
command that got it its lease. `Extend` is modelled though nothing under `src/`
calls it. Redis keeps its data; a restart that forgets keys is outside.

**Catalog.** Each SQL statement outside a transaction is a step. `UpdateEvent`
is the `UPDATE ... WHERE id AND version`; `MissEvent` is zero rows affected.
Foreign keys are part of the step: `DeleteEvent` needs there to be no reservation and takes the seats with it, `InsertBatch` and
`CommitBooking` need the event. Whether a seat is free is `Reservation`'s
business; here a booking only refers to an event and a seat. `InsertBatch` is one multi-row `INSERT`, whole or not at all; a request longer than a batch
would need several.

**Server.** `schema` and `migrator` are what the servers share of
golang-migrate: the version in `schema_migrations` with its dirty flag, and whose
session has the advisory lock. Other servers migrate, succeed or die at any time
(`OthersMigrate`). Up waits for the lock, so `NoChange`, `RefuseDirty` and
`BeginUp` need nobody to have it. `main` is the main goroutine's position; the states of the context,
of `stopCh` and of `doneCh` follow from it and from `cleaner`. `connected` is
whether Redis answered the ping at startup; if not, the nil pointers main passes
on make `AskRedis` and `UseCache` panic, which the recover middleware turns into
an answer. A request is what it needs of Redis and the database: creates look up
their key first (`LookupKey`) and end there if it has a reservation, otherwise
they turn to Redis for their lock; counts turn to the cache first, cancels after
their commit, confirms not at all. After the timeout middleware has answered, the
handler's goroutine goes on unseen by `Shutdown`, so it may meet closed pools even
if the drain was in time; `PoolsOutliveRequests` says that nobody else does. `Kill` is a failed bind, a fatal log or SIGKILL at any moment; it ends the
session that has the migrations' lock and leaves the schema dirty.

## 4. Runs

Model values stand for requests, seats, keys and clients. Every bound is a
CONSTANT of a `.cfg` file.

| Run | Specification and bounds | Shows |
|---|---|---|
| `Booking` | `Spec`; 3 creates, 1 confirm/cancel, 1 cleaner, 1 seat, 3 keys, 1 attempt | `HoldersAreLive`, `ReservedSeatsArePending`, `SameKeySameReservation` hold in all interleavings, stale writes included; `TablesChangeWhole`: nothing is written but whole transactions; `LossesHaveACause`: which steps may rob a live reservation of its seat or a client of its confirmation, however often it has happened before |
| `Calm` | `CalmSpec`; 2 creates, 2 confirms/cancels, 1 cleaner, 2 seats, 2 keys, 2 attempts | `NoDoubleBooking`, `OwnsItsSeats`, `ConfirmationsAreKept`, and the refinement of `SeatSale`, if no two confirms, cancels or cleaner rounds have read the same reservation at once |
| `Fair` | `FairSpec`; 2 creates, 1 manager, 1 cleaner, 1 seat, 2 keys, 1 attempt | every request ends, reserved seats are confirmed or freed; `KeysAreIdempotent`: the refinement of `OncePerKey`, through retries, lost acknowledgements, crashes and stale writes |
| `Cache` | `FairSpec`; 1 create, 1 manager, 1 cleaner, 1 viewer, 2 seats, one of them added during the sale | the cached count converges |
| `Figures` | `MeteredSpec`; 2 creates, 1 manager, 1 cleaner, 1 viewer, 1 seat added during the sale, 2 keys, 1 attempt | `FiguresFollowRows`: how far each figure may be from the tables; `AnswersAreExcused`: who may be told of a failure, and of a success |
| `RowLocks` | `FairSpec`; 2 creates, 2 managers, 2 seats, 2 keys, 2 servers with pools of 2 connections | row-by-row transactions implement `TablesSpec`; `MatchesHold`; `HoldersAreLive` and `ReservedSeatsArePending` with two seats and stale confirms and cancels of overlapping reservations; `NeverStuck` and `TransactionsEnd`, with deadlocks and full pools |
| `Lock` | 2 clients, 2 attempts, TTL 2, 1 resend/extend each | `ExclusiveWithinLease`, `LeaseIsKept`; `IsALease`: the refinement of `Lease`; `AcquireReturns`, `LockIsFreed` |
| `Catalog` | 2 editors, 1 deleter, 2 growers, 1 booker, requests of up to 2 seats in batches of 2 | `UpdatesBuildOnWhatWasRead`, `LosersHaveAWinner`, `ReservationsKeepTheirEvent`, `BulkIsAllOrNothing` |
| `Server` | 2 requests of any kind, Redis up or down at startup, the schema old, current or dirty | `ServesMigrated`, `PoolsOutliveRequests`, `PanicsAreContained`, `MainNeverHangs` |
| `DoubleBooking` | `Spec`; bounds of `Calm` | **violated**: see section 7 |
| `StaleCount` | `PromptSpec`, with one viewer | **violated**: see section 7 |
| `NoRedis` | 1 request | **violated**: see section 7 |

Why the bounds are enough to be interesting. In `Calm` and `DoubleBooking` two
creates with two keys and any nonempty subset of two seats give equal, overlapping
and disjoint requests, with equal and different keys; two managers and a cleaner
give every pair of stale writers. `Booking` has a third create and key instead of
the second seat and manager, for the losses that follow from a first one: a stale write on c1 takes the seat from c2, c3 books it,
and a cancel of c2, with nothing stale about it, takes it from c3. Deadlock needs two transactions and two seats. In `RowLocks`
three transactions of one server compete for two connections while the other
server's create locks the same rows; which create is the
other server's makes no difference, and with both under way there is no
reservation to confirm or cancel yet. In `Lock` one resent command and
two ticks suffice for a lease to end under a command that is still under way. In `Catalog` the edits and growers race in pairs, and a batch is longer
than one row. In
`Figures` one seat makes the creates rivals; the confirm or cancel may meet the
cleaner on the same reservation, so that gauges drift in both directions, and
requests panic after or before others have committed. In `Server` one request can commit while another is refused, panics or has timed out. `Fair` and `Cache` are small because liveness forbids symmetry;
retries are checked in `Calm` (2 attempts) and for liveness in `Lock`
(`AcquireReturns`). Safety results do not rest on the bounds alone: section 6
proves most of them for every size.

Symmetry is used in `Booking`, `Calm`, `DoubleBooking` and `Figures`, over
requests, seats, keys and cleaners, which are only compared for equality;
never together with liveness. Deadlock checking is off where all requests come
to their end (`RowLocks`, `Lock`, `Catalog`, `Server`, `NoRedis`); it is on for `Reservation`, where
the cleaner always has a next round.

## 5. Fairness

`Reservation!FairSpec`: weak fairness for each handler's next step (goroutines
are scheduled, calls return within the 30 second timeout, and `Abandon` may take its place),
for expiry and TTLs (time passes), for the cleaner (its ticker fires), for a
viewer that has to store its count. Strong fairness only for `CancelListed`: a
transaction for one reservation, tried in round after round, does not fail every
time. Nothing is assumed of `LookupKey`, `LoadForConfirm` and `LoadForCancel`: a
request need not be made. Nor is any request assumed to succeed: it may be
refused, rolled back or abandoned instead, and Redis may fail it.

`RowLocks!FairSpec`: a transaction that waits for nobody goes on or fails, and
one in a cycle is eventually chosen: PostgreSQL's deadlock detection.

`DistributedLock!FairSpec`: calls return, time passes, commands do not stay
under way forever, and a holder releases at last, strongly because the extends
before it are finite.

`Server!FairSpec`: main and the cleaner's rounds go on (calls return, with an
error once the context is cancelled), and of the ready cases Go's `select` does
not choose the ticker forever, a strong fairness of `LeaveLoop`. Another
server's migration ends or its session does. Nothing is
assumed of requests: the drain's deadline ends it without them.

`Catalog` and `Metrics` state safety only.

## 6. Proofs

TLAPS proves these for all values of the constants that satisfy the named
assumptions: any number of requests, seats, keys, cleaners, clients, retries.

| Theorem (module) | Establishes |
|---|---|
| `TablesKeepHolders` (`TablesProofs`) | seats and holders agree under any sequence of transactions |
| `TypeCorrect`, `RequestsAlwaysMatchRows`, `IdempotencyCorrect`, `HoldersCorrect`, `ReservedSeatsCorrect` (`ReservationProofs`) | the invariants of `Booking`, for `Spec` |
| `ServiceImplementsTables`, `KeysAreSafe` (`ReservationProofs`) | `Reservation` implements `TablesSpec` and `OncePerKey` |
| `BreachesHaveACause` (`ReservationProofs`) | `LossesHaveACause`: a live reservation is robbed only by a write on a cancelled one or by the write of one that has been robbed, in every state |
| `OwnershipWithoutStaleWrites`, `NoDoubleBookingWithoutStaleWrites`, `ConfirmationsKeptWithoutStaleWrites`, `PromiseKeptWithoutStaleWrites` (`ReservationProofs`) | what holds without which of them, with everything else overlapping; refinement of `SeatSale` included |
| `CalmIsNeverStale`, `CalmHasNoStaleWrites`, `OwnershipCorrect`, `CalmNeverDoubleBooks`, `CalmKeepsConfirmations`, `CalmKeepsThePromise` (`ReservationProofs`) | calm behaviour has no stale writes, so the properties of `Calm` follow |
| `ReportingIsPassive`, `MeteredTypeCorrect`, `FiguresCorrect`, `AnswersCorrect` (`MetricsProofs`) | `Metrics` implements `Reservation`; the properties of `Figures` |
| `RowLocksTypeCorrect`, `StatementsAlwaysFollow`, `MatchesAlwaysHold`, `TransactionsImplementTables`, `RowsKeepHolders` (`RowLocksProofs`) | rows stay as checked; transactions are indivisible; for any pools |
| `NeverStuckHolds`, `OnlySeatsDeadlock`, `TransactionsGoForward` (`RowLocksProofs`) | somebody can always move, cycles of waits are over seats, and every step is one forward |
| `LockTypeCorrect`, `LeasesAreKept`, `LockExcludes`, `LockImplementsLease` (`DistributedLockProofs`) | exclusion within the TTL; `DistributedLock` implements `Lease` |
| `ServerTypeCorrect`, `AlwaysServesMigrated`, `PoolsAlwaysOutliveRequests`, `PanicsAlwaysContained` (`ServerProofs`) | the safety properties of `Server` |
| `CatalogTypeCorrect`, `NoUpdateIsLost`, `LosersAlwaysHaveAWinner`, `BookingsKeepTheirEvent`, `BulkIsWhole` (`CatalogProofs`) | the properties of `Catalog` |

*Tables.* `TablesInv` is inductive under any transactions: seats and their
holders agree, the seats of a reservation exist, keys are unique. `HoldersAreLive`
alone is not, since a stale cancel of a seat's holder has to be known to release
all the holder's seats. `Reservation` and `RowLocks` both implement `TablesSpec`
and have it from there.

*Reservation.* `TypeOK` is inductive alone. `RequestsMatchRows` adds how far each
request is: without it a second `CommitCreate` could not be excluded. With both,
each step is a step of `TablesSpec` or leaves the tables alone, and each is a step
of `OncePerKey` or none: a commit makes the key's reservation, the end of a create
tells, and rows are never deleted.

The properties of `Calm` do not hold in general, and the proofs say where they
are lost. `OwnershipStep` takes any reachable state, however much has gone wrong
before, a live reservation that owns its seats or one that becomes live, and any
step: either it owns them afterwards, or the step is the commit of a confirm or
cancel of another reservation that is already *cancelled*
(`StaleWrite({"cancelled"})`) or that has been robbed itself. So the first loss is
due to a stale write, and each later one to another stale write or to what those
before have left. `ConfirmationStep` says of each client that its confirmation is
lost only to a cancel of a reservation already *confirmed*. Both need nothing but
`Spec`'s invariants, so creates, the lock with its TTL, crashes and seats that are
added are all cleared (`BreachesHaveACause`); the cleaner is not: an entry of its
list may be stale like what a user's cancel has read. `SpecWithout(Old)` is the system without such
writes, as it would be if `UPDATE reservations` had a condition on the status: under it
the invariants follow at once, `NoDoubleBooking` because a seat has one
`reserved_by`, and without both kinds each step is a step of `SeatSale` or none.
Each restriction is needed: under `SpecWithout({"cancelled"})` TLC still finds a
confirmation that is lost, and under `SpecWithout({"confirmed"})` a seat sold twice.
`CalmSpec`, where no two managers have read one reservation at once, has
no stale writes (`NothingIsStale` is inductive in it), so its theorems are corollaries.
The lock occurs in none of these arguments: the conditions of the `UPDATE`s
carry them.

*Metrics.* Because every step is one of `Reservation` (`ReportingIsPassive`), its
invariants come for free. The counts are then compared step by step: a create's
commit adds a row and an uncounted commit at once, its counting moves one to the
other (`SuccessesMatchRows`); for the gauges each confirm or cancel that is
counted has taken its reservation out of "pending" before. The cardinalities are
handled by the library's facts about adding and removing one element. That
answers are excused needs to know what a request's position says of `wrote`,
`metered`, what it was told and what was counted.

*RowLocks.* `TypeOK /\ StatementsFollow /\ MatchesHold` is inductive: a row that
was found matching is locked, and only its lock's owner may write it. At
`Commit` the rows found are all the rows asked for, so the step is `CreateTx`,
`ConfirmTx` or `CancelTx`; every other step leaves the tables alone or settles
what a create asks for. For `NeverStuck`, `StatementsFollow` gives that a lock belongs to a
transaction that is under way (`LocksFollow`), so whoever waits, waits for one of
those; if none could move, all of them would wait for each other and each would
be `Deadlocked`. A pool is full only of transactions that are under way. A wait
for a reservation's row is for one that is at its commit, and a wait for a key for
one past its insertion, so a cycle has to go through rows of seats. Since every
step takes one transaction forward in a finite order (`StepsGoForward`), all that
`TransactionsEnd` needs beyond these theorems is the fairness.

*DistributedLock.* A client within its lease owns the key with at least
the rest of its lease to live (`LeaseIsKept`). This needs what a "yes" under way
means (`AnswersAreKept`: from its sending on, the key is the client's for a TTL)
and that no release of the value is under way as long as the holder counts on it
(`ReleasesAreLast`). Exclusion follows because a key has one value. The lease of
`Lease` is that of the one client that counts on one, as long as its clock says: an answer
that is read grants it, sending a release or giving up gives it back, a tick
passes it, and what Redis and the network do is not seen.

*Catalog.* A version number names one version of the data (`ReadsAreOld`);
every version but the first is due to an editor who was not told "notfound"
(`EditsAreSettled`);
bookings are made once and keep their seat (`BookedIsSettled`); what a grower
asks for fits into its first batch (`OneBatch`, from `CountAssumption`:
`MaxCount <= BatchSize`, which are 1000 and 1000 in the code).

*Server.* `Migrated` says that whoever has the migrations' lock has marked the
schema dirty, and that it is current from the moment main has passed. `Launched` relates main to what it has launched and waited for;
`RequestFollows` says what each position of a handler implies for Redis and for
what it has written. That pools outlive requests goes from the drain, which lets
main pass only when nobody waits, over all that handlers may still do behind
their clients' backs (`StepKeepsPools`, with `PoolsOpen` for main's positions).

Assumptions (all named `ASSUME`s, evaluated by TLC in the runs): kinds of
requests are disjoint, null values are not requests or data, the event's seats
are finite and requests ask for nonempty sets of them, requests are finitely
many where they are counted (`Metrics`), a pool has a connection, TTL and attempts are positive, `MaxCount <= BatchSize`.

Only model-checked: everything under fairness (`RequestsAreAnswered`,
`ReservedSeatsMoveOn`, `CacheConverges`, `TransactionsEnd`,
`AcquireReturns`, `LockIsFreed`, `MainNeverHangs`), which is beyond the prover, as is `ENABLED`.
Nothing here needs induction over data or recursive operators.

## 7. Where the code departs from its documents

* **Double booking** (`DoubleBooking`). `README.md:8` guarantees zero double
  bookings. A confirm that has read its reservation as pending goes on after it has
  been cancelled and its seats have been booked by another one: `ConfirmSeats`
  finds the seats reserved, no matter for whom, and `Update` turns "cancelled"
  into "confirmed". Both reservations are live then, on the same seats. That is
  the trace of the run, with two creates. With a third (the bounds of `Booking`) a
  stale cancel does it, too: `ReleaseSeats` (`seat_repository.go:197`) frees the
  seats of whoever has booked them since, and the next create books them as well.
  The same stale cancel can free the seats of a confirmed reservation or overwrite
  `confirmed` by `cancelled`, although `docs/IMPLEMENTATION.md:118` calls it final:
  `ConfirmationsAreKept` holds under `CalmSpec` only. What remains true in any
  case is `HoldersAreLive` and `ReservedSeatsArePending`. A condition on
  `status` in the `UPDATE` of the reservation, a failure if it matches no row, would remove
  the stale writes that `BreachesHaveACause` traces every loss to, and `PromiseKeptWithoutStaleWrites`
  shows that this is enough.
* **Stale count** (`StaleCount`). `docs/IMPLEMENTATION.md:944` says that the
  cache is deleted whenever a seat changes. The cleaner does not delete it, and
  a count may be stored after the delete of the booking it has missed. It is wrong until its
  TTL passes (`CacheConverges`).
* **Without Redis** (`NoRedis`). With Redis down at startup `cmd/api/main.go:80`
  announces that the distributed lock is disabled and goes on. But lines 82-83
  and 101-102 pass a nil `*LockManager` and a nil `*SeatCache` as interfaces, which are
  not nil, so the services' checks for nil pass: creates with a new key and counts
  panic, and cancels panic after their commit. `PanicsAreContained` says that this is
  all that happens. The client of a cancel that is done is told 500, and
  `http_requests_total` does not count it (`AnswersAreExcused`).

Noted without a run. The pending gauge does not fall when a reservation expires:
`docs/IMPLEMENTATION.md:570` calls it the number of provisional reservations that
expire after 15 minutes, but the cleaner does not count, so it grows with
each one it cancels; `PendingIsBounded` says by how much. The label `error`
of `reservations_total` (`metrics.go:17`, `docs/IMPLEMENTATION.md:594`) is counted nowhere, so a create
that fails in its transaction leaves no trace there (`AttemptsAreCountedOnce` is an inequality).
The 409 documented at `handler/reservation.go:61` is never answered: a taken
seat is a 400, like every error of the service, that of a commit which took effect
without saying so too. The 503 of a timeout is never counted, since the Prometheus middleware is
inside the timeout's, nor is the 500 of a panic, which unwinds it. `SeatService.InvalidateCache` has no caller, so seats
that are added stay out of the cached count until its TTL passes.

The editor who loses the race for an event's version is
told that the event does not exist (`event_repository.go:152`);
`ErrOptimisticLockConflict` (`domain/event/errors.go:12`) is never returned;
`LosersHaveAWinner` says that nobody else is told so.
A fix of the cleaner that invalidates the cache would have to mind the nil
cache: a panic on its goroutine is recovered by nobody and ends the process.

## 8. What is not modelled

* Requests refused before a service is called: binding, validation, a missing
  user; and rendering. They change nothing.
* Plain reads (`GET` of events, seats, reservations, with their paging),
  configuration, logging, generated API documentation, dashboards, load tests.
  Generated documentation alone is a sixth of the source.
* Histograms of durations, and the restart of figures at zero with each process.
* What the migration does to the schema; that it is whole or not is modelled.
* Clocks: skew between servers and the database, `TIMESTAMP` without time
  zone, the time between the check that booking is open and the commit.
* Sizes: `INTEGER` amounts and the `version` column do not overflow in the
  models.
* Redis losing data, PostgreSQL losing committed data.

## 9. Plan

Done: the core (`Tables`, `Reservation`, `SeatSale`, `RowLocks` with its pools),
the metrics, the lock, the catalog, the server with its migrations, their runs
and the theorems above; the chain from rows to the service is closed by
`TransactionsImplementTables` and `ServiceImplementsTables`. Every invariant a run
checks is proved, and so is every refinement (`TablesSpec` twice, `OncePerKey`,
`SeatSale`, `Lease`, `Metrics` of `Reservation`). What could follow:

1. The safety half of the other liveness properties, as `NeverStuckHolds` and
   `TransactionsGoForward` are for `TransactionsEnd`: of `Server`'s shutdown
   and of the lock's calls.
2. An abstract event with versions that `Catalog` implements.
3. The catalog's deletion of an event together with `Reservation`'s seats.

## 10. Running it

In this directory:

    tlc -workers 2 -config Booking.cfg MCReservation
    tlc -workers 2 -config Lock.cfg DistributedLock
    tlapm ReservationProofs.tla

`PROJECT.json` lists each run with its module, configuration and properties. The
longest take one to three minutes on two cores.
