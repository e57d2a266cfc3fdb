------------------------------- MODULE Catalog -------------------------------
(***************************************************************************)
(* One event and its seats, as those who run the event change them while   *)
(* they are on sale: the event is created, edited under a version check    *)
(* and deleted (event_service.go, event_repository.go), seats are added    *)
(* one by one or in bulk (seat_service.go, seat_repository.go), and        *)
(* reservations refer to both.  Each SQL statement outside a transaction   *)
(* is a step; foreign keys are checked in it.  Whether a seat is free is   *)
(* not looked at here: that is Reservation.                                *)
(***************************************************************************)
EXTENDS Naturals

CONSTANTS
    Editors,     \* the PUT /events/:id requests
    Deleters,    \* the DELETE /events/:id requests
    Growers,     \* the POST .../seats and .../seats/bulk requests
    Bookers,     \* the POST /reservations requests
    MaxCount,    \* seats a bulk request may ask for (1000 in the handler)
    BatchSize,   \* rows of one INSERT (1000 in the repository)
    None         \* no row, no answer

Requests == Editors \cup Deleters \cup Growers \cup Bookers

(* The handler admits no more seats than the repository inserts at once. *)
ASSUME CountAssumption == MaxCount \in Nat \ {0} /\ BatchSize \in Nat /\ MaxCount <= BatchSize
ASSUME KindsAssumption ==
    /\ Editors \cap (Deleters \cup Growers \cup Bookers) = {}
    /\ Deleters \cap (Growers \cup Bookers) = {}
    /\ Growers \cap Bookers = {}
ASSUME NoneAssumption ==
    /\ None \notin Requests \cup {"ok", "failed", "notfound"}
    /\ None \notin [version : Nat, by : Requests \cup {None}, open : BOOLEAN]

VARIABLES
    event,      \* its row, or None
    created,    \* whether there has been one; its id does not come again
    seats,      \* by seat number, the request that made the seat, or None
    booked,     \* the bookers with a row in reservations
    pc,         \* what each request is at
    answer,     \* what it answered
    read,       \* the row an editor has read and works on
    asked,      \* the numbers of the seats a grower is to make
    left,       \* those it still has to insert
    seat        \* the seat a booker wants

rows == <<event, created, seats, booked>>
work == <<read, asked, left, seat>>
vars == <<rows, pc, answer, work>>

MutantCounts == 1 .. 2 * BatchSize      \* the handler's max is higher than a batch
Counts  == 1 .. MaxCount
Numbers == 1 .. 2 * BatchSize

(* What tells one version of the row from another: whose data it has, and     *)
(* whether start_at leaves it open for booking.                               *)
Row(v, from, o) == [version |-> v, by |-> from, open |-> o]

Present == event # None

Finish(q, what) ==
    /\ pc' = [pc EXCEPT ![q] = "done"]
    /\ answer' = [answer EXCEPT ![q] = what]

Proceed(q, step) ==
    /\ pc' = [pc EXCEPT ![q] = step]
    /\ UNCHANGED answer

-----------------------------------------------------------------------------
CreateEvent ==
    /\ ~created
    /\ created' = TRUE
    /\ \E o \in BOOLEAN : event' = Row(0, None, o)
    /\ UNCHANGED <<seats, booked, pc, answer, work>>

(* The start of the event comes. *)
CloseBooking ==
    /\ Present /\ event.open
    /\ event' = [event EXCEPT !.open = FALSE]
    /\ UNCHANGED <<created, seats, booked, pc, answer, work>>

(* UpdateEvent: read the row, *)
ReadEvent(e) ==
    /\ pc[e] = "new"
    /\ IF Present
       THEN read' = [read EXCEPT ![e] = event] /\ Proceed(e, "update")
       ELSE UNCHANGED read /\ Finish(e, "notfound")
    /\ UNCHANGED <<rows, asked, left, seat>>

(* ... then UPDATE ... SET version = version + 1 WHERE version = the one read, *)
MutantUpdateEvent(e) ==         \* without the version in the WHERE
    /\ pc[e] = "update"
    /\ Present
    /\ \E o \in BOOLEAN : event' = Row(event.version + 1, e, o)
    /\ Finish(e, "ok")
    /\ UNCHANGED <<created, seats, booked, work>>

UpdateEvent(e) ==
    /\ pc[e] = "update"
    /\ Present /\ event.version = read[e].version
    /\ \E o \in BOOLEAN : event' = Row(event.version + 1, e, o)
    /\ \E a \in {"ok", "failed"} : Finish(e, a)
    /\ UNCHANGED <<created, seats, booked, work>>

(* ... which finds no row if there is none with that version. *)
MutantMissEvent(e) ==           \* a row that the UPDATE does not change is not counted
    /\ pc[e] = "update"
    /\ Finish(e, "notfound")
    /\ UNCHANGED <<rows, work>>

MissEvent(e) ==
    /\ pc[e] = "update"
    /\ ~(Present /\ event.version = read[e].version)
    /\ Finish(e, "notfound")
    /\ UNCHANGED <<rows, work>>

(* DELETE: reservations refer to the event and stop it, seats go with it. *)
MutantDeleteEvent(d) ==         \* reservations go with it, too
    /\ pc[d] = "new" /\ Present
    /\ event' = None
    /\ seats' = [i \in Numbers |-> None]
    /\ Finish(d, "ok")
    /\ UNCHANGED <<created, booked, work>>

DeleteEvent(d) ==
    /\ pc[d] = "new" /\ Present
    /\ booked = {}
    /\ event' = None
    /\ seats' = [i \in Numbers |-> None]
    /\ \E a \in {"ok", "failed"} : Finish(d, a)
    /\ UNCHANGED <<created, booked, work>>

MissDelete(d) ==
    /\ pc[d] = "new" /\ ~Present
    /\ Finish(d, "notfound")
    /\ UNCHANGED <<rows, work>>

-----------------------------------------------------------------------------
(* CreateSeat and CreateBulkSeats: the event is looked up, ... *)
MutantAskForSeats(g) ==         \* numbered from 0
    /\ pc[g] = "new" /\ Present
    /\ \E n \in Counts :
        /\ asked' = [asked EXCEPT ![g] = 0 .. n - 1]
        /\ left' = [left EXCEPT ![g] = asked'[g]]
    /\ Proceed(g, "insert")
    /\ UNCHANGED <<rows, read, seat>>

AskForSeats(g) ==
    /\ pc[g] = "new" /\ Present
    /\ \E n \in Counts, one \in BOOLEAN :
        /\ asked' = [asked EXCEPT ![g] = IF one THEN {n} ELSE 1 .. n]
        /\ left' = [left EXCEPT ![g] = asked'[g]]
    /\ Proceed(g, "insert")
    /\ UNCHANGED <<rows, read, seat>>

MissSeats(g) ==
    /\ pc[g] = "new" /\ ~Present
    /\ Finish(g, "notfound")
    /\ UNCHANGED <<rows, work>>

Batch(g) == {i \in left[g] : \A j \in left[g] : i < j + BatchSize}

(* ... then one INSERT for each batch, refused whole if a number is taken     *)
(* already or the event has gone.                                             *)
InsertBatch(g) ==
    /\ pc[g] = "insert" /\ Present
    /\ \A i \in Batch(g) : seats[i] = None
    /\ seats' = [i \in Numbers |-> IF i \in Batch(g) THEN g ELSE seats[i]]
    /\ left' = [left EXCEPT ![g] = @ \ Batch(g)]
    /\ \/ left'[g] = {} /\ Finish(g, "ok")
       \/ left'[g] # {} /\ Proceed(g, "insert")
       \/ Finish(g, "failed")
    /\ UNCHANGED <<event, created, booked, read, asked, seat>>

-----------------------------------------------------------------------------
(* CreateReservation's view of the event: it is there and open, then has the seat, *)
CheckEvent(b) ==
    /\ pc[b] = "new"
    /\ Present /\ event.open
    /\ Proceed(b, "seat")
    /\ UNCHANGED <<rows, work>>

FindSeat(b) ==
    /\ pc[b] = "seat"
    /\ \E i \in Numbers : seats[i] # None /\ seat' = [seat EXCEPT ![b] = i]
    /\ Proceed(b, "insert")
    /\ UNCHANGED <<rows, read, asked, left>>

(* ... and it must still be there with the seat when the transaction commits. *)
CommitBooking(b) ==
    /\ pc[b] = "insert"
    /\ Present /\ seats[seat[b]] # None
    /\ booked' = booked \cup {b}
    /\ Finish(b, "ok")
    /\ UNCHANGED <<event, created, seats, work>>

(* Anything may be refused or fail and leave the tables as they are. *)
Fail(q) ==
    /\ pc[q] # "done"
    /\ Finish(q, "failed")
    /\ UNCHANGED <<rows, work>>

-----------------------------------------------------------------------------
Init ==
    /\ event = None /\ created = FALSE
    /\ seats = [i \in Numbers |-> None]
    /\ booked = {}
    /\ pc = [q \in Requests |-> "new"]
    /\ answer = [q \in Requests |-> None]
    /\ read = [e \in Editors |-> None]
    /\ asked = [g \in Growers |-> {}]
    /\ left = [g \in Growers |-> {}]
    /\ seat = [b \in Bookers |-> None]

Next ==
    \/ CreateEvent \/ CloseBooking
    \/ \E e \in Editors : ReadEvent(e) \/ UpdateEvent(e) \/ MissEvent(e)
    \/ \E d \in Deleters : DeleteEvent(d) \/ MissDelete(d)
    \/ \E g \in Growers : AskForSeats(g) \/ MissSeats(g) \/ InsertBatch(g)
    \/ \E b \in Bookers : CheckEvent(b) \/ FindSeat(b) \/ CommitBooking(b)
    \/ \E q \in Requests : Fail(q)

Spec == Init /\ [][Next]_vars

-----------------------------------------------------------------------------
(* The type of each variable. *)
Version == [version : Nat, by : Editors \cup {None}, open : BOOLEAN]
Answers == {None, "ok", "failed", "notfound"}
TypeOK ==
    /\ event \in Version \cup {None} /\ created \in BOOLEAN
    /\ seats \in [Numbers -> Growers \cup {None}]
    /\ booked \in SUBSET Bookers
    /\ pc \in [Requests -> {"new", "update", "seat", "insert", "done"}]
    /\ answer \in [Requests -> Answers]
    /\ read \in [Editors -> Version \cup {None}]
    /\ asked \in [Growers -> SUBSET Numbers] /\ left \in [Growers -> SUBSET Numbers]
    /\ seat \in [Bookers -> Numbers \cup {None}]

(* No update is lost: the data an editor replaces are the data it has read,   *)
(* however many others read, wrote or deleted the event in between.           *)
UpdatesBuildOnWhatWasRead ==
    [][\A e \in Editors :
         Present /\ Present' /\ event'.by = e /\ event.by # e => event.by = read[e].by]_vars

(* An editor who has seen the event and is told that there is none has lost   *)
(* against another editor's update if it is there: ErrEventNotFound stands    *)
(* for the conflict, too, and for nothing else.                               *)
LosersHaveAWinner ==
    \A e \in Editors : answer[e] = "notfound" /\ read[e] # None /\ Present =>
        /\ event.version > read[e].version
        /\ event.by \in Editors \ {e}

(* Deleting the event takes nothing away from those who have booked, however  *)
(* it meets with bookings under way, and leaves no seat without an event.     *)
ReservationsKeepTheirEvent ==
    /\ \A b \in booked : Present /\ seats[seat[b]] # None
    /\ \A i \in Numbers : seats[i] # None => Present

Made(g) == {i \in Numbers : seats[i] = g}

(* A bulk request makes all of its seats or none, and says that it succeeded  *)
(* only if it has; there is no transaction around its batches, so this is due *)
(* to the handler not letting a request be longer than one.                   *)
BulkIsAllOrNothing ==
    \A g \in Growers : pc[g] = "done" /\ Present =>
        /\ Made(g) \in {{}, asked[g]}
        /\ answer[g] = "ok" => Made(g) = asked[g]
=============================================================================
