---------------------------- MODULE CatalogProofs ----------------------------
(***************************************************************************)
(* What TLC checks of Catalog on two requests of a kind, proved for any    *)
(* number of requests, seats and edits.                                    *)
(***************************************************************************)
EXTENDS Catalog, TLAPS

(* A version number names one version of the data, and the ones editors have  *)
(* read are not newer than the row.                                           *)
ReadsAreOld ==
    \A e \in Editors : pc[e] = "update" =>
        /\ created
        /\ read[e] \in Version
        /\ Present => /\ read[e].version <= event.version
                      /\ read[e].version = event.version => read[e].by = event.by

(* Bookers that have a row are done, those about to know their seat, and      *)
(* there is nothing before the event.                                         *)
BookedIsSettled ==
    /\ \A b \in Bookers : pc[b] = "insert" => seat[b] \in Numbers
    /\ \A b \in booked : pc[b] = "done" /\ seat[b] \in Numbers
    /\ Present => created

(* A grower asks for no more than a batch and has made nothing before it is   *)
(* done.                                                                      *)
OneBatch ==
    \A g \in Growers :
        /\ asked[g] \subseteq 1 .. MaxCount
        /\ pc[g] # "done" => Made(g) = {}
        /\ pc[g] = "insert" => left[g] = asked[g]
        /\ answer[g] = "ok" => created

(* A request is answered at its end, every version but the first is due to an  *)
(* editor that was not told "notfound", and who was after reading it has read *)
(* an older one.                                                              *)
EditsAreSettled ==
    /\ \A e \in Editors : answer[e] # None => pc[e] = "done"
    /\ \A e \in Editors : read[e] # None => created
    /\ Present /\ event.version > 0 =>
          event.by \in Editors /\ answer[event.by] \in {"ok", "failed"}
    /\ \A e \in Editors : answer[e] = "notfound" /\ read[e] # None /\ Present =>
          event.version > read[e].version

IInv ==
    /\ TypeOK /\ ReadsAreOld /\ BookedIsSettled /\ ReservationsKeepTheirEvent
    /\ OneBatch /\ BulkIsAllOrNothing /\ EditsAreSettled

-----------------------------------------------------------------------------
(* The initial state is as described.                                         *)
LEMMA InitIsFine == Init => IInv
<1>1. Init => TypeOK
  BY KindsAssumption, NoneAssumption DEF Init, TypeOK, Version, Answers, Requests
<1>2. Init => ReadsAreOld /\ BookedIsSettled /\ ReservationsKeepTheirEvent
  BY DEF Init, ReadsAreOld, BookedIsSettled, ReservationsKeepTheirEvent, Present, Requests
<1>3. Init => OneBatch /\ BulkIsAllOrNothing
  BY KindsAssumption, NoneAssumption DEF Init, OneBatch, BulkIsAllOrNothing, Made, Requests, Present
<1>4. Init => EditsAreSettled
  BY NoneAssumption DEF Init, EditsAreSettled, Present, Requests
<1> QED
  BY <1>1, <1>2, <1>3, <1>4 DEF IInv

(* Every step keeps the types.                                                *)
LEMMA StepKeepsTypes == TypeOK /\ [Next]_vars => TypeOK'
<1> SUFFICES ASSUME TypeOK, [Next]_vars PROVE TypeOK'
  OBVIOUS
<1> USE DEF TypeOK, Version, Answers, Requests, rows, work, Finish, Proceed
<1>1. CASE CreateEvent
  BY <1>1 DEF CreateEvent, Row
<1>2. CASE CloseBooking
  BY <1>2, KindsAssumption, NoneAssumption DEF CloseBooking, Present
<1>3. ASSUME NEW e \in Editors, ReadEvent(e) PROVE TypeOK'
  BY <1>3 DEF ReadEvent, Present
<1>4. ASSUME NEW e \in Editors, UpdateEvent(e) PROVE TypeOK'
  BY <1>4 DEF UpdateEvent, Present, Row
<1>5. ASSUME NEW e \in Editors, MissEvent(e) PROVE TypeOK'
  BY <1>5 DEF MissEvent
<1>6. ASSUME NEW d \in Deleters, DeleteEvent(d) PROVE TypeOK'
  BY <1>6 DEF DeleteEvent
<1>7. ASSUME NEW d \in Deleters, MissDelete(d) PROVE TypeOK'
  BY <1>7 DEF MissDelete
<1>8. ASSUME NEW g \in Growers, AskForSeats(g) PROVE TypeOK'
  <2>1. PICK n \in Counts, one \in BOOLEAN :
           /\ asked' = [asked EXCEPT ![g] = IF one THEN {n} ELSE 1 .. n]
           /\ left' = [left EXCEPT ![g] = asked'[g]]
    BY <1>8 DEF AskForSeats
  <2>2. {n} \in SUBSET Numbers /\ 1 .. n \in SUBSET Numbers
    BY CountAssumption DEF Counts, Numbers
  <2>3. asked' \in [Growers -> SUBSET Numbers] /\ left' \in [Growers -> SUBSET Numbers]
    BY <2>1, <2>2
  <2> QED
    BY <1>8, <2>3 DEF AskForSeats
<1>9. ASSUME NEW g \in Growers, MissSeats(g) PROVE TypeOK'
  BY <1>9 DEF MissSeats
<1>10. ASSUME NEW g \in Growers, InsertBatch(g) PROVE TypeOK'
  BY <1>10 DEF InsertBatch
<1>11. ASSUME NEW b \in Bookers, CheckEvent(b) PROVE TypeOK'
  BY <1>11 DEF CheckEvent
<1>12. ASSUME NEW b \in Bookers, FindSeat(b) PROVE TypeOK'
  BY <1>12 DEF FindSeat
<1>13. ASSUME NEW b \in Bookers, CommitBooking(b) PROVE TypeOK'
  BY <1>13 DEF CommitBooking
<1>14. ASSUME NEW q \in Requests, Fail(q) PROVE TypeOK'
  BY <1>14 DEF Fail
<1>15. CASE UNCHANGED vars
  BY <1>15 DEF vars
<1> QED
  BY <1>1, <1>2, <1>3, <1>4, <1>5, <1>6, <1>7, <1>8, <1>9, <1>10, <1>11, <1>12, <1>13, <1>14,
     <1>15 DEF Next

(* Every step keeps what editors have read in order: only an update makes a   *)
(* new version, with a number nobody has read.                                *)
LEMMA StepKeepsReads == TypeOK /\ ReadsAreOld /\ BookedIsSettled /\ [Next]_vars => ReadsAreOld'
<1> SUFFICES ASSUME TypeOK, ReadsAreOld, BookedIsSettled, [Next]_vars PROVE ReadsAreOld'
  OBVIOUS
<1> USE DEF ReadsAreOld, Present
<1>0. pc \in [Requests -> {"new", "update", "seat", "insert", "done"}]
      /\ event \in Version \cup {None} /\ Editors \subseteq Requests
  BY DEF TypeOK, Requests
<1>1. CASE CreateEvent
  BY <1>1 DEF CreateEvent
<1>2. CASE CloseBooking
  <2>1. event' \in Version /\ event'.version = event.version /\ event'.by = event.by /\ event \in Version
    BY <1>0, <1>2 DEF CloseBooking, Version
  <2> QED
    BY <1>2, <2>1 DEF CloseBooking, work
<1>3. ASSUME NEW e \in Editors, ReadEvent(e) PROVE ReadsAreOld'
  <2>1. CASE ~Present
    BY <1>0, <1>3, <2>1 DEF ReadEvent, Finish, rows
  <2>2. CASE Present
    <3>1. read' = [read EXCEPT ![e] = event] /\ pc' = [pc EXCEPT ![e] = "update"]
          /\ UNCHANGED <<event, created>>
      BY <1>3, <2>2 DEF ReadEvent, Proceed, rows
    <3>2. created /\ event \in Version /\ event.version \in Nat
      BY <1>0, <2>2 DEF BookedIsSettled, Version
    <3>3. read \in [Editors -> Version \cup {None}]
      BY DEF TypeOK
    <3>4. ASSUME NEW x \in Editors, pc'[x] = "update"
          PROVE /\ created' /\ read'[x] \in Version
                /\ read'[x].version <= event'.version
                /\ read'[x].version = event'.version => read'[x].by = event'.by
      <4>1. CASE x = e
        BY <3>1, <3>2, <3>3, <4>1
      <4>2. CASE x # e
        BY <1>0, <2>2, <3>1, <3>3, <3>4, <4>2
      <4> QED BY <4>1, <4>2
    <3> QED
      BY <3>4
  <2> QED BY <2>1, <2>2
<1>4. ASSUME NEW e \in Editors, UpdateEvent(e) PROVE ReadsAreOld'
  <2>1. event \in Version /\ event.version \in Nat /\ event'.version = event.version + 1
    BY <1>0, <1>4 DEF UpdateEvent, Version, Row
  <2>2. \A x \in Editors : read[x] \in Version => read[x].version \in Nat
    BY DEF Version
  <2>3. \A x \in Editors : pc'[x] = "update" => pc[x] = "update" /\ x # e
    BY <1>0, <1>4 DEF UpdateEvent, Finish
  <2>4. UNCHANGED <<created, read>> /\ event # None
    BY <1>4 DEF UpdateEvent, work
  <2> QED
    BY <2>1, <2>2, <2>3, <2>4
<1>5. ASSUME NEW q \in Requests, pc'[q] # "update", \A x \in Requests : x # q => pc'[x] = pc[x],
             UNCHANGED <<created, read>>, event' = event \/ event' = None
      PROVE  ReadsAreOld'
  BY <1>0, <1>5
<1>6. \A q \in Requests : Fail(q) => ReadsAreOld'
  BY <1>0, <1>5 DEF Fail, Finish, rows, work
<1>7. ASSUME NEW q \in Editors, MissEvent(q) PROVE ReadsAreOld'
  BY <1>0, <1>5, <1>7 DEF MissEvent, Finish, rows, work
<1>8. ASSUME NEW q \in Deleters, DeleteEvent(q) \/ MissDelete(q) PROVE ReadsAreOld'
  BY <1>0, <1>5, <1>8 DEF DeleteEvent, MissDelete, Finish, rows, work, Requests
<1>9. ASSUME NEW q \in Growers, AskForSeats(q) \/ MissSeats(q) \/ InsertBatch(q) PROVE ReadsAreOld'
  BY <1>0, <1>5, <1>9 DEF AskForSeats, MissSeats, InsertBatch, Finish, Proceed, rows, work, Requests
<1>10. ASSUME NEW q \in Bookers, CheckEvent(q) \/ FindSeat(q) \/ CommitBooking(q) PROVE ReadsAreOld'
  BY <1>0, <1>5, <1>10 DEF CheckEvent, FindSeat, CommitBooking, Finish, Proceed, rows, work, Requests
<1>11. CASE UNCHANGED vars
  BY <1>11 DEF vars, rows, work
<1> QED
  BY <1>1, <1>2, <1>3, <1>4, <1>6, <1>7, <1>8, <1>9, <1>10, <1>11 DEF Next

(* Every step keeps bookings and what they refer to: the event is deleted     *)
(* only without bookings, and bookings are made only on what is there.        *)
LEMMA StepKeepsBookings ==
    TypeOK /\ BookedIsSettled /\ ReservationsKeepTheirEvent /\ [Next]_vars
    => BookedIsSettled' /\ ReservationsKeepTheirEvent'
<1> SUFFICES ASSUME TypeOK, BookedIsSettled, ReservationsKeepTheirEvent, [Next]_vars
             PROVE  BookedIsSettled' /\ ReservationsKeepTheirEvent'
  OBVIOUS
<1> USE DEF BookedIsSettled, ReservationsKeepTheirEvent, Present
<1>0. /\ pc \in [Requests -> {"new", "update", "seat", "insert", "done"}]
      /\ booked \subseteq Requests /\ booked \subseteq Bookers /\ Bookers \subseteq Requests
      /\ seats \in [Numbers -> Growers \cup {None}]
      /\ seat \in [Bookers -> Numbers \cup {None}]
  BY DEF TypeOK, Requests
<1>1. CASE CreateEvent
  BY <1>1, KindsAssumption, NoneAssumption DEF CreateEvent, Row, Version, Requests, work
<1>2. CASE CloseBooking
  <2>1. event' # None
    <3>1. event \in Version
      BY <1>2 DEF CloseBooking, TypeOK
    <3>2. event' \in Version
      BY <1>2, <3>1 DEF CloseBooking, Version
    <3> QED
      BY <3>2, KindsAssumption, NoneAssumption DEF Version, Requests
  <2> QED
    BY <1>2, <2>1 DEF CloseBooking, work
<1>3. ASSUME NEW e \in Editors, UpdateEvent(e)
      PROVE  BookedIsSettled' /\ ReservationsKeepTheirEvent'
  <2>1. event' # None
    <3>1. event \in Version
      BY <1>3 DEF UpdateEvent, TypeOK
    <3>2. event' \in Version
      BY <1>3, <3>1 DEF UpdateEvent, Version, Row
    <3> QED
      BY <3>2, KindsAssumption, NoneAssumption DEF Version, Requests
  <2> QED
    BY <1>0, <1>3, <2>1 DEF UpdateEvent, Finish, work, Requests
<1>4. ASSUME NEW e \in Editors, ReadEvent(e) \/ MissEvent(e)
      PROVE  BookedIsSettled' /\ ReservationsKeepTheirEvent'
  BY <1>0, <1>4 DEF ReadEvent, MissEvent, Finish, Proceed, rows, work, Requests
<1>5. ASSUME NEW d \in Deleters, DeleteEvent(d) \/ MissDelete(d)
      PROVE  BookedIsSettled' /\ ReservationsKeepTheirEvent'
  BY <1>0, <1>5 DEF DeleteEvent, MissDelete, Finish, rows, work, Requests
<1>6. ASSUME NEW g \in Growers, AskForSeats(g) \/ MissSeats(g)
      PROVE  BookedIsSettled' /\ ReservationsKeepTheirEvent'
  <2>1. UNCHANGED rows /\ seat' = seat
    BY <1>6 DEF AskForSeats, MissSeats, work
  <2>2. \A b \in Bookers : pc'[b] = pc[b]
    BY <1>0, <1>6, KindsAssumption, NoneAssumption DEF AskForSeats, MissSeats, Finish, Proceed, Requests
  <2> QED
    BY <1>0, <2>1, <2>2 DEF rows
<1>7. ASSUME NEW g \in Growers, InsertBatch(g)
      PROVE  BookedIsSettled' /\ ReservationsKeepTheirEvent'
  <2>1. UNCHANGED <<event, created, booked, seat>> /\ event # None
    BY <1>7 DEF InsertBatch
  <2>2. \A i \in Numbers : seats[i] # None => seats'[i] # None
    BY <1>0, <1>7, KindsAssumption, NoneAssumption DEF InsertBatch, Requests
  <2>3. \A b \in Bookers : pc'[b] = pc[b]
    BY <1>0, <1>7, KindsAssumption, NoneAssumption DEF InsertBatch, Finish, Proceed, Requests
  <2> QED
    BY <1>0, <2>1, <2>2, <2>3
<1>8. ASSUME NEW b \in Bookers, CheckEvent(b) \/ FindSeat(b)
      PROVE  BookedIsSettled' /\ ReservationsKeepTheirEvent'
  <2>1. UNCHANGED rows /\ \A x \in booked : x # b
    BY <1>0, <1>8 DEF CheckEvent, FindSeat
  <2>2. \A x \in Bookers \ {b} : pc'[x] = pc[x] /\ seat'[x] = seat[x]
    BY <1>0, <1>8, <2>1 DEF CheckEvent, FindSeat, Proceed, work, TypeOK
  <2>3. pc'[b] = "insert" => seat'[b] \in Numbers
    BY <1>0, <1>8 DEF CheckEvent, FindSeat, Proceed
  <2> QED
    BY <1>0, <2>1, <2>2, <2>3 DEF rows
<1>9. ASSUME NEW b \in Bookers, CommitBooking(b)
      PROVE  BookedIsSettled' /\ ReservationsKeepTheirEvent'
  <2>1. UNCHANGED <<event, created, seats, seat>> /\ event # None /\ booked' = booked \cup {b}
    BY <1>9 DEF CommitBooking, work
  <2>2. seat[b] \in Numbers /\ seats[seat[b]] # None
    BY <1>9 DEF CommitBooking
  <2>4. \A x \in Bookers : pc'[x] = "insert" => pc[x] = "insert"
    BY <1>0, <1>9 DEF Finish, CommitBooking
  <2>3. \A x \in booked' : pc'[x] = "done"
    BY <1>0, <1>9, <2>1 DEF Finish, CommitBooking, Requests
  <2> QED
    BY <1>0, <2>1, <2>2, <2>3, <2>4
<1>10. ASSUME NEW q \in Requests, Fail(q)
       PROVE  BookedIsSettled' /\ ReservationsKeepTheirEvent'
  BY <1>0, <1>10 DEF Fail, Finish, rows, work
<1>11. CASE UNCHANGED vars
  BY <1>11 DEF vars, rows, work
<1> QED
  BY <1>1, <1>2, <1>3, <1>4, <1>5, <1>6, <1>7, <1>8, <1>9, <1>10, <1>11 DEF Next

(* Every step keeps bulk insertion whole: what a grower asks for fits in its  *)
(* first batch.                                                               *)
LEMMA StepKeepsBatches ==
    /\ TypeOK /\ OneBatch /\ BulkIsAllOrNothing /\ BookedIsSettled
    /\ ReservationsKeepTheirEvent /\ [Next]_vars
    => OneBatch' /\ BulkIsAllOrNothing'
<1> SUFFICES ASSUME TypeOK, OneBatch, BulkIsAllOrNothing, BookedIsSettled,
                    ReservationsKeepTheirEvent, [Next]_vars
             PROVE  OneBatch' /\ BulkIsAllOrNothing'
  OBVIOUS
<1> USE DEF OneBatch, BulkIsAllOrNothing, Present
<1>0. /\ pc \in [Requests -> {"new", "update", "seat", "insert", "done"}]
      /\ answer \in [Requests -> Answers]
      /\ asked \in [Growers -> SUBSET Numbers] /\ left \in [Growers -> SUBSET Numbers]
      /\ seats \in [Numbers -> Growers \cup {None}]
      /\ Growers \subseteq Requests /\ None \notin Growers
  BY KindsAssumption, NoneAssumption DEF TypeOK, Requests
(* Others do not touch what a grower has made. *)
<1>1. ASSUME UNCHANGED <<seats, asked, left>>, created => created',
             \A g \in Growers : pc'[g] = pc[g] /\ answer'[g] = answer[g],
             event' # None => event # None
      PROVE  OneBatch' /\ BulkIsAllOrNothing'
  BY <1>0, <1>1 DEF Made
<1>2. CASE CreateEvent
  <2>1. \A g \in Growers : Made(g) = {} /\ answer[g] # "ok"
    BY <1>0, <1>2 DEF CreateEvent, Made, BookedIsSettled, ReservationsKeepTheirEvent
  <2> QED
    BY <1>2, <2>1 DEF CreateEvent, Made, work
<1>3. CASE CloseBooking
  BY <1>1, <1>3 DEF CloseBooking, work
<1>4. ASSUME NEW e \in Editors, ReadEvent(e) \/ UpdateEvent(e) \/ MissEvent(e)
      PROVE  OneBatch' /\ BulkIsAllOrNothing'
  <2>1. e \in Requests /\ e \notin Growers
    BY KindsAssumption, NoneAssumption DEF Requests
  <2> QED
    BY <1>0, <1>1, <1>4, <2>1 DEF ReadEvent, UpdateEvent, MissEvent, Finish, Proceed, rows, work
<1>5. ASSUME NEW b \in Bookers, CheckEvent(b) \/ FindSeat(b) \/ CommitBooking(b)
      PROVE  OneBatch' /\ BulkIsAllOrNothing'
  <2>1. b \in Requests /\ b \notin Growers
    BY KindsAssumption, NoneAssumption DEF Requests
  <2> QED
    BY <1>0, <1>1, <1>5, <2>1 DEF CheckEvent, FindSeat, CommitBooking, Finish, Proceed, rows, work
<1>6. ASSUME NEW d \in Deleters, DeleteEvent(d)
      PROVE  OneBatch' /\ BulkIsAllOrNothing'
  <2>1. d \in Requests /\ d \notin Growers
    BY KindsAssumption, NoneAssumption DEF Requests
  <2>2. \A g \in Growers : pc'[g] = pc[g] /\ answer'[g] = answer[g]
    BY <1>0, <1>6, <2>1 DEF DeleteEvent, Finish
  <2>3. \A g \in Growers : Made(g)' = {}
    BY <1>0, <1>6 DEF DeleteEvent, Made
  <2> QED
    BY <1>6, <2>2, <2>3 DEF DeleteEvent, work
<1>7. ASSUME NEW d \in Deleters, MissDelete(d)
      PROVE  OneBatch' /\ BulkIsAllOrNothing'
  <2>1. d \in Requests /\ d \notin Growers
    BY KindsAssumption, NoneAssumption DEF Requests
  <2> QED
    BY <1>0, <1>1, <1>7, <2>1 DEF MissDelete, Finish, rows, work
<1>8. ASSUME NEW g \in Growers, AskForSeats(g)
      PROVE  OneBatch' /\ BulkIsAllOrNothing'
  <2>1. PICK n \in Counts, one \in BOOLEAN :
           /\ asked' = [asked EXCEPT ![g] = IF one THEN {n} ELSE 1 .. n]
           /\ left' = [left EXCEPT ![g] = asked'[g]]
    BY <1>8 DEF AskForSeats
  <2>2. {n} \subseteq 1 .. MaxCount /\ 1 .. n \subseteq 1 .. MaxCount
    BY CountAssumption DEF Counts
  <2>3. asked'[g] \subseteq 1 .. MaxCount /\ left'[g] = asked'[g]
    BY <1>0, <2>1, <2>2
  <2>4. \A x \in Growers \ {g} : asked'[x] = asked[x] /\ left'[x] = left[x] /\ pc'[x] = pc[x]
    BY <1>0, <1>8, <2>1 DEF AskForSeats, Proceed
  <2>5. UNCHANGED <<event, created, seats, answer>> /\ pc[g] = "new" /\ pc'[g] = "insert"
    BY <1>0, <1>8 DEF AskForSeats, Proceed, rows
  <2> QED
    BY <1>0, <2>3, <2>4, <2>5 DEF Made
<1>9. ASSUME NEW g \in Growers, InsertBatch(g)
      PROVE  OneBatch' /\ BulkIsAllOrNothing'
  <2>1. left[g] = asked[g] /\ asked[g] \subseteq 1 .. MaxCount /\ Made(g) = {}
    BY <1>9 DEF InsertBatch
  <2>2. Batch(g) = asked[g]
    BY <2>1, CountAssumption DEF Batch
  <2>3. left'[g] = {}
    BY <1>0, <1>9, <2>1, <2>2 DEF InsertBatch
  <2>4. pc'[g] = "done" /\ answer'[g] \in {"ok", "failed"}
    BY <1>0, <1>9, <2>3 DEF InsertBatch, Finish
  <2>5. Made(g)' = asked[g]
    BY <1>0, <1>9, <2>1, <2>2 DEF InsertBatch, Made
  <2>6. ASSUME NEW x \in Growers \ {g}
        PROVE  /\ Made(x)' = Made(x) /\ left'[x] = left[x]
               /\ pc'[x] = pc[x] /\ answer'[x] = answer[x]
    <3>1. pc'[x] = pc[x] /\ answer'[x] = answer[x]
      BY <1>0, <1>9 DEF InsertBatch, Finish, Proceed
    <3>2. Made(x)' = Made(x)
      BY <1>0, <1>9, <2>2 DEF InsertBatch, Made
    <3> QED
      BY <1>0, <1>9, <3>1, <3>2 DEF InsertBatch
  <2>7. UNCHANGED <<event, created, asked>> /\ event # None
    BY <1>9 DEF InsertBatch
  <2>8. created
    BY <2>7 DEF BookedIsSettled
  <2> QED
    BY <1>0, <2>1, <2>3, <2>4, <2>5, <2>6, <2>7, <2>8
<1>10. ASSUME NEW q \in Requests, UNCHANGED <<event, created, seats, asked, left>>,
              pc' = [pc EXCEPT ![q] = "done"], pc[q] # "done",
              \E a \in {"failed", "notfound"} : answer' = [answer EXCEPT ![q] = a]
       PROVE  OneBatch' /\ BulkIsAllOrNothing'
  BY <1>0, <1>10 DEF Made
<1>11. ASSUME NEW g \in Growers, MissSeats(g)
       PROVE  OneBatch' /\ BulkIsAllOrNothing'
  BY <1>0, <1>10, <1>11 DEF MissSeats, Finish, rows, work
<1>12. ASSUME NEW q \in Requests, Fail(q)
       PROVE  OneBatch' /\ BulkIsAllOrNothing'
  BY <1>10, <1>12 DEF Fail, Finish, rows, work
<1>13. CASE UNCHANGED vars
  BY <1>13 DEF vars, rows, work, Made
<1> QED
  BY <1>2, <1>3, <1>4, <1>5, <1>6, <1>7, <1>8, <1>9, <1>11, <1>12, <1>13 DEF Next

(* Every step keeps what editors were told in line with the row: an update     *)
(* leaves older versions behind, a miss has met a newer one or none.          *)
LEMMA StepKeepsEdits ==
    TypeOK /\ ReadsAreOld /\ BookedIsSettled /\ EditsAreSettled /\ [Next]_vars => EditsAreSettled'
<1> SUFFICES ASSUME TypeOK, ReadsAreOld, BookedIsSettled, EditsAreSettled, [Next]_vars
             PROVE  EditsAreSettled'
  OBVIOUS
<1> USE DEF EditsAreSettled, Present
<1>0. /\ pc \in [Requests -> {"new", "update", "seat", "insert", "done"}]
      /\ answer \in [Requests -> Answers] /\ read \in [Editors -> Version \cup {None}]
      /\ event \in Version \cup {None} /\ Editors \subseteq Requests
      /\ None \notin Version /\ None \notin {"ok", "failed", "notfound"}
  BY KindsAssumption, NoneAssumption DEF TypeOK, Requests, Version
<1>1. CASE CreateEvent
  BY <1>1 DEF CreateEvent, Row, work
<1>2. CASE CloseBooking
  <2>1. event \in Version /\ event'.version = event.version /\ event'.by = event.by
    BY <1>0, <1>2 DEF CloseBooking, Version
  <2> QED
    BY <1>2, <2>1 DEF CloseBooking, work
<1>3. ASSUME NEW e \in Editors, ReadEvent(e) PROVE EditsAreSettled'
  <2>1. UNCHANGED <<event, created>> /\ pc[e] = "new" /\ answer[e] = None
    BY <1>0, <1>3 DEF ReadEvent, rows
  <2>2. CASE Present
    <3>1. read' = [read EXCEPT ![e] = event] /\ pc' = [pc EXCEPT ![e] = "update"]
          /\ answer' = answer
      BY <1>3, <2>2 DEF ReadEvent, Proceed
    <3> QED
      BY <1>0, <2>1, <2>2, <3>1 DEF BookedIsSettled
  <2>3. CASE ~Present
    <3>1. read' = read /\ pc' = [pc EXCEPT ![e] = "done"]
          /\ answer' = [answer EXCEPT ![e] = "notfound"]
      BY <1>3, <2>3 DEF ReadEvent, Finish
    <3> QED
      BY <1>0, <2>1, <2>3, <3>1
  <2> QED BY <2>2, <2>3
<1>4. ASSUME NEW e \in Editors, UpdateEvent(e) PROVE EditsAreSettled'
  <2>1. event \in Version /\ event.version \in Nat
    BY <1>0, <1>4 DEF UpdateEvent, Version
  <2>2. PICK o \in BOOLEAN : event' = Row(event.version + 1, e, o)
    BY <1>4 DEF UpdateEvent
  <2>3. event'.version = event.version + 1 /\ event'.by = e
    BY <2>2 DEF Row
  <2>4. PICK a \in {"ok", "failed"} :
           pc' = [pc EXCEPT ![e] = "done"] /\ answer' = [answer EXCEPT ![e] = a]
    BY <1>4 DEF UpdateEvent, Finish
  <2>5. UNCHANGED <<created, read>> /\ event # None
    BY <1>4 DEF UpdateEvent, work
  <2>6. \A x \in Editors : read[x] # None => read[x].version \in Nat
    BY <1>0 DEF Version
  <2>7. ASSUME NEW x \in Editors, answer'[x] = "notfound", read'[x] # None
        PROVE  event'.version > read'[x].version
    BY <1>0, <2>1, <2>3, <2>4, <2>5, <2>6, <2>7
  <2> QED
    BY <1>0, <2>3, <2>4, <2>5, <2>7
<1>5. ASSUME NEW e \in Editors, MissEvent(e) PROVE EditsAreSettled'
  <2>1. UNCHANGED <<event, created, read>> /\ pc[e] = "update" /\ answer[e] = None
        /\ pc' = [pc EXCEPT ![e] = "done"] /\ answer' = [answer EXCEPT ![e] = "notfound"]
    BY <1>0, <1>5 DEF MissEvent, Finish, rows, work
  <2>2. Present => event.version > read[e].version
    <3>1. Present => event.version \in Nat /\ read[e].version \in Nat
                     /\ read[e].version <= event.version
      BY <1>0, <2>1 DEF ReadsAreOld, Version
    <3> QED
      BY <1>5, <3>1 DEF MissEvent
  <2> QED
    BY <1>0, <2>1, <2>2
<1>6. ASSUME NEW q \in Requests, Fail(q) PROVE EditsAreSettled'
  BY <1>0, <1>6 DEF Fail, Finish, rows, work
(* The others leave the editors alone. *)
<1>7. ASSUME event' = event \/ event' = None, UNCHANGED <<created, read>>,
             \A e \in Editors : pc'[e] = pc[e] /\ answer'[e] = answer[e]
      PROVE  EditsAreSettled'
  BY <1>0, <1>7
<1>8. ASSUME NEW d \in Deleters, DeleteEvent(d) \/ MissDelete(d) PROVE EditsAreSettled'
  <2>1. d \notin Editors
    BY KindsAssumption
  <2> QED
    BY <1>0, <1>7, <1>8, <2>1 DEF DeleteEvent, MissDelete, Finish, rows, work
<1>9. ASSUME NEW g \in Growers, AskForSeats(g) \/ MissSeats(g) \/ InsertBatch(g)
      PROVE  EditsAreSettled'
  <2>1. g \notin Editors
    BY KindsAssumption
  <2> QED
    BY <1>0, <1>7, <1>9, <2>1
       DEF AskForSeats, MissSeats, InsertBatch, Finish, Proceed, rows, work
<1>10. ASSUME NEW b \in Bookers, CheckEvent(b) \/ FindSeat(b) \/ CommitBooking(b)
       PROVE  EditsAreSettled'
  <2>1. b \notin Editors
    BY KindsAssumption
  <2> QED
    BY <1>0, <1>7, <1>10, <2>1
       DEF CheckEvent, FindSeat, CommitBooking, Finish, Proceed, rows, work
<1>11. CASE UNCHANGED vars
  BY <1>11 DEF vars, rows, work
<1> QED
  BY <1>1, <1>2, <1>3, <1>4, <1>5, <1>6, <1>8, <1>9, <1>10, <1>11 DEF Next

-----------------------------------------------------------------------------
(* All of it holds forever.                                                   *)
LEMMA IInvHolds == Spec => []IInv
<1>1. IInv /\ [Next]_vars => IInv'
  BY StepKeepsTypes, StepKeepsReads, StepKeepsBookings, StepKeepsBatches,
     StepKeepsEdits DEF IInv
<1> QED
  BY <1>1, InitIsFine, PTL DEF Spec

(* The variables of the catalog keep their types (all of Catalog's actions).  *)
THEOREM CatalogTypeCorrect == Spec => []TypeOK
BY IInvHolds, PTL DEF IInv

(* Event deletion (EventRepository.Delete) never takes the event or a seat    *)
(* from a reservation, nor leaves seats without an event.                     *)
THEOREM BookingsKeepTheirEvent == Spec => []ReservationsKeepTheirEvent
BY IInvHolds, PTL DEF IInv

(* CreateBulkSeats makes all seats asked for or none.                         *)
THEOREM BulkIsWhole == Spec => []BulkIsAllOrNothing
BY IInvHolds, PTL DEF IInv

(* ErrEventNotFound of EventRepository.Update means that there is no event, or *)
(* that another editor's update came first.                                   *)
THEOREM LosersAlwaysHaveAWinner == Spec => []LosersHaveAWinner
<1>1. IInv => LosersHaveAWinner
  <2> SUFFICES ASSUME IInv, NEW e \in Editors, answer[e] = "notfound", read[e] # None, Present
               PROVE  event.version > read[e].version /\ event.by \in Editors \ {e}
    BY DEF LosersHaveAWinner
  <2>1. event.version > read[e].version
    BY DEF IInv, EditsAreSettled
  <2>2. event.version \in Nat /\ read[e].version \in Nat
    BY DEF IInv, TypeOK, Version, Present
  <2>3. event.by \in Editors /\ answer[event.by] \in {"ok", "failed"}
    BY <2>1, <2>2 DEF IInv, EditsAreSettled
  <2> QED
    BY <2>1, <2>3
<1> QED
  BY <1>1, IInvHolds, PTL

(* The version check of EventRepository.Update loses no update.               *)
THEOREM NoUpdateIsLost == Spec => UpdatesBuildOnWhatWasRead
<1>1. ASSUME IInv, Next, NEW e \in Editors, Present, Present', event'.by = e, event.by # e
      PROVE  event.by = read[e].by
  <2>0. event \in Version
    BY <1>1 DEF IInv, TypeOK, Present
  <2>1. CASE event' = event
    BY <1>1, <2>1
  <2>2. CASE CloseBooking
    BY <1>1, <2>0, <2>2 DEF CloseBooking, Version
  <2>3. ASSUME NEW x \in Editors, UpdateEvent(x)
        PROVE  event.by = read[e].by
    <3>1. x = e
      BY <1>1, <2>3 DEF UpdateEvent, Row
    <3> QED
      BY <1>1, <2>3, <3>1 DEF UpdateEvent, IInv, ReadsAreOld
  <2>4. CASE CreateEvent
    BY <1>1, <2>4 DEF CreateEvent, IInv, BookedIsSettled
  <2>5. CASE \E d \in Deleters : DeleteEvent(d)
    BY <1>1, <2>5 DEF DeleteEvent, Present
  <2> QED
    BY <1>1, <2>1, <2>2, <2>3, <2>4, <2>5
       DEF Next, ReadEvent, MissEvent, MissDelete, AskForSeats, MissSeats, InsertBatch, CheckEvent,
           FindSeat, CommitBooking, Fail, rows
<1>2. IInv /\ [Next]_vars =>
        [\A e \in Editors :
           Present /\ Present' /\ event'.by = e /\ event.by # e => event.by = read[e].by]_vars
  BY <1>1
<1> QED
  BY <1>2, IInvHolds, PTL DEF Spec, UpdatesBuildOnWhatWasRead
=============================================================================
