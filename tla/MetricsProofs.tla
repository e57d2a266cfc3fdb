---------------------------- MODULE MetricsProofs ----------------------------
(* Proofs about Metrics, for any numbers of requests, cleaners, viewers,     *)
(* seats and keys.                                                           *)
EXTENDS Metrics, ReservationProofs

(* Every reported step is a step of the service. *)
LEMMA ReportedStep == MeteredNext => Next
  <1> SUFFICES ASSUME MeteredNext PROVE Next
    OBVIOUS
  <1> USE DEF Next, CreateProgress, ManageProgress, CleanerProgress
  <1>1. CASE \E c \in Creates : \/ Receive(c) \/ Contend(c) \/ Refuse(c) \/ Book(c)
                                \/ CountBooking(c) \/ Return(c)
    BY <1>1 DEF Receive, Contend, Refuse, Book, CountBooking, Return
  <1>2. CASE \E m \in Manages : Find(m) \/ Change(m) \/ CountChange(m) \/ Fail(m)
    BY <1>2 DEF Find, Change, CountChange, Fail
  <1>3. CASE \E q \in Requests : Die(q) \/ Error(q) \/ Panic(q) \/ CutOff(q)
    BY <1>3 DEF Die, Error, Panic, CutOff
  <1>4. CASE \E w \in Cleaners, r \in Creates : Clean(w, r)
    BY <1>4 DEF Clean
  <1>5. CASE Unreported
    BY <1>5 DEF Unreported
  <1>6. QED
    BY <1>1, <1>2, <1>3, <1>4, <1>5 DEF MeteredNext

(* Counting and answering neither adds behaviour to the service nor changes    *)
(* it: what is proved of the service holds of the one that is measured.        *)
THEOREM ReportingIsPassive == MeteredSpec => Spec
  <1>1. MeteredInit => Init
    BY DEF MeteredInit
  <1>2. [MeteredNext]_<<vars, figures>> => [Next]_vars
    BY ReportedStep
  <1>3. QED
    BY <1>1, <1>2, PTL DEF MeteredSpec, Spec

-----------------------------------------------------------------------------
(* What a step that reports nothing may do to the requests and the rows. *)
Quiet ==
    /\ UNCHANGED <<status, op, target>>
    /\ \A m \in Manages : pc'[m] = pc[m]
    /\ \A c \in Creates :
        \/ pc'[c] = pc[c] /\ answer'[c] = answer[c]
        \/ /\ pc[c] \in {"lock", "check"} /\ pc'[c] \in {"check", "insert"}
           /\ answer'[c] = answer[c]
        \/ /\ pc[c] \in {"insert", "committed"} /\ pc'[c] = "unlock"
           /\ answer'[c] = Failed
    /\ \A m \in Manages : answer'[m] = answer[m]

LEMMA QuietStep == TypeOK /\ Unreported => Quiet
  <1> SUFFICES ASSUME TypeOK, Unreported PROVE Quiet
    OBVIOUS
  <1> USE RequestAssumption
      DEF TypeOK, Quiet, Requests, database, creating, managing, Goto, Reply
  <1>1. CASE \E c \in Creates : AcquireLock(c) \/ CheckSeats(c) \/ RollbackCreate(c)
    BY <1>1 DEF AcquireLock, CheckSeats, RollbackCreate
  <1>2. CASE \E c \in Creates : MisreportCreate(c) \/ Expire(c)
    BY <1>2 DEF MisreportCreate, Expire
  <1>3. CASE \E w \in Cleaners : \/ ListExpired(w) \/ StopCleaner(w)
                                 \/ \E r \in Creates : SkipListed(w, r)
    BY <1>3 DEF ListExpired, StopCleaner, SkipListed
  <1>4. CASE \E v \in Viewers : CountSeats(v) \/ StoreCount(v)
    BY <1>4 DEF CountSeats, StoreCount
  <1>5. CASE \E S \in SUBSET Late : AddSeats(S)
    BY <1>5 DEF AddSeats, InsertSeats, creating
  <1>6. CASE TimeoutCache \/ \E S \in Wanted : TimeoutLock(S)
    BY <1>6 DEF TimeoutCache, TimeoutLock
  <1>7. QED
    BY <1>1, <1>2, <1>3, <1>4, <1>5, <1>6 DEF Unreported

(* How the commits and the counting follow the requests and the rows. *)
Stages ==
    /\ wrote \subseteq Requests /\ metered \subseteq wrote /\ cleaned \subseteq Creates
    /\ \A q \in Requests :
        /\ pc[q] = "committed" => q \in wrote
        /\ q \in wrote => pc[q] \in {"committed", "unlock", "done"}
        /\ q \in metered => pc[q] # "committed"
        /\ pc[q] \in {"lock", "check"} => q \in Creates
    /\ \A c \in Creates : Exists(c) <=> c \in wrote
    /\ \A r \in Creates :
        /\ status[r] = "cancelled" =>
              r \in cleaned \/ \E m \in wrote \cap Manages : target[m] = r
        /\ status[r] = "confirmed" =>
              \E m \in wrote \cap Manages : op[m] = "confirm" /\ target[m] = r

LEMMA StagesInit == MeteredInit => Stages
  BY DEF MeteredInit, Init, TablesInit, Stages, Exists

LEMMA StagesStep ==
  TypeOK /\ RequestsMatchRows /\ Stages /\ [MeteredNext]_<<vars, figures>> => Stages'
  <1> SUFFICES ASSUME TypeOK, RequestsMatchRows, Stages, [MeteredNext]_<<vars, figures>>
               PROVE  Stages'
    OBVIOUS
  <1> USE RequestAssumption, NullAssumption
      DEF TypeOK, Stages, Exists, Requests, database, creating, managing, Goto, Reply
  <1>1. ASSUME NEW c \in Creates, Receive(c) PROVE Stages'
    BY <1>1 DEF Receive, LookupKey
  <1>2. ASSUME NEW c \in Creates, Contend(c) PROVE Stages'
    BY <1>2 DEF Contend, MissLock
  <1>3. ASSUME NEW c \in Creates, Refuse(c) PROVE Stages'
    BY <1>3 DEF Refuse, RefuseCreate
  <1>4. ASSUME NEW c \in Creates, Book(c) PROVE Stages'
    BY <1>4 DEF Book, CommitCreate, CreateTx, InsertReservation
  <1>5. ASSUME NEW c \in Creates, CountBooking(c) PROVE Stages'
    BY <1>5 DEF CountBooking, FinishCreate, Meter
  <1>6. ASSUME NEW c \in Creates, Return(c) PROVE Stages'
    BY <1>6 DEF Return, ReleaseLock
  <1>7. ASSUME NEW m \in Manages, Find(m) PROVE Stages'
    BY <1>7 DEF Find, LoadForConfirm, LoadForCancel, Load
  <1>8. ASSUME NEW m \in Manages, Change(m) PROVE Stages'
    BY <1>8 DEF Change, CommitConfirm, CommitCancel, ConfirmTx, CancelTx, UpdateReservation,
                RequestsMatchRows
  <1>9. ASSUME NEW m \in Manages, CountChange(m) PROVE Stages'
    BY <1>9 DEF CountChange, FinishManage, Meter
  <1>10. ASSUME NEW m \in Manages, Fail(m) PROVE Stages'
    BY <1>10 DEF Fail, RollbackManage
  <1>11. ASSUME NEW q \in Requests, Die(q) \/ Error(q) PROVE Stages'
    BY <1>11 DEF Die, Error, Abandon, figures
  <1>12. ASSUME NEW q \in Requests, CutOff(q) PROVE Stages'
    BY <1>12 DEF CutOff, Abandon, Meter
  <1>13. ASSUME NEW q \in Requests, Panic(q) PROVE Stages'
    BY <1>13 DEF Panic, Abandon, Meter
  <1>14. ASSUME NEW w \in Cleaners, NEW r \in Creates, Clean(w, r) PROVE Stages'
    BY <1>14 DEF Clean, CancelListed, CancelTx, UpdateReservation, RequestsMatchRows
  <1>15. ASSUME Unreported, UNCHANGED figures PROVE Stages'
    BY <1>15, QuietStep DEF Quiet, figures
  <1>16. CASE UNCHANGED <<vars, figures>>
    BY <1>16 DEF vars, figures
  <1>17. QED
    BY <1>1, <1>2, <1>3, <1>4, <1>5, <1>6, <1>7, <1>8, <1>9, <1>10, <1>11, <1>12, <1>13,
       <1>14, <1>15, <1>16 DEF MeteredNext

LEMMA StagesCorrect == MeteredSpec => [](TypeOK /\ RequestsMatchRows /\ Stages)
  BY StagesInit, StagesStep, ReportingIsPassive, TypeCorrect, RequestsAlwaysMatchRows, PTL
     DEF MeteredSpec

-----------------------------------------------------------------------------
LEMMA MeteredTypeInit == MeteredInit => MeteredTypeOK
  BY DEF MeteredInit, MeteredTypeOK, Codes

LEMMA MeteredTypeStep ==
  TypeOK /\ Stages /\ Stages' /\ MeteredTypeOK /\ [MeteredNext]_<<vars, figures>>
  => MeteredTypeOK'
  <1> SUFFICES ASSUME Stages, Stages', MeteredTypeOK, [MeteredNext]_<<vars, figures>>
               PROVE  MeteredTypeOK'
    OBVIOUS
  <1> USE RequestAssumption
      DEF Stages, MeteredTypeOK, Codes, Requests, Fine, Meter, Unlocked, Respond, totals, gauges,
          replies
  <1>1. ASSUME NEW c \in Creates, Receive(c) PROVE MeteredTypeOK'
    BY <1>1 DEF Receive
  <1>2. ASSUME NEW c \in Creates, Contend(c) PROVE MeteredTypeOK'
    BY <1>2 DEF Contend
  <1>3. ASSUME NEW c \in Creates, Refuse(c) PROVE MeteredTypeOK'
    BY <1>3 DEF Refuse
  <1>4. ASSUME NEW c \in Creates, Book(c) PROVE MeteredTypeOK'
    BY <1>4 DEF Book
  <1>5. ASSUME NEW c \in Creates, CountBooking(c) PROVE MeteredTypeOK'
    BY <1>5 DEF CountBooking
  <1>6. ASSUME NEW c \in Creates, Return(c) PROVE MeteredTypeOK'
    BY <1>6 DEF Return
  <1>7. ASSUME NEW m \in Manages, Find(m) PROVE MeteredTypeOK'
    BY <1>7 DEF Find
  <1>8. ASSUME NEW m \in Manages, Change(m) PROVE MeteredTypeOK'
    BY <1>8 DEF Change
  <1>9. ASSUME NEW m \in Manages, CountChange(m) PROVE MeteredTypeOK'
    BY <1>9 DEF CountChange
  <1>10. ASSUME NEW m \in Manages, Fail(m) PROVE MeteredTypeOK'
    BY <1>10 DEF Fail
  <1>11. ASSUME NEW q \in Requests, Die(q) \/ Error(q) PROVE MeteredTypeOK'
    BY <1>11 DEF Die, Error, figures
  <1>12. ASSUME NEW q \in Requests, CutOff(q) PROVE MeteredTypeOK'
    BY <1>12 DEF CutOff
  <1>13. ASSUME NEW q \in Requests, Panic(q) PROVE MeteredTypeOK'
    BY <1>13 DEF Panic
  <1>14. ASSUME NEW w \in Cleaners, NEW r \in Creates, Clean(w, r) PROVE MeteredTypeOK'
    BY <1>14 DEF Clean
  <1>15. CASE UNCHANGED figures
    BY <1>15 DEF figures
  <1>16. QED
    BY <1>1, <1>2, <1>3, <1>4, <1>5, <1>6, <1>7, <1>8, <1>9, <1>10, <1>11, <1>12, <1>13,
       <1>14, <1>15 DEF MeteredNext

(* The figures keep their types, and nothing is counted that was not committed. *)
THEOREM MeteredTypeCorrect == MeteredSpec => []MeteredTypeOK
  BY MeteredTypeInit, MeteredTypeStep, StagesCorrect, PTL DEF MeteredSpec

-----------------------------------------------------------------------------
(* The figures are the numbers of the requests that were counted, an attempt   *)
(* is counted on its way to its end.                                           *)
Counted(S) == metered \cap S
Confirms   == {m \in Manages : op[m] = "confirm"}
Tried      == {c \in Creates : pc[c] \in {"unlock", "done"}}

Counts ==
    /\ success = Cardinality(Counted(Creates))
    /\ pendingGauge = success - Cardinality(Counted(Manages))
    /\ confirmedGauge = Cardinality(Counted(Confirms))
    /\ success + conflicts + lockFailures <= Cardinality(Tried)

LEMMA CountsInit == MeteredInit => Counts
  <1> SUFFICES ASSUME MeteredInit PROVE Counts
    OBVIOUS
  <1>1. Counted(Creates) = {} /\ Counted(Manages) = {} /\ Counted(Confirms) = {} /\ Tried = {}
    BY DEF MeteredInit, Init, Counted, Tried, Requests
  <1>2. QED
    BY <1>1, FS_EmptySet DEF MeteredInit, Counts

LEMMA Finiteness ==
  /\ IsFiniteSet(Tried) /\ \A S : S \subseteq Creates \/ S \subseteq Manages => IsFiniteSet(Counted(S))
  /\ IsFiniteSet(Tried') /\ \A S : S \subseteq Creates \/ S \subseteq Manages => IsFiniteSet(Counted(S)')
  <1>1. \A S, T : IsFiniteSet(T) /\ S \subseteq T => IsFiniteSet(S)
    BY FS_Subset
  <1>2. Tried \subseteq Creates /\ Tried' \subseteq Creates
    BY DEF Tried
  <1>3. \A S : Counted(S) \subseteq S /\ Counted(S)' \subseteq S
    BY DEF Counted
  <1>4. \A S : S \subseteq Creates \/ S \subseteq Manages => IsFiniteSet(S)
    BY <1>1, CountAssumption
  <1>5. QED
    BY <1>1, <1>2, <1>3, <1>4, CountAssumption

(* A request that has committed is counted, as it goes on: every figure it     *)
(* belongs to grows by its one.                                                *)
LEMMA MeterStep ==
  ASSUME TypeOK, Stages, MeteredTypeOK, Counts,
         NEW q \in Requests, pc[q] = "committed", Meter(q),
         NEW step \in {"unlock", "done"}, pc' = [pc EXCEPT ![q] = step], op' = op,
         UNCHANGED <<conflicts, lockFailures>>
  PROVE  Counts'
  <1> USE RequestAssumption DEF Counted, Requests
  <1>1. q \notin metered /\ metered' = metered \cup {q}
    BY DEF Stages, Meter
  <1>2. Confirms' = Confirms /\ Confirms \subseteq Manages
    BY DEF Confirms
  <1>3. CASE q \in Creates
    <2>1. /\ Counted(Creates)' = Counted(Creates) \cup {q}
          /\ Counted(Manages)' = Counted(Manages)
          /\ Counted(Confirms)' = Counted(Confirms)
      BY <1>1, <1>2, <1>3
    <2>2. q \notin Tried /\ Tried' = Tried \cup {q}
      BY <1>3 DEF Tried, TypeOK
    <2>3. /\ Cardinality(Counted(Creates)') = Cardinality(Counted(Creates)) + 1
          /\ Cardinality(Tried') = Cardinality(Tried) + 1
      BY <1>1, <2>1, <2>2, Finiteness, FS_AddElement
    <2>4. Cardinality(Counted(Creates)) \in Nat /\ Cardinality(Tried) \in Nat
          /\ Cardinality(Counted(Manages)) \in Nat
      BY Finiteness, FS_CardinalityType
    <2>5. /\ success' = success + 1 /\ pendingGauge' = pendingGauge + 1
          /\ confirmedGauge' = confirmedGauge
      BY <1>3 DEF Meter, MeteredTypeOK
    <2> HIDE DEF Counted
    <2>6. QED
      BY <2>1, <2>3, <2>4, <2>5 DEF Counts, MeteredTypeOK
  <1>4. CASE q \in Manages
    <2>1. /\ Counted(Creates)' = Counted(Creates)
          /\ Counted(Manages)' = Counted(Manages) \cup {q}
          /\ Counted(Confirms)' =
                IF op[q] = "confirm" THEN Counted(Confirms) \cup {q} ELSE Counted(Confirms)
      BY <1>1, <1>4 DEF Confirms
    <2>2. Tried' = Tried
      BY <1>4 DEF Tried, TypeOK
    <2>3. /\ Cardinality(Counted(Manages)') = Cardinality(Counted(Manages)) + 1
          /\ Cardinality(Counted(Confirms)') =
                Cardinality(Counted(Confirms)) + (IF op[q] = "confirm" THEN 1 ELSE 0)
      <3>1. Cardinality(Counted(Confirms)) \in Nat
        BY <1>2, Finiteness, FS_CardinalityType
      <3>2. Cardinality(Counted(Confirms) \cup {q}) = Cardinality(Counted(Confirms)) + 1
        BY <1>1, <1>2, Finiteness, FS_AddElement
      <3>3. Cardinality(Counted(Manages) \cup {q}) = Cardinality(Counted(Manages)) + 1
        BY <1>1, Finiteness, FS_AddElement
      <3> HIDE DEF Counted
      <3>4. QED
        BY <2>1, <3>1, <3>2, <3>3
    <2>4. /\ Cardinality(Counted(Creates)) \in Nat /\ Cardinality(Tried) \in Nat
          /\ Cardinality(Counted(Manages)) \in Nat /\ Cardinality(Counted(Confirms)) \in Nat
      BY <1>2, Finiteness, FS_CardinalityType
    <2>5. /\ success' = success /\ pendingGauge' = pendingGauge - 1
          /\ confirmedGauge' = confirmedGauge + (IF op[q] = "confirm" THEN 1 ELSE 0)
      BY <1>4 DEF Meter, MeteredTypeOK
    <2> HIDE DEF Counted
    <2>6. QED
      BY <2>1, <2>2, <2>3, <2>4, <2>5 DEF Counts, MeteredTypeOK
  <1>5. QED
    BY <1>3, <1>4

(* Nothing is metered; one attempt that ends may be counted as having failed. *)
LEMMA KeepStep ==
  ASSUME MeteredTypeOK, Counts, UNCHANGED <<success, gauges, metered>>,
         Counted(Confirms)' = Counted(Confirms), Tried \subseteq Tried',
         \/ UNCHANGED <<conflicts, lockFailures>>
         \/ /\ \E c \in Tried' : c \notin Tried
            /\ \/ conflicts' = conflicts + 1 /\ lockFailures' = lockFailures
               \/ conflicts' = conflicts /\ lockFailures' = lockFailures + 1
  PROVE  Counts'
  <1>1. Counted(Creates)' = Counted(Creates) /\ Counted(Manages)' = Counted(Manages)
    BY DEF Counted
  <1>2. Cardinality(Tried) \in Nat /\ Cardinality(Tried') \in Nat
    BY Finiteness, FS_CardinalityType
  <1>3. Cardinality(Tried) <= Cardinality(Tried')
    BY Finiteness, FS_Subset
  <1>4. ASSUME NEW c \in Tried', c \notin Tried PROVE Cardinality(Tried) + 1 <= Cardinality(Tried')
    <2>1. Cardinality(Tried \cup {c}) = Cardinality(Tried) + 1
      BY <1>4, Finiteness, FS_AddElement
    <2>2. Cardinality(Tried \cup {c}) <= Cardinality(Tried')
      BY <1>4, Finiteness, FS_Subset
    <2>3. QED
      BY <2>1, <2>2
  <1>5. QED
    BY <1>1, <1>2, <1>3, <1>4 DEF Counts, MeteredTypeOK, gauges

LEMMA CountsStep ==
  /\ TypeOK /\ Stages /\ MeteredTypeOK /\ Counts /\ [MeteredNext]_<<vars, figures>>
  => Counts'
  <1> SUFFICES ASSUME TypeOK, Stages, MeteredTypeOK, Counts, [MeteredNext]_<<vars, figures>>
               PROVE  Counts'
    OBVIOUS
  <1> USE RequestAssumption
      DEF TypeOK, Requests, Counted, Confirms, Tried, database, creating, managing, Goto,
          totals, gauges
  <1>1. ASSUME NEW c \in Creates, Receive(c) PROVE Counts'
    BY <1>1, KeepStep DEF Receive, LookupKey
  <1>2. ASSUME NEW c \in Creates, Contend(c) PROVE Counts'
    BY <1>2, KeepStep DEF Contend, MissLock
  <1>3. ASSUME NEW c \in Creates, Refuse(c) PROVE Counts'
    BY <1>3, KeepStep DEF Refuse, RefuseCreate
  <1>4. ASSUME NEW c \in Creates, Book(c) PROVE Counts'
    BY <1>4, KeepStep DEF Book, CommitCreate
  <1>5. ASSUME NEW c \in Creates, CountBooking(c) PROVE Counts'
    BY <1>5, MeterStep DEF CountBooking, FinishCreate
  <1>6. ASSUME NEW c \in Creates, Return(c) PROVE Counts'
    BY <1>6, KeepStep DEF Return, ReleaseLock
  <1>7. ASSUME NEW m \in Manages, Find(m) PROVE Counts'
    <2>1. m \notin metered
      BY <1>7 DEF Find, LoadForConfirm, LoadForCancel, Load, Stages
    <2>2. QED
      BY <1>7, <2>1, KeepStep DEF Find, LoadForConfirm, LoadForCancel, Load
  <1>8. ASSUME NEW m \in Manages, Change(m) PROVE Counts'
    BY <1>8, KeepStep DEF Change, CommitConfirm, CommitCancel
  <1>9. ASSUME NEW m \in Manages, CountChange(m) PROVE Counts'
    BY <1>9, MeterStep DEF CountChange, FinishManage
  <1>10. ASSUME NEW m \in Manages, Fail(m) PROVE Counts'
    BY <1>10, KeepStep DEF Fail, RollbackManage
  <1>11. ASSUME NEW q \in Requests, Die(q) PROVE Counts'
    BY <1>11, KeepStep DEF Die, Abandon, figures
  <1>12. ASSUME NEW q \in Requests, Error(q) PROVE Counts'
    BY <1>12, KeepStep DEF Error, Abandon, Unlocked, Stages
  <1>13. ASSUME NEW q \in Requests, Panic(q) PROVE Counts'
    <2>1. Abandon(q) /\ UNCHANGED <<conflicts, lockFailures, op>>
      BY <1>13 DEF Panic, Abandon
    <2>2. CASE pc[q] = "committed" /\ Meter(q)
      BY <2>1, <2>2, MeterStep DEF Abandon
    <2>3. CASE UNCHANGED <<success, gauges, metered>>
      BY <2>1, <2>3, KeepStep DEF Abandon
    <2>4. QED
      BY <1>13, <2>2, <2>3 DEF Panic
  <1>14. ASSUME NEW q \in Requests, CutOff(q) PROVE Counts'
    <2>1. Abandon(q) /\ UNCHANGED <<conflicts, op>>
      BY <1>14 DEF CutOff, Abandon
    <2>2. CASE pc[q] = "committed" /\ Meter(q) /\ UNCHANGED lockFailures
      BY <2>1, <2>2, MeterStep DEF Abandon
    <2>3. CASE Unlocked(q) /\ UNCHANGED <<success, gauges, metered>>
      BY <2>1, <2>3, KeepStep DEF Abandon, Unlocked, Stages
    <2>4. QED
      BY <1>14, <2>2, <2>3 DEF CutOff
  <1>15. ASSUME NEW w \in Cleaners, NEW r \in Creates, Clean(w, r) PROVE Counts'
    BY <1>15, KeepStep DEF Clean, CancelListed
  <1>16. ASSUME Unreported, UNCHANGED figures PROVE Counts'
    BY <1>16, QuietStep, KeepStep DEF Quiet, figures
  <1>17. CASE UNCHANGED <<vars, figures>>
    BY <1>17, KeepStep DEF vars, figures
  <1>18. QED
    BY <1>1, <1>2, <1>3, <1>4, <1>5, <1>6, <1>7, <1>8, <1>9, <1>10, <1>11, <1>12, <1>13,
       <1>14, <1>15, <1>16, <1>17 DEF MeteredNext

LEMMA CountsCorrect == MeteredSpec => []Counts
  BY CountsInit, CountsStep, StagesCorrect, MeteredTypeCorrect, PTL DEF MeteredSpec

-----------------------------------------------------------------------------
(* A set whose members are each pointed at from S is no larger than S. *)
LEMMA PointedAt ==
  ASSUME NEW S, IsFiniteSet(S), NEW T, NEW f, \A t \in T : \E s \in S : f[s] = t
  PROVE  IsFiniteSet(T) /\ Cardinality(T) <= Cardinality(S)
  <1> DEFINE S1 == {s \in S : f[s] \in T}
             g  == [s \in S1 |-> f[s]]
  <1>1. IsFiniteSet(S1) /\ Cardinality(S1) <= Cardinality(S)
    BY FS_Subset
  <1>2. g \in Surjection(S1, T)
    BY DEF Surjection
  <1>3. IsFiniteSet(T) /\ Cardinality(T) <= Cardinality(S1)
    BY <1>1, <1>2, FS_Surjection
  <1>4. Cardinality(S) \in Nat /\ Cardinality(S1) \in Nat /\ Cardinality(T) \in Nat
    BY <1>1, <1>3, FS_CardinalityType
  <1>5. QED
    BY <1>1, <1>3, <1>4

(* A set that has committed members consists of those counted and the others. *)
LEMMA CommittedSplit ==
  ASSUME Stages, NEW S, IsFiniteSet(S)
  PROVE  /\ IsFiniteSet(wrote \cap S)
         /\ Cardinality(wrote \cap S) = Cardinality(Counted(S)) + Cardinality(Unmetered \cap S)
         /\ Cardinality(Counted(S)) \in Nat /\ Cardinality(Unmetered \cap S) \in Nat
  <1>1. IsFiniteSet(Counted(S)) /\ IsFiniteSet(Unmetered \cap S) /\ IsFiniteSet(wrote \cap S)
    BY FS_Subset DEF Counted
  <1>2. /\ wrote \cap S = Counted(S) \cup (Unmetered \cap S)
        /\ Counted(S) \cap (Unmetered \cap S) = {}
    BY DEF Counted, Unmetered, Stages
  <1>3. Cardinality({}) = 0
    BY FS_EmptySet
  <1>4. Cardinality(Counted(S)) \in Nat /\ Cardinality(Unmetered \cap S) \in Nat
    BY <1>1, FS_CardinalityType
  <1>5. Cardinality(Counted(S) \cup (Unmetered \cap S))
          = Cardinality(Counted(S)) + Cardinality(Unmetered \cap S)
              - Cardinality(Counted(S) \cap (Unmetered \cap S))
    BY <1>1, FS_Union
  <1>6. /\ Cardinality(Counted(S) \cap (Unmetered \cap S)) = 0
        /\ Cardinality(Counted(S) \cup (Unmetered \cap S)) = Cardinality(wrote \cap S)
    BY <1>2, <1>3, Zenon
  <1>7. QED
    BY <1>1, <1>4, <1>5, <1>6

(* Rows are the creates that have committed. *)
LEMMA SuccessesHold == Stages /\ Counts => SuccessesMatchRows
  <1> SUFFICES ASSUME Stages, Counts PROVE SuccessesMatchRows
    OBVIOUS
  <1>1. {r \in Creates : Exists(r)} = wrote \cap Creates
    BY DEF Stages
  <1>2. QED
    BY <1>1, CommittedSplit, CountAssumption DEF SuccessesMatchRows, Counts

(* A row that was counted is pending still, or a cleaner or a manager changed it. *)
LEMMA PendingHolds == TypeOK /\ Stages /\ Counts => PendingIsBounded
  <1> SUFFICES ASSUME TypeOK, Stages, Counts PROVE PendingIsBounded
    OBVIOUS
  <1> DEFINE C == Counted(Creates)
             P == Having("pending")
             W == wrote \cap Manages
             M == {r \in Creates : \E m \in W : target[m] = r}
  <1>1. C \subseteq P \cup cleaned \cup M
    <2> SUFFICES ASSUME NEW r \in C PROVE r \in P \cup cleaned \cup M
      OBVIOUS
    <2>1. r \in Creates /\ status[r] \in {"pending", "confirmed", "cancelled"}
      BY DEF Counted, Stages, Exists, TypeOK, Statuses
    <2>2. QED
      BY <2>1 DEF Having, Stages
  <1>2. IsFiniteSet(C) /\ IsFiniteSet(P) /\ IsFiniteSet(cleaned) /\ IsFiniteSet(W)
    BY FS_Subset, CountAssumption DEF Counted, Having, Stages
  <1>3. IsFiniteSet(M) /\ Cardinality(M) <= Cardinality(W)
    BY <1>2, PointedAt
  <1>4. /\ Cardinality(W) = Cardinality(Counted(Manages)) + Cardinality(Unmetered \cap Manages)
        /\ Cardinality(Counted(Manages)) \in Nat /\ Cardinality(Unmetered \cap Manages) \in Nat
    BY CommittedSplit, CountAssumption
  <1>5. IsFiniteSet(P \cup cleaned) /\ IsFiniteSet((P \cup cleaned) \cup M)
    BY <1>2, <1>3, FS_Union
  <1>6. Cardinality(C) <= Cardinality((P \cup cleaned) \cup M)
    BY <1>1, <1>5, FS_Subset
  <1> HIDE DEF C, P, W, M
  <1>7. /\ Cardinality(C) \in Nat /\ Cardinality(P) \in Nat /\ Cardinality(cleaned) \in Nat
        /\ Cardinality(W) \in Nat /\ Cardinality(M) \in Nat
        /\ Cardinality(P \cap cleaned) \in Nat /\ Cardinality((P \cup cleaned) \cap M) \in Nat
        /\ Cardinality((P \cup cleaned) \cup M) \in Nat
    BY <1>2, <1>3, <1>5, FS_CardinalityType, FS_Intersection
  <1>8. Cardinality((P \cup cleaned) \cup M)
          <= Cardinality(P) + Cardinality(cleaned) + Cardinality(M)
    <2>1. Cardinality(P \cup cleaned)
            = Cardinality(P) + Cardinality(cleaned) - Cardinality(P \cap cleaned)
      BY <1>2, FS_Union
    <2>2. Cardinality((P \cup cleaned) \cup M)
            = Cardinality(P \cup cleaned) + Cardinality(M)
                - Cardinality((P \cup cleaned) \cap M)
      BY <1>3, <1>5, FS_Union
    <2>3. QED
      BY <1>7, <2>1, <2>2
  <1>9. Cardinality(C) <= Cardinality(P) + Cardinality(cleaned) + Cardinality(W)
    BY <1>3, <1>6, <1>7, <1>8
  <1>10. pendingGauge = Cardinality(C) - Cardinality(Counted(Manages))
    BY DEF Counts, C
  <1>11. QED
    BY <1>4, <1>7, <1>9, <1>10 DEF PendingIsBounded, P

(* A row that is confirmed was confirmed by a request. *)
LEMMA ConfirmedHolds == Stages /\ Counts => ConfirmedIsBounded
  <1> SUFFICES ASSUME Stages, Counts PROVE ConfirmedIsBounded
    OBVIOUS
  <1>1. IsFiniteSet(Confirms)
    BY FS_Subset, CountAssumption DEF Confirms
  <1>2. \A r \in Having("confirmed") : \E m \in wrote \cap Confirms : target[m] = r
    BY DEF Having, Stages, Confirms
  <1>3. /\ Cardinality(Having("confirmed")) <= Cardinality(wrote \cap Confirms)
        /\ Cardinality(wrote \cap Confirms)
              = Cardinality(Counted(Confirms)) + Cardinality(Unmetered \cap Confirms)
    BY <1>1, <1>2, CommittedSplit, PointedAt
  <1>4. Unmetered \cap Confirms = {m \in Unmetered \cap Manages : op[m] = "confirm"}
    BY DEF Confirms
  <1>5. QED
    BY <1>3, <1>4 DEF ConfirmedIsBounded, Counts

(* What the figures show is never further from the tables than the commits     *)
(* that nobody counted and the cancels of the cleaners explain.                *)
THEOREM FiguresCorrect == MeteredSpec => []FiguresFollowRows
  <1>1. TypeOK /\ Stages /\ Counts => FiguresFollowRows
    BY SuccessesHold, PendingHolds, ConfirmedHolds
       DEF FiguresFollowRows, Counts, Tried, AttemptsAreCountedOnce
  <1>2. QED
    BY <1>1, StagesCorrect, CountsCorrect, PTL

-----------------------------------------------------------------------------
(* Nobody is answered before the handler returns, and a create that is about   *)
(* to return has its own reservation exactly if it was counted.                *)
Answered(q) ==
    /\ Excused(q)
    /\ pc[q] # "done" => told[q] = None /\ seen[q] = None
    /\ q \in Creates /\ pc[q] = "unlock" =>
          IF q \in metered THEN answer[q] = q ELSE answer[q] = Failed

Answers == \A q \in Requests : Answered(q)

LEMMA AnswersInit == MeteredInit => Answers
  BY NullAssumption DEF MeteredInit, Init, Answers, Answered, Excused, Fine, Requests

LEMMA AnswersStep ==
  /\ TypeOK /\ RequestsMatchRows /\ Stages /\ MeteredTypeOK /\ Answers
  /\ [MeteredNext]_<<vars, figures>>
  => Answers'
  <1> SUFFICES ASSUME TypeOK, RequestsMatchRows, Stages, MeteredTypeOK, Answers,
                      [MeteredNext]_<<vars, figures>>, NEW q \in Requests
               PROVE  Answered(q)'
    BY DEF Answers
  <1> USE RequestAssumption, NullAssumption
      DEF TypeOK, Stages, MeteredTypeOK, Codes, Answers, Answered, Excused, Fine, Requests,
          Respond, Meter, Goto, Reply, replies, managing
  <1>1. ASSUME NEW c \in Creates, Receive(c) PROVE Answered(q)'
    <2>1. pc[c] = "new" /\ ~Exists(c)
      BY <1>1 DEF Receive, LookupKey, RequestsMatchRows
    <2>2. CASE c # q
      BY <1>1, <2>2 DEF Receive, LookupKey
    <2>3. CASE c = q
      BY <1>1, <2>1, <2>3 DEF Receive, LookupKey
    <2>4. QED
      BY <2>2, <2>3
  <1>2. ASSUME NEW c \in Creates, Contend(c) PROVE Answered(q)'
    BY <1>2 DEF Contend, MissLock
  <1>3. ASSUME NEW c \in Creates, Refuse(c) PROVE Answered(q)'
    BY <1>3 DEF Refuse, RefuseCreate
  <1>4. ASSUME NEW c \in Creates, Book(c) PROVE Answered(q)'
    BY <1>4 DEF Book, CommitCreate
  <1>5. ASSUME NEW c \in Creates, CountBooking(c) PROVE Answered(q)'
    BY <1>5 DEF CountBooking, FinishCreate
  <1>6. ASSUME NEW c \in Creates, Return(c) PROVE Answered(q)'
    BY <1>6 DEF Return, ReleaseLock
  <1>7. ASSUME NEW m \in Manages, Find(m) PROVE Answered(q)'
    BY <1>7 DEF Find, LoadForConfirm, LoadForCancel, Load
  <1>8. ASSUME NEW m \in Manages, Change(m) PROVE Answered(q)'
    BY <1>8 DEF Change, CommitConfirm, CommitCancel
  <1>9. ASSUME NEW m \in Manages, CountChange(m) PROVE Answered(q)'
    BY <1>9 DEF CountChange, FinishManage
  <1>10. ASSUME NEW m \in Manages, Fail(m) PROVE Answered(q)'
    BY <1>10 DEF Fail, RollbackManage
  <1>11. ASSUME NEW r \in Requests, Die(r) PROVE Answered(q)'
    BY <1>11 DEF Die, Abandon, figures
  <1>12. ASSUME NEW r \in Requests, Error(r) PROVE Answered(q)'
    BY <1>12 DEF Error, Abandon
  <1>13. ASSUME NEW r \in Requests, CutOff(r) PROVE Answered(q)'
    BY <1>13 DEF CutOff, Abandon
  <1>14. ASSUME NEW r \in Requests, Panic(r) PROVE Answered(q)'
    BY <1>14 DEF Panic, Abandon
  <1>15. ASSUME NEW w \in Cleaners, NEW r \in Creates, Clean(w, r) PROVE Answered(q)'
    BY <1>15 DEF Clean, CancelListed
  <1>16. ASSUME Unreported, UNCHANGED figures PROVE Answered(q)'
    BY <1>16, QuietStep DEF Quiet, figures
  <1>17. CASE UNCHANGED <<vars, figures>>
    BY <1>17 DEF vars, figures
  <1>18. QED
    BY <1>1, <1>2, <1>3, <1>4, <1>5, <1>6, <1>7, <1>8, <1>9, <1>10, <1>11, <1>12, <1>13,
       <1>14, <1>15, <1>16, <1>17 DEF MeteredNext

(* A request that has committed is told of a failure only if nobody             *)
(* acknowledged its commit or, of a cancel, Redis is missing; no success is     *)
(* told or counted that was none.                                               *)
THEOREM AnswersCorrect == MeteredSpec => []AnswersAreExcused
  <1>1. MeteredSpec => []Answers
    BY AnswersInit, AnswersStep, StagesCorrect, MeteredTypeCorrect, PTL DEF MeteredSpec
  <1>2. Answers => AnswersAreExcused
    BY DEF Answers, Answered, AnswersAreExcused
  <1>3. QED
    BY <1>1, <1>2, PTL
=============================================================================
