----------------------------- MODULE ServerProofs -----------------------------
(* Proofs about Server, for any number of requests. *)
EXTENDS Server, TLAPS

(* Nothing runs before it is launched, and the worker is waited for.          *)
Launched ==
    /\ main \in Starting => server = "off"
    /\ main \in {"draining", "closing", "exited"} => cleaner = "done" /\ server = "closed"
    /\ main \in {"closing", "exited"} /\ ~late => Waiting = {}

(* Whoever migrates has marked the schema dirty; who has passed the migration  *)
(* found it current, and nobody begins another one then.                      *)
Migrated ==
    /\ migrator # "none" => schema = "dirty"
    /\ main \notin {"setup", "migrating", "killed"} => schema = "current"

(* What a request has come to tells what it has written and whether there is  *)
(* Redis; its goroutine ends with the answer, unless that was a timeout.      *)
RequestFollows(r) ==
    /\ pc[r] = "none" => answer[r] = None /\ ~wrote[r]
    /\ pc[r] # "none" => main \notin Starting /\ kind[r] \in Kinds
    /\ pc[r] = "lookup" => ~wrote[r] /\ kind[r] = "create"
    /\ pc[r] = "redis" => ~wrote[r] /\ kind[r] \in {"create", "count"}
    /\ pc[r] = "db" => ~wrote[r] /\ (kind[r] \in {"create", "count"} => connected)
    /\ pc[r] = "after" => /\ wrote[r] <=> kind[r] # "count"
                          /\ kind[r] \in {"create", "count"} => connected
    /\ Running(r) => answer[r] \in {None, "timeout"}
    /\ answer[r] = "panic" => /\ ~connected /\ kind[r] \in {"create", "cancel", "count"}
                              /\ wrote[r] <=> kind[r] = "cancel"

(* The pools are as they were opened from Connect to the end of the drain. *)
PoolsOpen ==
    main \in {"launching", "serving", "signalled", "cancelled", "stopping", "draining"}
        => Pools \subseteq open

IInv ==
    /\ TypeOK /\ Launched /\ Migrated /\ \A r \in Requests : RequestFollows(r)
    /\ PoolsOpen /\ PoolsOutliveRequests

LEMMA InitIsFine == Init => IInv
BY NoneAssumption
   DEF Init, IInv, TypeOK, Launched, Migrated, RequestFollows, Stages, Starting, PoolsOpen,
       PoolsOutliveRequests, Running

(* Every step keeps the types. *)
LEMMA StepKeepsTypes == TypeOK /\ [Next]_vars => TypeOK'
<1> SUFFICES ASSUME TypeOK, [Next]_vars PROVE TypeOK'
  OBVIOUS
<1> USE DEF TypeOK, process, requests, database
<1>0. CASE Connect
  <2>1. connected' \in BOOLEAN /\ open' = {"db"} \cup (IF connected' THEN {"redis"} ELSE {})
    BY <1>0 DEF Connect
  <2>2. open' \subseteq {"db", "redis"} /\ ("redis" \in open' => connected')
    BY <2>1
  <2> QED
    BY <1>0, <2>1, <2>2 DEF Connect, Stages
<1>8. CASE OpenDB
  BY <1>8 DEF Stages, OpenDB
<1>21. CASE NoChange
  BY <1>21 DEF Stages, NoChange
<1>22. CASE RefuseDirty
  BY <1>22 DEF Stages, RefuseDirty
<1>9. CASE BeginUp
  BY <1>9 DEF Stages, BeginUp
<1>23. CASE EndUp
  BY <1>23 DEF Stages, EndUp
<1>10. CASE OthersMigrate
  BY <1>10 DEF OthersMigrate
<1>1. CASE Launch
  BY <1>1 DEF Stages, Launch
<1>18. CASE Signal
  BY <1>18 DEF Stages, Signal
<1>19. CASE CancelContext
  BY <1>19 DEF Stages, CancelContext
<1>20. CASE CloseStopCh
  BY <1>20 DEF Stages, CloseStopCh
<1>11. CASE AwaitCleaner
  BY <1>11 DEF Stages, AwaitCleaner
<1>17. CASE Drain
  BY <1>17 DEF Stages, Drain
<1>14. CASE GiveUp
  BY <1>14 DEF Stages, GiveUp
<1>12. CASE CloseRedis \/ CloseDB
  BY <1>12 DEF Stages, CloseRedis, CloseDB
<1>15. CASE Exit
  BY <1>15 DEF Stages, Exit
<1>16. CASE Kill
  BY <1>16 DEF Stages, Kill
<1>2. CASE Listen \/ CleanerProgress \/ StartRound \/ LeaveLoop
  BY <1>2 DEF Listen, CleanerProgress, StartCleaner, EndRound, StartRound, LeaveLoop
<1>3. ASSUME NEW r \in Requests, Accept(r) PROVE TypeOK'
  <2>1. PICK k \in Kinds :
           /\ kind' = [kind EXCEPT ![r] = k]
           /\ pc' = [pc EXCEPT ![r] = First(k)]
    BY <1>3 DEF Accept
  <2>2. kind' \in [Requests -> Kinds \cup {None}]
    BY <2>1
  <2>3. pc' \in [Requests -> {"none", "lookup", "redis", "db", "after", "done"}]
    BY <2>1 DEF First
  <2> QED
    BY <1>3, <2>2, <2>3 DEF Accept
<1>6. ASSUME NEW r \in Requests, LookupKey(r) \/ AskRedis(r) PROVE TypeOK'
  <2>1. ASSUME NEW step \in {"redis", "db"}, Goto(r, step), UNCHANGED wrote PROVE TypeOK'
    BY <2>1 DEF Goto
  <2>2. ASSUME NEW what \in {"ok", "panic"}, End(r, what) PROVE TypeOK'
    BY <2>2 DEF End, Reply
  <2> QED
    BY <1>6, <2>1, <2>2 DEF LookupKey, AskRedis
<1>7. ASSUME NEW r \in Requests, UseDB(r) PROVE TypeOK'
  <2>1. wrote' \in [Requests -> BOOLEAN]
    BY <1>7, Zenon DEF UseDB
  <2> QED
    BY <1>7, <2>1 DEF UseDB, Goto
<1>4. ASSUME NEW r \in Requests, UseCache(r) \/ Refuse(r) PROVE TypeOK'
  BY <1>4 DEF UseCache, Refuse, End, Reply
<1>13. ASSUME NEW r \in Requests, Timeout(r) PROVE TypeOK'
  BY <1>13 DEF Timeout, Reply
<1>5. CASE UNCHANGED vars
  BY <1>5 DEF vars
<1> QED
  BY <1>0, <1>1, <1>2, <1>3, <1>4, <1>5, <1>6, <1>7, <1>8, <1>9, <1>10, <1>11, <1>12, <1>13,
     <1>14, <1>15, <1>16, <1>17, <1>18, <1>19, <1>20, <1>21, <1>22, <1>23
  DEF Next, MainProgress, RequestStep

(* A step of one request leaves the others as they are. *)
LEMMA StepOfOne ==
    ASSUME NEW r \in Requests, TypeOK, RequestStep(r)
    PROVE  /\ \A q \in Requests \ {r} :
                 /\ kind'[q] = kind[q] /\ pc'[q] = pc[q]
                 /\ wrote'[q] = wrote[q] /\ answer'[q] = answer[q]
           /\ UNCHANGED <<process, server, cleaner, database>>
<1> USE DEF TypeOK, Goto, End, Reply
<1>1. CASE Accept(r)
  BY <1>1 DEF Accept
<1>2. CASE LookupKey(r) \/ AskRedis(r)
  BY <1>2 DEF LookupKey, AskRedis
<1>3. CASE UseDB(r)
  BY <1>3 DEF UseDB
<1>4. CASE UseCache(r) \/ Refuse(r) \/ Timeout(r)
  BY <1>4 DEF UseCache, Refuse, Timeout
<1> QED
  BY <1>1, <1>2, <1>3, <1>4 DEF RequestStep

(* Every step keeps the order in which things are launched and stopped.       *)
LEMMA StepKeepsOrder == TypeOK /\ Launched /\ [Next]_vars => Launched'
<1> SUFFICES ASSUME TypeOK, Launched, [Next]_vars PROVE Launched'
  OBVIOUS
<1> USE DEF Launched, Starting, process, requests, Waiting, Accepted
<1>1. CASE MainProgress \/ Signal \/ Kill \/ OthersMigrate
  BY <1>1 DEF MainProgress, OpenDB, BeginUp, EndUp, NoChange, RefuseDirty, OthersMigrate, Connect, Launch, CancelContext, CloseStopCh, AwaitCleaner, Drain, GiveUp,
              CloseRedis, CloseDB, Exit, Signal, Kill
<1>2. CASE Listen \/ CleanerProgress \/ StartRound \/ LeaveLoop
  BY <1>2 DEF Listen, CleanerProgress, StartCleaner, EndRound, StartRound, LeaveLoop
<1>3. ASSUME NEW r \in Requests, Accept(r) PROVE Launched'
  BY <1>3 DEF Accept
<1>4. ASSUME NEW r \in Requests, RequestStep(r), ~Accept(r) PROVE Launched'
  <2>1. UNCHANGED <<main, late, server, cleaner>>
    BY <1>4, StepOfOne
  <2>2. \A q \in Requests : pc[q] = "none" => pc'[q] = "none"
    BY <1>4, StepOfOne
       DEF TypeOK, RequestStep, LookupKey, AskRedis, UseDB, UseCache, Refuse, Timeout, Running,
           Goto, End
  <2>3. \A q \in Requests : answer[q] # None => answer'[q] # None
    BY <1>4, StepOfOne
       DEF TypeOK, RequestStep, LookupKey, AskRedis, UseDB, UseCache, Refuse, Timeout, Goto,
           End, Reply
  <2>4. ASSUME Waiting = {} PROVE Waiting' = {}
    <3>1. ASSUME NEW q \in Requests, pc'[q] # "none" PROVE answer'[q] # None
      <4>1. CASE pc[q] # "none"
        BY <2>3, <2>4, <4>1
      <4>2. CASE pc[q] = "none"
        BY <2>2, <3>1, <4>2
      <4> QED BY <4>1, <4>2
    <3> QED BY <3>1
  <2> QED
    BY <2>1, <2>4
<1>5. CASE UNCHANGED vars
  BY <1>5 DEF vars
<1> QED
  BY <1>1, <1>2, <1>3, <1>4, <1>5 DEF Next

(* Every step keeps the schema as the migrators have marked it. *)
LEMMA StepKeepsSchema == TypeOK /\ Migrated /\ [Next]_vars => Migrated'
<1> SUFFICES ASSUME TypeOK, Migrated, [Next]_vars PROVE Migrated'
  OBVIOUS
<1> USE DEF TypeOK, Stages, Starting, Migrated, process, database
<1>1. CASE MainProgress \/ Signal \/ Kill \/ OthersMigrate
  BY <1>1 DEF MainProgress, OpenDB, BeginUp, EndUp, NoChange, RefuseDirty, OthersMigrate,
              Connect, Launch, CancelContext, CloseStopCh, AwaitCleaner, Drain, GiveUp,
              CloseRedis, CloseDB, Exit, Signal, Kill
<1>2. CASE Listen \/ CleanerProgress \/ StartRound \/ LeaveLoop
  BY <1>2 DEF Listen, CleanerProgress, StartCleaner, EndRound, StartRound, LeaveLoop
<1>3. ASSUME NEW r \in Requests, RequestStep(r) PROVE Migrated'
  BY <1>3, StepOfOne
<1>4. CASE UNCHANGED vars
  BY <1>4 DEF vars
<1> QED
  BY <1>1, <1>2, <1>3, <1>4 DEF Next

(* Every step keeps what is known of each request. *)
LEMMA StepKeepsRequests == IInv /\ [Next]_vars => \A r \in Requests : RequestFollows(r)'
<1> SUFFICES ASSUME IInv, [Next]_vars, NEW q \in Requests PROVE RequestFollows(q)'
  OBVIOUS
<1>0. TypeOK /\ Launched /\ RequestFollows(q)
  BY DEF IInv
<1>1. ASSUME UNCHANGED requests, connected' = connected \/ main \in Starting,
             main' \in Starting => main \in Starting
      PROVE  RequestFollows(q)'
  <2>1. main \in Starting => pc[q] = "none"
    BY <1>0 DEF RequestFollows
  <2> QED
    BY <1>0, <1>1, <2>1, NoneAssumption DEF RequestFollows, Running, requests
<1>2. CASE MainProgress \/ Signal \/ Kill \/ OthersMigrate
  BY <1>1, <1>2 DEF MainProgress, Starting, OpenDB, BeginUp, EndUp, NoChange, RefuseDirty,
                    OthersMigrate, process, Connect, Launch, CancelContext, CloseStopCh, AwaitCleaner, Drain,
                    GiveUp, CloseRedis, CloseDB, Exit, Signal, Kill
<1>3. CASE Listen \/ CleanerProgress \/ StartRound \/ LeaveLoop
  BY <1>1, <1>3 DEF Listen, CleanerProgress, StartCleaner, EndRound, StartRound, LeaveLoop, process
<1>4. ASSUME NEW r \in Requests, q # r, RequestStep(r) PROVE RequestFollows(q)'
  BY <1>0, <1>4, StepOfOne DEF RequestFollows, Running, process
<1> USE DEF RequestFollows, Running, process, TypeOK
<1>5. CASE Accept(q)
  BY <1>0, <1>5, NoneAssumption DEF Accept, First, Launched, Kinds
<1>6. CASE LookupKey(q) \/ AskRedis(q)
  BY <1>0, <1>6, NoneAssumption DEF LookupKey, AskRedis, Goto, End, Reply
<1>7. CASE UseDB(q)
  BY <1>0, <1>7, NoneAssumption DEF UseDB, Goto
<1>8. CASE UseCache(q)
  BY <1>0, <1>8, NoneAssumption DEF UseCache, End, Reply, Kinds
<1>9. CASE Refuse(q)
  BY <1>0, <1>9, NoneAssumption DEF Refuse, End, Reply
<1>10. CASE Timeout(q)
  BY <1>0, <1>10, NoneAssumption DEF Timeout, Reply
<1>11. CASE UNCHANGED vars
  BY <1>1, <1>11 DEF vars
<1> QED
  BY <1>2, <1>3, <1>4, <1>5, <1>6, <1>7, <1>8, <1>9, <1>10, <1>11 DEF Next, RequestStep

(* Every step keeps the pools open for those who need them: they are closed    *)
(* after the drain, and what still runs then was given up or has been answered; *)
(* nothing is accepted once the drain has begun.                               *)
LEMMA StepKeepsPools == IInv /\ [Next]_vars => PoolsOpen' /\ PoolsOutliveRequests'
<1> SUFFICES ASSUME IInv, [Next]_vars PROVE PoolsOpen' /\ PoolsOutliveRequests'
  OBVIOUS
<1> USE DEF PoolsOpen, PoolsOutliveRequests, Pools, Running
<1>0. /\ TypeOK /\ Launched /\ PoolsOpen /\ PoolsOutliveRequests
      /\ \A r \in Requests : RequestFollows(r)
  BY DEF IInv
<1>1. main \in Starting => \A r \in Requests : ~Running(r)
  BY <1>0 DEF RequestFollows
<1>2. CASE OpenDB \/ BeginUp \/ EndUp \/ NoChange \/ RefuseDirty \/ Connect \/ Launch
  <2>1. main \in Starting /\ pc' = pc
    BY <1>2 DEF OpenDB, BeginUp, EndUp, NoChange, RefuseDirty, Connect, Launch, Starting, requests
  <2>2. PoolsOutliveRequests'
    BY <1>1, <2>1
  <2>3. PoolsOpen'
    BY <1>0, <1>2 DEF OpenDB, BeginUp, EndUp, NoChange, RefuseDirty, Connect, Launch, process
  <2> QED
    BY <2>2, <2>3
<1>3. CASE Signal \/ CancelContext \/ CloseStopCh \/ AwaitCleaner \/ Drain \/ GiveUp \/ Exit \/ Kill
  BY <1>0, <1>3 DEF Signal, CancelContext, CloseStopCh, AwaitCleaner, Drain, GiveUp, Exit, Kill,
                    requests
<1>4. CASE CloseRedis \/ CloseDB
  <2>1. /\ main = "closing" /\ main' = "closing"
        /\ UNCHANGED <<connected, late, pc, answer>>
    BY <1>4 DEF CloseRedis, CloseDB, requests
  <2>2. ASSUME NEW r \in Requests, Running(r), ~late PROVE answer[r] = "timeout"
    BY <1>0, <2>1, <2>2 DEF Launched, Waiting, Accepted, RequestFollows
  <2> QED
    BY <2>1, <2>2
<1>5. CASE OthersMigrate \/ Listen \/ CleanerProgress \/ StartRound \/ LeaveLoop
  BY <1>0, <1>5 DEF OthersMigrate, Listen, CleanerProgress, StartCleaner, EndRound, StartRound,
                    LeaveLoop, process, requests
<1>6. ASSUME NEW r \in Requests, Accept(r) PROVE PoolsOpen' /\ PoolsOutliveRequests'
  <2>1. Pools \subseteq open
    BY <1>0, <1>6 DEF Accept, Alive, Launched, TypeOK, Stages, Starting
  <2> QED
    BY <1>0, <1>6, <2>1 DEF Accept, process
<1>7. ASSUME NEW r \in Requests, RequestStep(r), ~Accept(r)
      PROVE  PoolsOpen' /\ PoolsOutliveRequests'
  <2>1. UNCHANGED <<main, connected, open, late>>
    BY <1>0, <1>7, StepOfOne DEF process
  <2>2. ASSUME NEW q \in Requests, Running(q)'
        PROVE  Running(q) /\ (answer[q] = "timeout" => answer'[q] = "timeout")
    BY <1>0, <1>7, <2>2, StepOfOne, NoneAssumption
       DEF TypeOK, RequestStep, LookupKey, AskRedis, UseDB, UseCache, Refuse, Timeout, Goto, End,
           Reply
  <2> QED
    BY <1>0, <2>1, <2>2
<1>8. CASE UNCHANGED vars
  BY <1>0, <1>8 DEF vars, process, requests
<1> QED
  BY <1>2, <1>3, <1>4, <1>5, <1>6, <1>7, <1>8 DEF Next, MainProgress

-----------------------------------------------------------------------------
(* All of it holds forever. *)
LEMMA IInvHolds == Spec => []IInv
<1>1. IInv /\ [Next]_vars => IInv'
  BY StepKeepsTypes, StepKeepsOrder, StepKeepsSchema, StepKeepsRequests, StepKeepsPools DEF IInv
<1> QED
  BY <1>1, InitIsFine, PTL DEF Spec

(* The variables of the server keep their types (all of Server's actions).    *)
THEOREM ServerTypeCorrect == Spec => []TypeOK
BY IInvHolds, PTL DEF IInv

(* However many servers start at once and die migrating, none serves before    *)
(* the schema is complete.                                                    *)
THEOREM AlwaysServesMigrated == Spec => []ServesMigrated
<1>1. IInv => ServesMigrated
  BY DEF IInv, Migrated, Starting, ServesMigrated
<1> QED
  BY <1>1, IInvHolds, PTL

(* No handler that its client still waits for meets a closed pool, unless the  *)
(* drain was given up.                                                        *)
THEOREM PoolsAlwaysOutliveRequests == Spec => []PoolsOutliveRequests
<1>1. IInv => PoolsOutliveRequests
  BY DEF IInv
<1> QED
  BY <1>1, IInvHolds, PTL

(* The nil lock manager and cache of main make handlers panic in a known way: *)
(* creates before they have written, cancels after.                           *)
THEOREM PanicsAlwaysContained == Spec => []PanicsAreContained
<1>1. IInv => PanicsAreContained
  BY DEF IInv, RequestFollows, PanicsAreContained
<1> QED
  BY <1>1, IInvHolds, PTL
=============================================================================
