------------------------ MODULE DistributedLockProofs ------------------------
(* What TLAPS proves of the lock for any number of clients, attempts and      *)
(* resent commands and any time to live.                                      *)
EXTENDS DistributedLock, TLAPS

(* A client has made an attempt once it is at anything. *)
Started == \A c \in Clients : pc[c] # "idle" => attempt[c] \in 1 .. MaxRetries

(* What LeaseIsKept rests on: an answer that has not been read yet stands for *)
(* a lease Redis goes on keeping, only clients that have the lock count on a  *)
(* lease, and a Release is on its way only for a client that is done with it. *)
AnswersAreKept ==
    \A c \in Clients :
        pc[c] \in {"setnx", "extend"} /\ reply[c] = "yes" /\ since[c] < TTL =>
            owner = Value(c) /\ ttl >= TTL - since[c]

HoldersHaveTheLock == \A c \in Clients : Holds(c) => pc[c] \in {"held", "extend"}

ReleasesAreLast ==
    \A m \in sent : m.op = "release" =>
        \E c \in Clients : m.value = Value(c) /\ pc[c] \in {"release", "done"}

Inv ==
    /\ TypeOK
    /\ Started
    /\ LeaseIsKept
    /\ AnswersAreKept
    /\ HoldersHaveTheLock
    /\ ReleasesAreLast

(* The two steps by which clients act keep every variable's type. *)
LEMMA SendType ==
    ASSUME TypeOK, NEW c \in Clients, NEW op \in Calls, NEW n \in 1 .. MaxRetries,
           NEW left \in 0 .. Spare, Send(c, op, n, left)
    PROVE  TypeOK'
<1>1. <<c, n>> \in Values
  BY DEF Values
<1>2. [op |-> op, value |-> <<c, n>>, nr |-> left] \in Commands
  BY <1>1 DEF Commands
<1>3. sent' \subseteq Commands
  BY <1>2 DEF TypeOK, Send
<1>4. attempt' \in [Clients -> 0 .. MaxRetries]
  BY NumbersAssumption DEF TypeOK, Send
<1>5. since' \in [Clients -> 0 .. TTL] /\ age' \in [Clients -> 0 .. TTL]
  BY NumbersAssumption DEF TypeOK, Send
<1> QED
  BY <1>3, <1>4, <1>5 DEF TypeOK, Send, redis

LEMMA SettleType ==
    ASSUME TypeOK, NEW c \in Clients, NEW s \in {"wait", "held", "done"},
           NEW old \in 0 .. TTL, Settle(c, s, old)
    PROVE  TypeOK'
BY NumbersAssumption DEF TypeOK, Settle, redis, Calls

(* Sending leaves others' leases alone, and the sender's only where it has one. *)
LEMMA SendKeepsLeases ==
    ASSUME Inv, NEW c \in Clients, NEW op \in Calls, NEW n \in 1 .. MaxRetries,
           NEW left \in 0 .. Spare, Send(c, op, n, left),
           op = "extend" => pc[c] \in {"held", "extend"} /\ n = attempt[c],
           op = "release" => n = attempt[c],
           pc[c] = "release" => op = "release",
           pc[c] # "done"
    PROVE  Inv'
<1>1. TypeOK'
  BY SendType DEF Inv
<1>2. LeaseIsKept' /\ HoldersHaveTheLock'
  <2> SUFFICES ASSUME NEW d \in Clients, Holds(d)'
               PROVE  /\ owner' = Value(d)' /\ ttl' >= TTL - age'[d]
                      /\ pc'[d] \in {"held", "extend"}
    BY DEF LeaseIsKept, HoldersHaveTheLock
  <2>1. CASE d # c
    <3>1. age'[d] = age[d] /\ pc'[d] = pc[d] /\ attempt'[d] = attempt[d]
      BY <2>1 DEF Send, Inv, TypeOK
    <3>2. Holds(d)
      BY <3>1 DEF Holds
    <3> QED
      BY <3>1, <3>2 DEF Inv, LeaseIsKept, HoldersHaveTheLock, Value, Send, redis
  <2>2. CASE d = c
    <3>1. op = "extend" /\ age'[d] = age[d]
      BY <2>2, NumbersAssumption DEF Send, Inv, TypeOK, Holds
    <3>2. pc'[d] = "extend" /\ attempt'[d] = attempt[d]
      BY <2>2, <3>1 DEF Send, Inv, TypeOK
    <3>3. Holds(d)
      BY <3>1 DEF Holds
    <3> QED
      BY <3>1, <3>2, <3>3 DEF Inv, LeaseIsKept, Value, Send, redis
  <2> QED
    BY <2>1, <2>2
<1>3. AnswersAreKept'
  <2> SUFFICES ASSUME NEW d \in Clients, pc'[d] \in {"setnx", "extend"}, reply'[d] = "yes",
                      since'[d] < TTL
               PROVE  owner' = Value(d)' /\ ttl' >= TTL - since'[d]
    BY DEF AnswersAreKept
  <2>1. d # c
    BY DEF Send, Inv, TypeOK
  <2>2. since'[d] = since[d] /\ pc'[d] = pc[d] /\ reply'[d] = reply[d] /\ attempt'[d] = attempt[d]
    BY <2>1 DEF Send, Inv, TypeOK
  <2> QED
    BY <2>2 DEF Inv, AnswersAreKept, Value, Send, redis
<1>4. Started'
  BY DEF Send, Inv, TypeOK, Started
<1>5. ReleasesAreLast'
  <2> SUFFICES ASSUME NEW m \in sent', m.op = "release"
               PROVE  \E d \in Clients : m.value = Value(d)' /\ pc'[d] \in {"release", "done"}
    BY DEF ReleasesAreLast
  <2>1. CASE m \in sent
    <3>1. PICK d \in Clients : m.value = Value(d) /\ pc[d] \in {"release", "done"}
      BY <2>1 DEF Inv, ReleasesAreLast
    <3>2. CASE d # c
      <4>1. Value(d)' = Value(d) /\ pc'[d] = pc[d]
        BY <3>2 DEF Send, Inv, TypeOK, Value
      <4> QED
        BY <3>1, <4>1
    <3>3. CASE d = c
      <4>1. op = "release" /\ Value(d)' = Value(d) /\ pc'[d] = "release"
        BY <3>1, <3>3 DEF Send, Inv, TypeOK, Value
      <4> QED
        BY <3>1, <4>1
    <3> QED
      BY <3>2, <3>3
  <2>2. CASE m \notin sent
    <3>1. m.value = <<c, n>> /\ op = "release"
      BY <2>2 DEF Send
    <3>2. Value(c)' = <<c, n>> /\ pc'[c] = "release"
      BY <3>1 DEF Send, Inv, TypeOK, Value
    <3> QED
      BY <3>1, <3>2
  <2> QED
    BY <2>1, <2>2
<1> QED
  BY <1>1, <1>2, <1>3, <1>4, <1>5 DEF Inv

(* A client that reads an answer takes a lease only where Redis has given one. *)
LEMMA SettleKeepsLeases ==
    ASSUME Inv, NEW c \in Clients, NEW s \in {"wait", "held", "done"},
           NEW old \in 0 .. TTL, Settle(c, s, old),
           old < TTL => s = "held" /\ owner = Value(c) /\ ttl >= TTL - old,
           pc[c] \in {"release", "done"} => s = "done",
           pc[c] # "idle"
    PROVE  Inv'
<1>1. TypeOK'
  BY SettleType DEF Inv
<1>2. LeaseIsKept' /\ HoldersHaveTheLock'
  <2> SUFFICES ASSUME NEW d \in Clients, Holds(d)'
               PROVE  /\ owner' = Value(d)' /\ ttl' >= TTL - age'[d]
                      /\ pc'[d] \in {"held", "extend"}
    BY DEF LeaseIsKept, HoldersHaveTheLock
  <2>1. CASE d # c
    <3>1. age'[d] = age[d] /\ pc'[d] = pc[d]
      BY <2>1 DEF Settle, Inv, TypeOK
    <3>2. Holds(d)
      BY <3>1 DEF Holds
    <3> QED
      BY <3>1, <3>2 DEF Inv, LeaseIsKept, HoldersHaveTheLock, Value, Settle, redis
  <2>2. CASE d = c
    <3>1. age'[d] = old /\ pc'[d] = s
      BY <2>2 DEF Settle, Inv, TypeOK
    <3> QED
      BY <2>2, <3>1 DEF Value, Settle, redis, Holds
  <2> QED
    BY <2>1, <2>2
<1>3. AnswersAreKept'
  <2> SUFFICES ASSUME NEW d \in Clients, pc'[d] \in {"setnx", "extend"}, reply'[d] = "yes",
                      since'[d] < TTL
               PROVE  owner' = Value(d)' /\ ttl' >= TTL - since'[d]
    BY DEF AnswersAreKept
  <2>1. d # c
    BY DEF Settle, Inv, TypeOK
  <2>2. since'[d] = since[d] /\ pc'[d] = pc[d] /\ reply'[d] = reply[d]
    BY <2>1 DEF Settle, Inv, TypeOK
  <2> QED
    BY <2>2 DEF Inv, AnswersAreKept, Value, Settle, redis
<1>4. ReleasesAreLast'
  BY DEF Inv, TypeOK, ReleasesAreLast, Settle, Value
<1>5. Started'
  BY DEF Settle, Inv, TypeOK, Started
<1> QED
  BY <1>1, <1>2, <1>3, <1>4, <1>5 DEF Inv

(* Redis gives a lease only where there is none, and ends one only for a      *)
(* client that has sent its Release.                                          *)
LEMMA ExecuteKeepsLeases ==
    ASSUME Inv, NEW m \in sent, Execute(m)
    PROVE  Inv'
<1> DEFINE d == m.value[1]
<1>1. m \in Commands /\ m.value \in Values /\ d \in Clients
  BY DEF Inv, TypeOK, Commands, Values
<1>2. UNCHANGED <<pc, attempt, spare, since, age>> /\ sent' = sent \ {m}
  BY DEF Execute
<1>3. \A c \in Clients : Value(c)' = Value(c) /\ (Holds(c)' <=> Holds(c))
  BY <1>2 DEF Value, Holds
<1>4. \/ m.op = "setnx" /\ SetNX(m.value) /\ Answer(m, owner = None)
      \/ m.op = "extend" /\ Expire(m.value) /\ Answer(m, owner = m.value)
      \/ m.op = "release" /\ Delete(m.value) /\ Answer(m, owner = m.value)
  BY <1>1 DEF Execute, Commands, Calls
<1>5. /\ reply' \in [Clients -> {"none", "yes", "no"}]
      /\ \A c \in Clients : reply'[c] # reply[c] =>
            /\ m = Current(c) /\ c = d
            /\ m.op = "setnx" /\ reply'[c] = "yes" => owner = None
            /\ m.op = "extend" /\ reply'[c] = "yes" => owner = m.value
  <2>1. PICK yes \in BOOLEAN :
            /\ Answer(m, yes)
            /\ m.op = "setnx" /\ yes => owner = None
            /\ m.op = "extend" /\ yes => owner = m.value
    BY <1>4
  <2>2. reply' = IF Waiting(d) /\ m = Current(d)
                 THEN [reply EXCEPT ![d] = IF yes THEN "yes" ELSE "no"] ELSE reply
    BY <2>1 DEF Answer
  <2>3. reply \in [Clients -> {"none", "yes", "no"}]
    BY DEF Inv, TypeOK
  <2> HIDE DEF d
  <2> QED
    BY <1>1, <2>1, <2>2, <2>3
<1>6. owner' \in Values \cup {None} /\ ttl' \in 0 .. TTL /\ (owner' = None <=> ttl' = 0)
  <2>1. owner \in Values \cup {None} /\ ttl \in 0 .. TTL /\ (owner = None <=> ttl = 0)
    BY DEF Inv, TypeOK
  <2>2. TTL \in 0 .. TTL /\ TTL # 0 /\ 0 \in 0 .. TTL
    BY NumbersAssumption
  <2> QED
    BY <1>1, <1>4, <2>1, <2>2, NoneAssumption DEF SetNX, Expire, Delete, redis
<1>7. TypeOK'
  BY <1>2, <1>5, <1>6 DEF Inv, TypeOK
<1>8. HoldersHaveTheLock' /\ ReleasesAreLast' /\ Started'
  BY <1>2, <1>3 DEF Inv, HoldersHaveTheLock, ReleasesAreLast, Started
<1>9. ASSUME NEW c \in Clients, NEW t \in 0 .. TTL - 1, owner = Value(c), ttl >= TTL - t,
             pc[c] \notin {"release", "done"}
      PROVE  owner' = Value(c) /\ ttl' >= TTL - t
  <2>1. owner # None
    BY <1>9, NumbersAssumption DEF Inv, TypeOK
  <2>2. CASE m.op = "release"
    <3>1. PICK e \in Clients : m.value = Value(e) /\ pc[e] \in {"release", "done"}
      BY <2>2 DEF Inv, ReleasesAreLast
    <3>2. m.value # Value(c)
      BY <1>9, <3>1 DEF Value
    <3> QED
      BY <1>4, <1>9, <2>2, <3>2 DEF Delete, redis
  <2>3. CASE m.op # "release"
    BY <1>4, <1>9, <2>1, <2>3, NumbersAssumption DEF SetNX, Expire, redis
  <2> QED
    BY <2>2, <2>3
<1>10. LeaseIsKept'
  <2> SUFFICES ASSUME NEW c \in Clients, Holds(c)
               PROVE  owner' = Value(c) /\ ttl' >= TTL - age[c]
    BY <1>2, <1>3 DEF LeaseIsKept
  <2>1. age[c] \in 0 .. TTL - 1
    BY NumbersAssumption DEF Holds, Inv, TypeOK
  <2>2. owner = Value(c) /\ ttl >= TTL - age[c] /\ pc[c] \notin {"release", "done"}
    BY DEF Inv, LeaseIsKept, HoldersHaveTheLock
  <2> QED
    BY <1>9, <2>1, <2>2
<1>11. AnswersAreKept'
  <2> SUFFICES ASSUME NEW c \in Clients, pc[c] \in {"setnx", "extend"}, reply'[c] = "yes",
                      since[c] < TTL
               PROVE  owner' = Value(c) /\ ttl' >= TTL - since[c]
    BY <1>2, <1>3 DEF AnswersAreKept
  <2>1. since[c] \in 0 .. TTL - 1
    BY NumbersAssumption DEF Inv, TypeOK
  <2>2. CASE reply'[c] = reply[c]
    BY <1>9, <2>1, <2>2 DEF Inv, AnswersAreKept
  <2>3. CASE reply'[c] # reply[c]
    <3>1. m.op = pc[c] /\ m.value = Value(c)
      BY <1>5, <2>3 DEF Current
    <3>2. CASE m.op = "setnx"
      <4>1. owner = None
        BY <1>5, <2>3, <3>2
      <4> QED
        BY <1>4, <2>1, <3>1, <3>2, <4>1, NumbersAssumption DEF SetNX
    <3>3. CASE m.op = "extend"
      <4>1. owner = m.value
        BY <1>5, <2>3, <3>3
      <4> QED
        BY <1>4, <2>1, <3>1, <3>3, <4>1, NumbersAssumption DEF Expire
    <3> QED
      BY <3>1, <3>2, <3>3
  <2> QED
    BY <2>2, <2>3
<1> QED
  BY <1>7, <1>8, <1>10, <1>11 DEF Inv

(* The key and the leases grow old together. *)
LEMMA TickKeepsLeases ==
    ASSUME Inv, Tick
    PROVE  Inv'
<1>1. TypeOK'
  BY NumbersAssumption, NoneAssumption DEF Inv, TypeOK, Tick, Older
<1>2. \A c \in Clients : Value(c)' = Value(c)
  BY DEF Tick, Value
<1>3. ASSUME NEW c \in Clients, NEW t \in 0 .. TTL, NEW u \in 0 .. TTL, u < TTL,
             u = IF t < TTL THEN t + 1 ELSE t,
             t < TTL => owner = Value(c) /\ ttl >= TTL - t
      PROVE  t < TTL /\ owner' = Value(c) /\ ttl' >= TTL - u
  BY <1>3, NumbersAssumption DEF Tick, Inv, TypeOK
<1>4. LeaseIsKept'
  <2> SUFFICES ASSUME NEW c \in Clients, age'[c] < TTL
               PROVE  owner' = Value(c) /\ ttl' >= TTL - age'[c]
    BY <1>2 DEF LeaseIsKept, Holds
  <2>1. age[c] \in 0 .. TTL /\ age'[c] \in 0 .. TTL
    BY <1>1 DEF Inv, TypeOK
  <2>2. age'[c] = IF age[c] < TTL THEN age[c] + 1 ELSE age[c]
    BY DEF Tick, Older
  <2>3. age[c] < TTL => owner = Value(c) /\ ttl >= TTL - age[c]
    BY DEF Inv, LeaseIsKept, Holds
  <2> QED
    BY <1>3, <2>1, <2>2, <2>3
<1>5. AnswersAreKept'
  <2> SUFFICES ASSUME NEW c \in Clients, pc[c] \in {"setnx", "extend"}, reply[c] = "yes",
                      since'[c] < TTL
               PROVE  owner' = Value(c) /\ ttl' >= TTL - since'[c]
    BY <1>2 DEF AnswersAreKept, Tick
  <2>1. since[c] \in 0 .. TTL /\ since'[c] \in 0 .. TTL
    BY <1>1 DEF Inv, TypeOK
  <2>2. since'[c] = IF since[c] < TTL THEN since[c] + 1 ELSE since[c]
    BY DEF Tick, Older
  <2>3. since[c] < TTL => owner = Value(c) /\ ttl >= TTL - since[c]
    BY DEF Inv, AnswersAreKept
  <2> QED
    BY <1>3, <2>1, <2>2, <2>3
<1>6. HoldersHaveTheLock'
  BY NumbersAssumption DEF Inv, TypeOK, HoldersHaveTheLock, Holds, Tick, Older
<1>7. ReleasesAreLast' /\ Started'
  BY DEF Inv, ReleasesAreLast, Started, Tick, Value
<1> QED
  BY <1>1, <1>4, <1>5, <1>6, <1>7 DEF Inv

LEMMA InvInit == Init => Inv
BY NumbersAssumption
   DEF Init, Inv, TypeOK, LeaseIsKept, AnswersAreKept, HoldersHaveTheLock, ReleasesAreLast, Holds, Started

LEMMA InvStep == Inv /\ [Next]_vars => Inv'
<1> SUFFICES ASSUME Inv, [Next]_vars
             PROVE  Inv'
  OBVIOUS
<1>1. ASSUME NEW c \in Clients, Attempt(c)
      PROVE  Inv'
  <2>1. attempt[c] + 1 \in 1 .. MaxRetries /\ spare[c] \in 0 .. Spare
    BY <1>1, NumbersAssumption DEF Attempt, Inv, TypeOK
  <2> QED
    BY <1>1, <2>1, SendKeepsLeases DEF Attempt, Calls
<1>2. ASSUME NEW c \in Clients, Acquired(c)
      PROVE  Inv'
  <2>1. since[c] \in 0 .. TTL
    BY DEF Inv, TypeOK
  <2>2. since[c] < TTL => owner = Value(c) /\ ttl >= TTL - since[c]
    BY <1>2 DEF Acquired, Inv, AnswersAreKept
  <2> QED
    BY <1>2, <2>1, <2>2, SettleKeepsLeases DEF Acquired
<1>3. ASSUME NEW c \in Clients, Missed(c) \/ GiveUp(c) \/ Released(c) \/ Cancel(c)
      PROVE  Inv'
  <2>1. TTL \in 0 .. TTL /\ ~(TTL < TTL)
    BY NumbersAssumption
  <2> QED
    BY <1>3, <2>1, SettleKeepsLeases DEF Missed, GiveUp, Released, Cancel
<1>4. ASSUME NEW c \in Clients, pc[c] = "extend", NEW old \in 0 .. TTL, Settle(c, "held", old),
             old < TTL => owner = Value(c) /\ ttl >= TTL - old
      PROVE  Inv'
  BY <1>4, SettleKeepsLeases
<1>5. ASSUME NEW c \in Clients
      PROVE  age[c] \in 0 .. TTL /\ (age[c] < TTL => owner = Value(c) /\ ttl >= TTL - age[c])
  BY DEF Inv, TypeOK, LeaseIsKept, Holds
<1>6. ASSUME NEW c \in Clients, Extended(c)
      PROVE  Inv'
  <2>1. since[c] \in 0 .. TTL
    BY DEF Inv, TypeOK
  <2>2. reply[c] = "yes" /\ since[c] < TTL => owner = Value(c) /\ ttl >= TTL - since[c]
    BY <1>6 DEF Extended, Inv, AnswersAreKept
  <2> QED
    BY <1>4, <1>5, <1>6, <2>1, <2>2 DEF Extended
<1>7. ASSUME NEW c \in Clients, CallFails(c)
      PROVE  Inv'
  <2>1. CASE pc[c] = "extend"
    BY <1>4, <1>5, <1>7, <2>1 DEF CallFails
  <2>2. CASE pc[c] # "extend"
    <3>1. TTL \in 0 .. TTL /\ ~(TTL < TTL)
      BY NumbersAssumption
    <3> QED
      BY <1>7, <2>2, <3>1, SettleKeepsLeases DEF CallFails, Waiting, Calls
  <2> QED
    BY <2>1, <2>2
<1>8. ASSUME NEW c \in Clients, Extend(c) \/ Release(c) \/ SendAgain(c)
      PROVE  Inv'
  <2>1. CASE Extend(c)
    <3>1. attempt[c] \in 1 .. MaxRetries /\ spare[c] - 1 \in 0 .. Spare
      BY <2>1, NumbersAssumption DEF Extend, Calls, Inv, TypeOK, Started
    <3> QED
      BY <2>1, <3>1, SendKeepsLeases DEF Extend, Calls
  <2>2. CASE Release(c)
    <3>1. attempt[c] \in 1 .. MaxRetries /\ spare[c] \in 0 .. Spare
      BY <2>2, NumbersAssumption DEF Release, Calls, Inv, TypeOK, Started
    <3> QED
      BY <2>2, <3>1, SendKeepsLeases DEF Release, Calls
  <2>3. CASE SendAgain(c)
    <3>1. attempt[c] \in 1 .. MaxRetries /\ spare[c] - 1 \in 0 .. Spare
      BY <2>3, NumbersAssumption DEF SendAgain, Waiting, Calls, Inv, TypeOK, Started
    <3> QED
      BY <2>3, <3>1, SendKeepsLeases DEF SendAgain, Waiting, Calls
  <2> QED
    BY <1>8, <2>1, <2>2, <2>3
<1>9. ASSUME NEW m \in sent, Lose(m)
      PROVE  Inv'
  BY <1>9 DEF Lose, Inv, TypeOK, LeaseIsKept, AnswersAreKept, HoldersHaveTheLock, ReleasesAreLast,
              Holds, Started, Value, redis, client
<1>10. CASE UNCHANGED vars
  BY <1>10 DEF vars, redis, client, Inv, TypeOK, LeaseIsKept, AnswersAreKept, HoldersHaveTheLock,
               ReleasesAreLast, Holds, Started, Value
<1> QED
  BY <1>1, <1>2, <1>3, <1>6, <1>7, <1>8, <1>9, <1>10, ExecuteKeepsLeases, TickKeepsLeases DEF Next

LEMMA InvHolds == Spec => []Inv
BY InvInit, InvStep, PTL DEF Spec

(* Every variable keeps its type. *)
THEOREM LockTypeCorrect == Spec => []TypeOK
<1>1. Inv => TypeOK
  BY DEF Inv
<1> QED
  BY <1>1, InvHolds, PTL

(* Redis keeps a lease as long as its client counts on. *)
THEOREM LeasesAreKept == Spec => []LeaseIsKept
<1>1. Inv => LeaseIsKept
  BY DEF Inv
<1> QED
  BY <1>1, InvHolds, PTL

(* The lock excludes: no two clients are within their leases at once. *)
THEOREM LockExcludes == Spec => []ExclusiveWithinLease
<1>1. Inv => ExclusiveWithinLease
  BY DEF Inv, LeaseIsKept, ExclusiveWithinLease, Value
<1> QED
  BY <1>1, InvHolds, PTL

(* Two clients that both count on a lease would need the key for two values. *)
LEMMA OneHolds == Inv => ExclusiveWithinLease
BY DEF Inv, LeaseIsKept, ExclusiveWithinLease, Value

(* What the client that holds the lock makes of the lease, and no client. *)
LEMMA TheHolder ==
    ASSUME ExclusiveWithinLease, NEW c \in Clients, Holds(c)
    PROVE  Holder = c /\ Left = TTL - age[c]
BY DEF ExclusiveWithinLease, Holder, Left

LEMMA NoHolder ==
    ASSUME \A c \in Clients : ~Holds(c)
    PROVE  Holder = None /\ Left = 0
BY DEF Holder, Left

(* The same for the state after a step. *)
LEMMA TheHolderNext ==
    ASSUME ExclusiveWithinLease', NEW c \in Clients, Holds(c)'
    PROVE  Holder' = c /\ Left' = TTL - age'[c]
BY DEF ExclusiveWithinLease, Holder, Left, Holds

LEMMA NoHolderNext ==
    ASSUME \A c \in Clients : ~Holds(c)'
    PROVE  Holder' = None /\ Left' = 0
BY DEF Holder, Left, Holds

LEMMA SameAges ==
    ASSUME age' = age
    PROVE  UNCHANGED Leases!vars
BY DEF Leases!vars, Holder, Left, Holds

(* A client whose lease becomes as old as given is granted it, gives it back  *)
(* or had none.                                                               *)
LEMMA OneAgeChanges ==
    ASSUME ExclusiveWithinLease, ExclusiveWithinLease', age \in [Clients -> 0 .. TTL],
           NEW c \in Clients, NEW old \in 0 .. TTL, age' = [age EXCEPT ![c] = old]
    PROVE  [Leases!Next]_Leases!vars
<1>1. \A d \in Clients : d # c => (Holds(d)' <=> Holds(d))
  BY DEF Holds
<1>2. age'[c] = old /\ age[c] \in 0 .. TTL
  OBVIOUS
<1>3. CASE old < TTL
  <2>1. Holds(c)'
    BY <1>2, <1>3 DEF Holds
  <2>2. Holder' = c /\ Left' \in 1 .. TTL
    BY <1>2, <1>3, <2>1, TheHolderNext, NumbersAssumption
  <2>3. \A d \in Clients : Holds(d) => d = c
    BY <1>1, <2>1 DEF ExclusiveWithinLease
  <2>4. Holder \in {None, c}
    BY <2>3, TheHolder, NoHolder
  <2> QED
    BY <2>2, <2>4 DEF Leases!Next, Leases!Grant
<1>4. CASE ~(old < TTL) /\ Holds(c)
  <2>1. Holder = c /\ c # None
    BY <1>4, TheHolder, NoneAssumption
  <2>2. \A d \in Clients : ~Holds(d)'
    BY <1>1, <1>2, <1>4 DEF ExclusiveWithinLease, Holds
  <2> QED
    BY <2>1, <2>2, NoHolderNext DEF Leases!Next, Leases!GiveBack
<1>5. CASE ~(old < TTL) /\ ~Holds(c)
  <2>1. age[c] = old
    BY <1>2, <1>5, NumbersAssumption DEF Holds
  <2> QED
    BY <2>1, SameAges
<1> QED
  BY <1>3, <1>4, <1>5

(* A lease passes as its holder's clock does. *)
LEMMA AgesPass ==
    ASSUME ExclusiveWithinLease, ExclusiveWithinLease', age \in [Clients -> 0 .. TTL],
           age' = Older(age)
    PROVE  [Leases!Next]_Leases!vars
<1>1. \A d \in Clients : age[d] \in 0 .. TTL /\ age'[d] = IF age[d] < TTL THEN age[d] + 1 ELSE age[d]
  BY DEF Older
<1>2. CASE \A d \in Clients : ~Holds(d)
  <2>1. \A d \in Clients : ~Holds(d)'
    BY <1>1, <1>2 DEF Holds
  <2> QED
    BY <1>2, <2>1, NoHolder, NoHolderNext DEF Leases!vars
<1>3. ASSUME NEW c \in Clients, Holds(c)
      PROVE  Leases!Pass
  <2>1. age[c] \in 0 .. TTL /\ age[c] < TTL /\ age'[c] = age[c] + 1
    BY <1>1, <1>3 DEF Holds
  <2>2. Holder = c /\ Left = TTL - age[c]
    BY <1>3, TheHolder
  <2>3. \A d \in Clients : Holds(d)' => d = c
    BY <1>1, <1>3 DEF ExclusiveWithinLease, Holds
  <2>4. CASE Left = 1
    <3>1. \A d \in Clients : ~Holds(d)'
      BY <2>1, <2>2, <2>3, <2>4, NumbersAssumption DEF Holds
    <3>2. Holder' = None /\ Left' = 0
      BY <3>1, NoHolderNext
    <3> QED
      BY <2>4, <3>2 DEF Leases!Pass
  <2>5. CASE Left # 1
    <3>1. Holds(c)'
      BY <2>1, <2>2, <2>5, NumbersAssumption DEF Holds
    <3>2. Holder' = c /\ Left' = TTL - age'[c]
      BY <3>1, TheHolderNext
    <3> QED
      BY <2>1, <2>2, <2>5, <3>2, NumbersAssumption DEF Leases!Pass
  <2> QED
    BY <2>4, <2>5
<1> QED
  BY <1>2, <1>3 DEF Leases!Next

LEMMA LeaseInit == Init => Leases!Init
<1> SUFFICES ASSUME Init
             PROVE  Leases!Init
  OBVIOUS
<1>1. \A c \in Clients : age[c] = TTL
  BY DEF Init
<1>2. ~(TTL < TTL)
  BY NumbersAssumption
<1>3. \A c \in Clients : ~Holds(c)
  BY <1>1, <1>2, Zenon DEF Holds
<1> QED
  BY <1>3, NoHolder DEF Leases!Init

LEMMA LeaseStep == Inv /\ Inv' /\ [Next]_vars => [Leases!Next]_Leases!vars
<1> SUFFICES ASSUME Inv, Inv', [Next]_vars
             PROVE  [Leases!Next]_Leases!vars
  OBVIOUS
<1>1. ExclusiveWithinLease /\ ExclusiveWithinLease'
  BY DEF Inv, LeaseIsKept, ExclusiveWithinLease, Holds, Value
<1>2. age \in [Clients -> 0 .. TTL] /\ since \in [Clients -> 0 .. TTL] /\ TTL \in 0 .. TTL
  BY NumbersAssumption DEF Inv, TypeOK
<1>3. ASSUME NEW c \in Clients, NEW s, NEW old \in 0 .. TTL, Settle(c, s, old)
      PROVE  [Leases!Next]_Leases!vars
  BY <1>1, <1>2, <1>3, OneAgeChanges DEF Settle
<1>4. ASSUME NEW c \in Clients, NEW op, NEW n, NEW more, Send(c, op, n, more)
      PROVE  [Leases!Next]_Leases!vars
  <2>1. PICK old \in 0 .. TTL : age' = [age EXCEPT ![c] = old]
    BY <1>2, <1>4 DEF Send
  <2> QED
    BY <1>1, <1>2, <2>1, OneAgeChanges
<1>5. ASSUME NEW c \in Clients, Attempt(c) \/ Extend(c) \/ Release(c) \/ SendAgain(c)
      PROVE  [Leases!Next]_Leases!vars
  BY <1>4, <1>5 DEF Attempt, Extend, Release, SendAgain
<1>6. ASSUME NEW c \in Clients,
             \/ Acquired(c) \/ Missed(c) \/ GiveUp(c) \/ Released(c) \/ Cancel(c)
             \/ Extended(c) \/ CallFails(c)
      PROVE  [Leases!Next]_Leases!vars
  <2>1. since[c] \in 0 .. TTL /\ age[c] \in 0 .. TTL
    BY <1>2
  <2> QED
    BY <1>2, <1>3, <1>6, <2>1
       DEF Acquired, Missed, GiveUp, Released, Cancel, Extended, CallFails
<1>7. ASSUME NEW m \in sent, Execute(m) \/ Lose(m)
      PROVE  [Leases!Next]_Leases!vars
  BY <1>7, SameAges DEF Execute, Lose, client
<1>8. CASE Tick
  BY <1>1, <1>2, <1>8, AgesPass DEF Tick
<1>9. CASE UNCHANGED vars
  BY <1>9, SameAges DEF vars, client
<1> QED
  BY <1>5, <1>6, <1>7, <1>8, <1>9 DEF Next

(* The lock implements a lease: every step of clients, network and Redis is a *)
(* step of the lease or none.                                                 *)
THEOREM LockImplementsLease == Spec => IsALease
BY InvHolds, LeaseInit, LeaseStep, PTL DEF Spec, IsALease, Leases!Spec
=============================================================================
