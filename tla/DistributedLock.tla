--------------------------- MODULE DistributedLock ---------------------------
(***************************************************************************)
(* The lock of internal/infrastructure/redis/distributed_lock.go, call by  *)
(* call: clients that acquire with retries, extend and release, go-redis,  *)
(* which sends a command again when no answer comes, the network, where    *)
(* commands and answers are late or lost, and Redis, which executes one    *)
(* command at a time and lets keys expire.  Keys do not touch each other,  *)
(* so there is one.                                                        *)
(***************************************************************************)
EXTENDS Naturals

CONSTANTS
    Clients,     \* the calls of AcquireLockWithRetry and what follows each
    TTL,         \* the lock's time to live, in ticks
    MaxRetries,  \* attempts of one call
    Spare,       \* bound on what a client sends again or sends to extend
    None         \* no key in Redis

ASSUME NumbersAssumption == TTL \in Nat \ {0} /\ MaxRetries \in Nat \ {0} /\ Spare \in Nat

(* A value is made anew for each attempt, a uuid in the code. *)
Values   == Clients \X (1 .. MaxRetries)
Calls    == {"setnx", "extend", "release"}
Commands == [op : Calls, value : Values, nr : 0 .. Spare]

ASSUME NoneAssumption == None \notin Values /\ None \notin Clients

VARIABLES
    owner,      \* the value under the key
    ttl,        \* how long the key has to live
    sent,       \* the commands on their way to Redis, late ones among them
    pc,         \* what each client is at
    attempt,    \* its attempts at the lock
    spare,      \* what it may still send again; numbers its commands
    reply,      \* Redis's answer to the command it sent last
    since,      \* the time since it sent that
    age         \* of one that has the lock, the time since it sent the command
                \* that got it its lease; TTL when that is over or there is none

redis  == <<owner, ttl>>
client == <<pc, attempt, spare, reply, since, age>>
vars   == <<redis, sent, client>>

Value(c)   == <<c, attempt[c]>>
Waiting(c) == pc[c] \in Calls

(* The client has a lease that by its own clock, started at the sending, is   *)
(* not over.                                                                  *)
Holds(c) == age[c] < TTL

(* The command a client waits for an answer to. *)
Current(c) == [op |-> pc[c], value |-> Value(c), nr |-> spare[c]]

(* c sends a command for its attempt n, with what it may then still send, *)
Send(c, op, n, left) ==
    /\ sent' = sent \cup {[op |-> op, value |-> <<c, n>>, nr |-> left]}
    /\ pc' = [pc EXCEPT ![c] = op]
    /\ attempt' = [attempt EXCEPT ![c] = n]
    /\ spare' = [spare EXCEPT ![c] = left]
    /\ reply' = [reply EXCEPT ![c] = "none"]
    /\ since' = [since EXCEPT ![c] = 0]
    /\ age' = [age EXCEPT ![c] = IF op = "extend" THEN @ ELSE TTL]
    /\ UNCHANGED redis

(* ... and is done with it, its lease being as old as given. *)
Settle(c, s, old) ==
    /\ pc' = [pc EXCEPT ![c] = s]
    /\ reply' = [reply EXCEPT ![c] = "none"]
    /\ since' = [since EXCEPT ![c] = TTL]
    /\ age' = [age EXCEPT ![c] = old]
    /\ UNCHANGED <<redis, sent, attempt, spare>>

-----------------------------------------------------------------------------
(* AcquireLockWithRetry: SetNX with a new value, *)
Attempt(c) ==
    /\ pc[c] \in {"idle", "wait"}
    /\ attempt[c] < MaxRetries
    /\ Send(c, "setnx", attempt[c] + 1, spare[c])

(* ... which wins, *)
MutantAcquired(c) ==            \* ok is not looked at
    /\ pc[c] = "setnx" /\ reply[c] # "none"
    /\ Settle(c, "held", since[c])

Acquired(c) ==
    /\ pc[c] = "setnx" /\ reply[c] = "yes"
    /\ Settle(c, "held", since[c])

(* ... or loses: wait for the delay, *)
Missed(c) ==
    /\ pc[c] = "setnx" /\ reply[c] = "no"
    /\ Settle(c, "wait", TTL)

(* ... and give up after the last one. *)
MutantGiveUp(c) ==              \* one attempt too many is waited for
    /\ pc[c] = "wait" /\ attempt[c] > MaxRetries
    /\ Settle(c, "done", TTL)

GiveUp(c) ==
    /\ pc[c] = "wait" /\ attempt[c] = MaxRetries
    /\ Settle(c, "done", TTL)

Extend(c) ==
    /\ pc[c] = "held" /\ spare[c] > 0
    /\ Send(c, "extend", attempt[c], spare[c] - 1)

(* ErrLockNotOwned leaves the caller with the lease it had. *)
Extended(c) ==
    /\ pc[c] = "extend" /\ reply[c] # "none"
    /\ Settle(c, "held", IF reply[c] = "yes" THEN since[c] ELSE age[c])

Release(c) ==
    /\ pc[c] = "held"
    /\ Send(c, "release", attempt[c], spare[c])

Released(c) ==
    /\ pc[c] = "release" /\ reply[c] # "none"
    /\ Settle(c, "done", TTL)

(* go-redis gets no answer in time and sends the command again on another    *)
(* connection; the first one may still arrive.                               *)
SendAgain(c) ==
    /\ Waiting(c) /\ spare[c] > 0
    /\ Send(c, pc[c], attempt[c], spare[c] - 1)

(* It reports the error: an acquire and a release end with it, an extend     *)
(* leaves the lease as it was.                                               *)
CallFails(c) ==
    /\ Waiting(c)
    /\ IF pc[c] = "extend" THEN Settle(c, "held", age[c]) ELSE Settle(c, "done", TTL)

(* The context is cancelled, so that Release sends nothing, or the server dies. *)
Cancel(c) ==
    /\ pc[c] \notin {"idle", "done"}
    /\ Settle(c, "done", TTL)

-----------------------------------------------------------------------------
(* Redis executes a command; only the one sent last is answered to anybody.  *)

Answer(m, yes) ==
    LET c == m.value[1] IN
    reply' = IF Waiting(c) /\ m = Current(c)
             THEN [reply EXCEPT ![c] = IF yes THEN "yes" ELSE "no"] ELSE reply

SetNX(v) ==
    IF owner = None THEN owner' = v /\ ttl' = TTL ELSE UNCHANGED redis

MutantExpire(v) == UNCHANGED owner /\ ttl' = TTL       \* PEXPIRE without the comparison

Expire(v) ==
    IF owner = v THEN UNCHANGED owner /\ ttl' = TTL ELSE UNCHANGED redis

MutantDelete(v) == owner' = None /\ ttl' = 0           \* DEL without the comparison

Delete(v) ==
    IF owner = v THEN owner' = None /\ ttl' = 0 ELSE UNCHANGED redis

Execute(m) ==
    /\ m \in sent
    /\ sent' = sent \ {m}
    /\ CASE m.op = "setnx"   -> SetNX(m.value)  /\ Answer(m, owner = None)
         [] m.op = "extend"  -> Expire(m.value) /\ Answer(m, owner = m.value)
         [] m.op = "release" -> Delete(m.value) /\ Answer(m, owner = m.value)
    /\ UNCHANGED <<pc, attempt, spare, since, age>>

Lose(m) ==
    /\ m \in sent
    /\ sent' = sent \ {m}
    /\ UNCHANGED <<redis, client>>

(* Time passes for everybody; a client stops counting when its lease is over. *)
Older(t) == [c \in Clients |-> IF t[c] < TTL THEN t[c] + 1 ELSE t[c]]

MutantTick ==                   \* a key without a TTL
    /\ since' = Older(since)
    /\ age' = Older(age)
    /\ UNCHANGED <<redis, sent, pc, attempt, spare, reply>>

Tick ==
    /\ ttl' = IF ttl > 0 THEN ttl - 1 ELSE 0
    /\ owner' = IF ttl > 1 THEN owner ELSE None
    /\ since' = Older(since)
    /\ age' = Older(age)
    /\ UNCHANGED <<sent, pc, attempt, spare, reply>>

-----------------------------------------------------------------------------
Init ==
    /\ owner = None /\ ttl = 0
    /\ sent = {}
    /\ pc = [c \in Clients |-> "idle"]
    /\ attempt = [c \in Clients |-> 0]
    /\ spare = [c \in Clients |-> Spare]
    /\ reply = [c \in Clients |-> "none"]
    /\ since = [c \in Clients |-> TTL]
    /\ age = [c \in Clients |-> TTL]

Progress(c) ==
    \/ pc[c] # "idle" /\ Attempt(c)
    \/ Acquired(c) \/ Missed(c) \/ GiveUp(c)
    \/ Extended(c) \/ Released(c) \/ CallFails(c)

Next ==
    \/ \E c \in Clients :
        \/ Attempt(c) \/ Acquired(c) \/ Missed(c) \/ GiveUp(c)
        \/ Extend(c) \/ Extended(c) \/ Release(c) \/ Released(c)
        \/ SendAgain(c) \/ CallFails(c) \/ Cancel(c)
    \/ \E m \in sent : Execute(m) \/ Lose(m)
    \/ Tick

Spec == Init /\ [][Next]_vars

(* Calls end, with an answer or an error, the work done under a lock is      *)
(* finite, time passes and commands do not stay on their way forever.        *)
Fairness ==
    /\ \A c \in Clients : WF_vars(Progress(c)) /\ SF_vars(Release(c))
    /\ WF_vars(\E m \in sent : Execute(m) \/ Lose(m))
    /\ WF_vars(Tick)

FairSpec == Spec /\ Fairness

-----------------------------------------------------------------------------
(* Every variable keeps its type; the key is there as long as it has to live. *)
TypeOK ==
    /\ owner \in Values \cup {None}
    /\ ttl \in 0 .. TTL
    /\ owner = None <=> ttl = 0
    /\ sent \subseteq Commands
    /\ pc \in [Clients -> Calls \cup {"idle", "wait", "held", "done"}]
    /\ attempt \in [Clients -> 0 .. MaxRetries]
    /\ spare \in [Clients -> 0 .. Spare]
    /\ reply \in [Clients -> {"none", "yes", "no"}]
    /\ since \in [Clients -> 0 .. TTL]
    /\ age \in [Clients -> 0 .. TTL]

(* Two clients never hold the lock at once, each counting its TTL from when   *)
(* it sent the command that got it the lock, however late, doubled or lost    *)
(* commands and answers are.                                                  *)
ExclusiveWithinLease == \A c, d \in Clients : Holds(c) /\ Holds(d) => c = d

(* Redis keeps a lease at least as long as its client counts on: neither a    *)
(* late command of another client nor an old one of its own ends it early.    *)
LeaseIsKept == \A c \in Clients : Holds(c) => owner = Value(c) /\ ttl >= TTL - age[c]

(* The lease its holder counts on, and what is left of it by that clock. *)
Holder == IF \E c \in Clients : Holds(c) THEN CHOOSE c \in Clients : Holds(c) ELSE None
Left   == IF \E c \in Clients : Holds(c) THEN TTL - age[Holder] ELSE 0

Leases == INSTANCE Lease WITH holder <- Holder, left <- Left

(* The lock is a lease, step by step: it never passes from one client to       *)
(* another, begins only when nobody counts on it, and an answer that comes     *)
(* late, or to an extend, never makes it longer than its TTL.                  *)
IsALease == Leases!Spec

(* An acquire returns, with the lock or without. *)
AcquireReturns == \A c \in Clients : pc[c] \in {"setnx", "wait"} ~> pc[c] \in {"held", "done"}

(* The key is not left to anyone for good: not to a client that crashed, nor  *)
(* to one that was told it did not get it although it did.                    *)
LockIsFreed == \A c \in Clients : owner # None /\ owner[1] = c ~> owner = None \/ owner[1] # c
=============================================================================
