------------------------------ MODULE ConnPool ------------------------------
(***************************************************************************)
(* SonicAgent.Connect (internal/agent/sonic/sonic_agent.go): the pool of   *)
(* Redis clients, one per database name, that every handler of the agent   *)
(* goes through.  A call looks the client up under the read lock, pings it *)
(* with no lock held, and falls back to the write lock to look again,      *)
(* close a dead client and put a new one in its place.                     *)
(*                                                                         *)
(* sync.RWMutex is modelled as Go implements it: a goroutine that waits    *)
(* for the write lock keeps new readers out.  A redis.Client is external;  *)
(* Ping succeeds on an open client while Redis answers, and Close of a     *)
(* closed client is an error.                                              *)
(***************************************************************************)
EXTENDS FiniteSets

CONSTANTS Proc,         \* goroutines that call Connect
          DB,           \* database names they pass
          UnknownDB,    \* the names getRedisDBIDByName maps to -1
          Client,       \* identities for redis.Client values
          None          \* no client, no writer

ASSUME ConnPoolAssumption ==
  /\ UnknownDB \subseteq DB
  /\ None \notin Proc \cup Client

VARIABLES pool,     \* m.clientPool: database name -> client or None
          open,     \* clients created and not yet closed
          readers,  \* goroutines holding poolMutex for reading
          writer,   \* goroutine holding poolMutex for writing, or None
          pending,  \* goroutines waiting in poolMutex.Lock
          pc,       \* where each goroutine is in Connect
          arg,      \* dbName of the call
          cur,      \* the client the goroutine has at hand
          redisUp,  \* Redis answers (environment)
          broken    \* history: names for which Close has reported an error

vars == <<pool, open, readers, writer, pending, pc, arg, cur, redisUp, broken>>
lock == <<readers, writer, pending>>

Label == {"idle", "rlock", "lookup", "ping", "lock", "wait", "recheck",
          "close", "create", "test", "done", "failed"}

\* Type invariant: the pool maps the names of databases to clients, and no name
\* that getRedisDBIDByName does not know ever gets one (sonic_agent.go:137-140).
TypeOK ==
  /\ pool \in [DB -> Client \cup {None}]
  /\ \A d \in UnknownDB : pool[d] = None
  /\ open \subseteq Client
  /\ readers \subseteq Proc
  /\ writer \in Proc \cup {None}
  /\ pending \subseteq Proc
  /\ pc \in [Proc -> Label]
  /\ arg \in [Proc -> DB]
  /\ cur \in [Proc -> Client \cup {None}]
  /\ redisUp \in BOOLEAN
  /\ broken \subseteq DB

Init ==
  /\ pool = [d \in DB |-> None]
  /\ open = {}
  /\ readers = {} /\ writer = None /\ pending = {}
  /\ pc = [p \in Proc |-> "idle"]
  /\ arg \in [Proc -> DB]
  /\ cur = [p \in Proc |-> None]
  /\ redisUp = TRUE
  /\ broken = {}

PingOK(c) == c \in open /\ redisUp

\* getRedisDBIDByName knows the database.
HasID(d) == d \notin UnknownDB

Referenced == {pool[d] : d \in DB} \cup {cur[p] : p \in Proc}

Goto(p, label) == pc' = [pc EXCEPT ![p] = label]

\* The deferred poolMutex.Unlock together with the return that triggers it.
UnlockAndReturn(p, label) ==
  /\ writer' = None
  /\ Goto(p, label)
  /\ UNCHANGED <<readers, pending>>

Call(p) ==
  /\ pc[p] = "idle"
  /\ \E d \in DB : arg' = [arg EXCEPT ![p] = d]
  /\ Goto(p, "rlock")
  /\ UNCHANGED <<pool, open, readers, writer, pending, cur, redisUp, broken>>

RLock(p) ==
  /\ pc[p] = "rlock"
  /\ writer = None /\ pending = {}
  /\ readers' = readers \cup {p}
  /\ Goto(p, "lookup")
  /\ UNCHANGED <<pool, open, writer, pending, arg, cur, redisUp, broken>>

Lookup(p) ==
  /\ pc[p] = "lookup"
  /\ cur' = [cur EXCEPT ![p] = pool[arg[p]]]
  /\ readers' = readers \ {p}
  /\ Goto(p, IF pool[arg[p]] = None THEN "lock" ELSE "ping")
  /\ UNCHANGED <<pool, open, writer, pending, arg, redisUp, broken>>

\* Mutant: a dead client is looked up again instead of being replaced.
PingRetries(p) ==
  /\ pc[p] = "ping"
  /\ Goto(p, IF PingOK(cur[p]) THEN "done" ELSE "rlock")
  /\ UNCHANGED <<pool, open, lock, arg, cur, redisUp, broken>>

Ping(p) ==
  /\ pc[p] = "ping"
  /\ Goto(p, IF PingOK(cur[p]) THEN "done" ELSE "lock")
  /\ UNCHANGED <<pool, open, lock, arg, cur, redisUp, broken>>

Lock(p) ==
  /\ pc[p] = "lock"
  /\ pending' = pending \cup {p}
  /\ cur' = [cur EXCEPT ![p] = None]
  /\ Goto(p, "wait")
  /\ UNCHANGED <<pool, open, readers, writer, arg, redisUp, broken>>

Acquire(p) ==
  /\ pc[p] = "wait"
  /\ writer = None /\ readers = {}
  /\ writer' = p
  /\ pending' = pending \ {p}
  /\ Goto(p, "recheck")
  /\ UNCHANGED <<pool, open, readers, arg, cur, redisUp, broken>>

\* Mutant: no second look under the write lock.
RecheckSkipped(p) ==
  /\ pc[p] = "recheck"
  /\ Goto(p, "create")
  /\ UNCHANGED <<pool, open, lock, arg, cur, redisUp, broken>>

Recheck(p) ==
  LET c == pool[arg[p]] IN
  /\ pc[p] = "recheck"
  /\ \/ /\ c = None
        /\ Goto(p, "create")
        /\ UNCHANGED <<lock, cur>>
     \/ /\ c # None /\ PingOK(c)
        /\ cur' = [cur EXCEPT ![p] = c]
        /\ UnlockAndReturn(p, "done")
     \/ /\ c # None /\ ~PingOK(c)
        /\ Goto(p, "close")
        /\ UNCHANGED <<lock, cur>>
  /\ UNCHANGED <<pool, open, arg, redisUp, broken>>

\* Mutant: the dead client is closed, and replaced without the delete.
CloseWithoutDelete(p) ==
  /\ pc[p] = "close"
  /\ open' = open \ {pool[arg[p]]}
  /\ Goto(p, "create")
  /\ UNCHANGED <<pool, lock, arg, cur, redisUp, broken>>

\* Close marks the client closed even when it reports an error; the error
\* return leaves the entry in the pool.
CloseDead(p) ==
  LET c == pool[arg[p]] IN
  /\ pc[p] = "close"
  /\ open' = open \ {c}
  /\ \/ /\ c \in open
        /\ pool' = [pool EXCEPT ![arg[p]] = None]
        /\ Goto(p, "create")
        /\ UNCHANGED <<lock, broken>>
     \/ /\ broken' = broken \cup {arg[p]}
        /\ UnlockAndReturn(p, "failed")
        /\ UNCHANGED pool
  /\ UNCHANGED <<arg, cur, redisUp>>

\* Mutant: the unknown-name return without the deferred unlock.
CreateKeepsLock(p) ==
  /\ pc[p] = "create"
  /\ \/ /\ ~HasID(arg[p])
        /\ Goto(p, "failed")
        /\ UNCHANGED <<open, cur>>
     \/ /\ HasID(arg[p])
        /\ \E c \in Client \ (open \cup Referenced) :
             /\ open' = open \cup {c}
             /\ cur' = [cur EXCEPT ![p] = c]
        /\ Goto(p, "test")
  /\ UNCHANGED <<pool, lock, arg, redisUp, broken>>

\* Mutant: -1 is passed on as the number of a database.
CreateUnchecked(p) ==
  /\ pc[p] = "create"
  /\ \E c \in Client \ (open \cup Referenced) :
       /\ open' = open \cup {c}
       /\ cur' = [cur EXCEPT ![p] = c]
  /\ Goto(p, "test")
  /\ UNCHANGED <<pool, lock, arg, redisUp, broken>>

\* A new client takes an identity nobody refers to any more.
Create(p) ==
  /\ pc[p] = "create"
  /\ \/ /\ ~HasID(arg[p])
        /\ UnlockAndReturn(p, "failed")
        /\ UNCHANGED <<open, cur>>
     \/ /\ HasID(arg[p])
        /\ \E c \in Client \ (open \cup Referenced) :
             /\ open' = open \cup {c}
             /\ cur' = [cur EXCEPT ![p] = c]
        /\ Goto(p, "test")
        /\ UNCHANGED lock
  /\ UNCHANGED <<pool, arg, redisUp, broken>>

\* Mutant: the result of the first Ping is tested the wrong way round.
TestInverted(p) ==
  /\ pc[p] = "test"
  /\ \/ /\ ~PingOK(cur[p])
        /\ pool' = [pool EXCEPT ![arg[p]] = cur[p]]
        /\ UnlockAndReturn(p, "done")
        /\ UNCHANGED <<open, cur>>
     \/ /\ PingOK(cur[p])
        /\ open' = open \ {cur[p]}
        /\ cur' = [cur EXCEPT ![p] = None]
        /\ UnlockAndReturn(p, "failed")
        /\ UNCHANGED pool
  /\ UNCHANGED <<arg, redisUp, broken>>

Test(p) ==
  /\ pc[p] = "test"
  /\ \/ /\ PingOK(cur[p])
        /\ pool' = [pool EXCEPT ![arg[p]] = cur[p]]
        /\ UnlockAndReturn(p, "done")
        /\ UNCHANGED <<open, cur>>
     \/ /\ ~PingOK(cur[p])
        /\ open' = open \ {cur[p]}
        /\ cur' = [cur EXCEPT ![p] = None]
        /\ UnlockAndReturn(p, "failed")
        /\ UNCHANGED pool
  /\ UNCHANGED <<arg, redisUp, broken>>

\* The handler is through with the client, or has reported the error.
Finish(p) ==
  /\ pc[p] \in {"done", "failed"}
  /\ cur' = [cur EXCEPT ![p] = None]
  /\ Goto(p, "idle")
  /\ UNCHANGED <<pool, open, lock, arg, redisUp, broken>>

Connect(p) ==
  \/ RLock(p) \/ Lookup(p) \/ Ping(p) \/ Lock(p) \/ Acquire(p)
  \/ Recheck(p) \/ CloseDead(p) \/ Create(p) \/ Test(p)

RedisFlips ==
  /\ redisUp' = ~redisUp
  /\ UNCHANGED <<pool, open, lock, pc, arg, cur, broken>>

Next == RedisFlips \/ \E p \in Proc : Call(p) \/ Connect(p) \/ Finish(p)

Spec == Init /\ [][Next]_vars

\* Goroutines keep running, Ping and Close return (they have timeouts), and
\* sync.RWMutex starves neither readers nor writers.
Fairness ==
  \A p \in Proc :
    /\ WF_vars(Lookup(p) \/ Ping(p) \/ Lock(p) \/ Recheck(p) \/ CloseDead(p)
               \/ Create(p) \/ Test(p))
    /\ SF_vars(RLock(p)) /\ SF_vars(Acquire(p))
    /\ WF_vars(Finish(p))

FairSpec == Spec /\ Fairness

-----------------------------------------------------------------------------
\* No client is leaked, and none is used for another database: a client that is
\* open is in the pool under the name that everyone who has it at hand asked
\* for, or is the one the holder of the write lock has just created.  It takes
\* the second look under the write lock (sonic_agent.go:123-127) for this to
\* hold when two goroutines miss at the same time; that one of them has a client
\* from the pool while another replaces it (sonic_agent.go:112) does no harm.
NoLeakedClient ==
  \A c \in open :
    \/ \E d \in DB : pool[d] = c /\ \A p \in Proc : cur[p] = c => arg[p] = d
    \/ \E p \in Proc : pc[p] = "test" /\ cur[p] = c

\* Where Close works, the pool never keeps a closed client: a goroutine that
\* finds a dead client removes it in the critical section that closes it
\* (sonic_agent.go:128-132), so no later call can be handed a closed one.
NoDeadEntry == \A d \in DB \ broken : pool[d] # None => pool[d] \in open

\* The goroutine's next step does not wait for another one's.
CanGoOn(p) ==
  \/ pc[p] \in Label \ {"idle", "rlock", "wait"}
  \/ pc[p] = "rlock" /\ writer = None /\ pending = {}
  \/ pc[p] = "wait" /\ writer = None /\ readers = {}

\* Goroutines in Connect never all wait for one another, or for a lock that a
\* call which has returned still holds: every way out of Connect gives back the
\* lock it took (sonic_agent.go:109, 116 and the deferred Unlock at 121).
NoStuckCall ==
  (\E p \in Proc : pc[p] # "idle") => \E p \in Proc : CanGoOn(p)

\* Every call of Connect returns: the lock is released on every path.
CallsReturn ==
  \A p \in Proc : pc[p] = "rlock" ~> pc[p] \in {"done", "failed"}

\* Once Redis answers for good, calls for known databases stop failing: the
\* pool repairs itself, except under a name for which Close has failed.
Recovers ==
  <>[]redisUp =>
    \A p \in Proc : <>[](pc[p] = "failed" => arg[p] \in UnknownDB \cup broken)

\* "Close the dead connection" (sonic_agent.go:128), and a new one takes its
\* place: the same without the exception.  A failing Close leaves the closed
\* client in the pool, and every later call fails to close it again.
RecoversAlways ==
  <>[]redisUp => \A p \in Proc : <>[](pc[p] = "failed" => arg[p] \in UnknownDB)
=============================================================================
