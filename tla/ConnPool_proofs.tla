--------------------------- MODULE ConnPool_proofs ---------------------------
(***************************************************************************)
(* Proofs about the client pool of the agent, for any number of            *)
(* goroutines, database names and clients.                                 *)
(***************************************************************************)
EXTENDS ConnPool, TLAPS

Critical == {"recheck", "close", "create", "test"}

\* Only the holder of the write lock is between Lock and Unlock.
WriterIsCritical == \A p \in Proc : pc[p] \in Critical <=> writer = p

\* What the holder of the write lock knows about the entry it works on.
WriterKnowsEntry ==
  \A p \in Proc :
    /\ pc[p] = "close" => pool[arg[p]] # None
    /\ pc[p] \in {"create", "test"} => pool[arg[p]] = None
    /\ pc[p] = "test" => /\ cur[p] \in open /\ \A d \in DB : pool[d] # cur[p]
                         /\ \A r \in Proc : cur[r] = cur[p] => r = p
                         /\ arg[p] \notin UnknownDB

\* A goroutine that has not looked yet has no client.
HasNoneYet ==
  \A p \in Proc : pc[p] \in {"idle", "rlock", "lookup"} => cur[p] = None

\* No client is pooled under two names.
OneNamePerClient == \A d, e \in DB : d # e /\ pool[d] = pool[e] => pool[d] = None

\* The lock is in the hands of those who are at the statements it guards.
LockIsUsed ==
  /\ readers = {p \in Proc : pc[p] = "lookup"}
  /\ pending = {p \in Proc : pc[p] = "wait"}
  /\ writer # None => readers = {}

IInv ==
  /\ TypeOK
  /\ LockIsUsed
  /\ WriterIsCritical
  /\ WriterKnowsEntry
  /\ HasNoneYet
  /\ OneNamePerClient
  /\ NoLeakedClient
  /\ NoDeadEntry

USE ConnPoolAssumption

\* The invariant holds of the empty pool.
LEMMA InitIInv == Init => IInv
  BY DEF Init, IInv, TypeOK, Label, LockIsUsed, WriterIsCritical, Critical, WriterKnowsEntry,
         HasNoneYet, OneNamePerClient, NoLeakedClient, NoDeadEntry

\* Every step of Connect, and Redis coming and going, preserves it.
LEMMA NextIInv == IInv /\ [Next]_vars => IInv'
<1> SUFFICES ASSUME IInv, [Next]_vars PROVE IInv'
  OBVIOUS
<1> USE DEF IInv, TypeOK, Label, LockIsUsed, WriterIsCritical, Critical, WriterKnowsEntry,
            HasNoneYet, OneNamePerClient, NoLeakedClient, NoDeadEntry, Goto, lock
<1>1. CASE RedisFlips
  BY <1>1 DEF RedisFlips
<1>2. ASSUME NEW p \in Proc, Call(p) PROVE IInv'
  BY <1>2 DEF Call
<1>3. ASSUME NEW p \in Proc, RLock(p) PROVE IInv'
  BY <1>3 DEF RLock
<1>4. ASSUME NEW p \in Proc, Lookup(p) PROVE IInv'
  BY <1>4 DEF Lookup
<1>5. ASSUME NEW p \in Proc, Ping(p) PROVE IInv'
  BY <1>5 DEF Ping
<1>6. ASSUME NEW p \in Proc, Lock(p) PROVE IInv'
  BY <1>6 DEF Lock
<1>7. ASSUME NEW p \in Proc, Acquire(p) PROVE IInv'
  BY <1>7 DEF Acquire
<1>8. ASSUME NEW p \in Proc, Recheck(p) PROVE IInv'
  BY <1>8 DEF Recheck, UnlockAndReturn
<1>9. ASSUME NEW p \in Proc, CloseDead(p) PROVE IInv'
  BY <1>9 DEF CloseDead, UnlockAndReturn
<1>10. ASSUME NEW p \in Proc, Create(p) PROVE IInv'
  BY <1>10 DEF Create, UnlockAndReturn, Referenced, HasID
<1>11. ASSUME NEW p \in Proc, Test(p) PROVE IInv'
  BY <1>11 DEF Test, UnlockAndReturn, PingOK
<1>12. ASSUME NEW p \in Proc, Finish(p) PROVE IInv'
  BY <1>12 DEF Finish
<1>13. CASE UNCHANGED vars
  BY <1>13 DEF vars
<1>14. QED
  BY <1>1, <1>2, <1>3, <1>4, <1>5, <1>6, <1>7, <1>8, <1>9, <1>10, <1>11,
     <1>12, <1>13 DEF Next, Connect

\* The inductive invariant of the pool.
THEOREM PoolInvariant == Spec => []IInv
<1>1. QED
  BY InitIInv, NextIInv, PTL DEF Spec

\* The variables of the pool keep their types in every run.
THEOREM PoolTypeOK == Spec => []TypeOK
<1>1. IInv => TypeOK
  BY DEF IInv
<1>2. QED
  BY <1>1, PoolInvariant, PTL

\* Connect leaks no open client, however many goroutines miss or find a dead
\* client at the same time and whether or not Close fails.
THEOREM PoolNoLeakedClient == Spec => []NoLeakedClient
<1>1. IInv => NoLeakedClient
  BY DEF IInv
<1>2. QED
  BY <1>1, PoolInvariant, PTL

\* Where Close works, Connect never leaves a closed client in the pool; a Close
\* that fails spoils no other name.
THEOREM PoolNoDeadEntry == Spec => []NoDeadEntry
<1>1. IInv => NoDeadEntry
  BY DEF IInv
<1>2. QED
  BY <1>1, PoolInvariant, PTL

\* However many goroutines wait for the lock, one of those in Connect can go on.
THEOREM PoolNeverStuck == Spec => []NoStuckCall
<1>1. IInv => NoStuckCall
  <2> SUFFICES ASSUME IInv, NEW p \in Proc, pc[p] # "idle",
                      \A r \in Proc : ~CanGoOn(r)
               PROVE  FALSE
    BY DEF NoStuckCall
  <2>1. \A r \in Proc : pc[r] \in {"idle", "rlock", "wait"}
    BY DEF CanGoOn, IInv, TypeOK
  <2>2. writer = None /\ readers = {}
    BY <2>1 DEF IInv, TypeOK, LockIsUsed, WriterIsCritical, Critical
  <2>3. \A r \in Proc : pc[r] # "wait"
    BY <2>2 DEF CanGoOn
  <2>4. pending = {}
    BY <2>3 DEF IInv, LockIsUsed
  <2>5. QED
    BY <2>1, <2>2, <2>3, <2>4 DEF CanGoOn
<1>2. QED
  BY <1>1, PoolInvariant, PTL
=============================================================================
