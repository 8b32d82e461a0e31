---------------------------- MODULE DBSync_proofs ----------------------------
(***************************************************************************)
(* Proofs about DBSync, for every set of keys and every number of faults   *)
(* and interfering writes, and about the single commands of DBAccessor,    *)
(* for every set of numbers callers use.                                   *)
(***************************************************************************)
EXTENDS DBAccessor, TLAPS

\* What a call has achieved: it need not look again at a key that was as
\* desired at some time in the call.
Progress ==
  /\ pc = "scan" => found \cap left = {}
  /\ pc = "scan" => \A k \in Key \ left :
       \/ k \notin found /\ desired[k] = "none"
       \/ k \in found /\ desired[k] = "NULL"
       => k \in met
  /\ pc = "remove" => \A k \in Key :
       /\ k \in todo => desired[k] = "none"
       /\ desired[k] = "none" => k \in todo \cup met
       /\ k \in found /\ desired[k] = "NULL" => k \in met
  /\ pc = "write" => \A k \in Key : k \in todo \cup met

\* The history misses nothing.
MetIsComplete == pc # "idle" => Matching \subseteq met

\* No call is under way whose argument was refused.
NoneBad == pc # "idle" => \A k \in Key : desired[k] # "bad"

\* An entry that was as desired still is, unless somebody else has written it.
MetIsKept == pc # "idle" => met \subseteq Matching \cup theirs

IInv == TypeOK /\ NoneBad /\ MetIsComplete /\ Progress /\ EachEntryMet /\ MetIsKept

\* The invariant holds before the first call.
LEMMA SyncInit == Init => IInv
  BY DBSyncAssumption DEF Init, IInv, TypeOK, NoneBad, MetIsComplete, Progress,
                          EachEntryMet, MetIsKept

-----------------------------------------------------------------------------
\* The effect of one command on the types.
LEMMA WriteTypes ==
  ASSUME TypeOK, NEW k \in Key, NEW v \in Entry(op), Write(k, v)
  PROVE  TypeOK'
<1>1. op' = op /\ meddles' = meddles /\ met' \subseteq Key /\ theirs' = theirs
  BY DEF Write, TypeOK, Matching
<1>2. table' \in [Key -> Entry(op)]
  BY DEF Write, TypeOK
<1>3. desired' = desired /\ left' = left /\ found' = found /\ todo' \subseteq Key
  BY DEF Write, Return, TypeOK
<1>4. pc' \in {pc, "idle"} /\ res' \in {res, "error"} /\ faults' \in 0..MaxFaults
  BY DBSyncAssumption DEF Write, Return, Fault, TypeOK
<1> QED BY <1>1, <1>2, <1>3, <1>4 DEF TypeOK

\* A call starts with a well-typed argument, validated or not.
LEMMA CallTypes == TypeOK /\ Call => TypeOK'
<1> SUFFICES ASSUME TypeOK, Call PROVE TypeOK'
  OBVIOUS
<1>1. op' = op /\ table' = table /\ faults' = faults /\ meddles' = meddles
      /\ met' \subseteq Key /\ theirs' = {}
  BY DEF Call, Matching
<1>2. desired' \in [Key -> Entry(op) \cup {"bad"}]
  BY DEF Call, Arguments
<1>3. pc' \in {pc, "scan"} /\ res' \in {"error", "none"}
      /\ left' \in {left, Key} /\ found' \in {found, {}} /\ todo' \in {todo, {}}
  BY DEF Call
<1> QED BY <1>1, <1>2, <1>3 DEF TypeOK

\* Every command of a Sync, and those of others, preserves the types.
LEMMA SyncTypes == TypeOK /\ NoneBad /\ [Next]_vars => TypeOK'
<1> SUFFICES ASSUME TypeOK, NoneBad, [Next]_vars PROVE TypeOK'
  OBVIOUS
<1>1. CASE Call
  BY <1>1, CallTypes
<1>2. CASE ScanKeys
  <2>1. CASE Fault /\ Return("error") /\ UNCHANGED <<op, table, meddles, met, theirs>>
    BY <2>1, DBSyncAssumption DEF Fault, Return, TypeOK
  <2>2. CASE ~(Fault /\ Return("error"))
    BY <1>2, <2>2 DEF ScanKeys, TypeOK
  <2> QED BY <1>2, <2>1, <2>2 DEF ScanKeys
<1>3. CASE Listed
  BY <1>3 DEF Listed, TypeOK
<1>e. ASSUME Return("error"), UNCHANGED <<op, table, faults, meddles, met, theirs>>
      PROVE  TypeOK'
  BY <1>e DEF Return, TypeOK
<1>4. CASE Remove
  <2>1. PICK k \in todo : Put(k, "none")
    BY <1>4 DEF Remove
  <2> QED BY <1>e, <2>1, WriteTypes DEF Put, TypeOK, Entry
<1>5. CASE Removed
  BY <1>5 DEF Removed, ToWrite, TypeOK
<1>6. CASE Add
  <2>1. PICK k \in todo : Put(k, desired[k])
    BY <1>6 DEF Add
  <2>2. k \in Key /\ desired[k] \in Entry(op)
    BY <1>6 DEF Add, NoneBad, TypeOK
  <2> QED BY <1>e, <2>1, <2>2, WriteTypes DEF Put
<1>7. CASE Done
  BY <1>7 DEF Done, Return, TypeOK
<1>8. ASSUME NEW k \in Key, NEW v \in Entry(op), Meddle(k, v) PROVE TypeOK'
  BY <1>8, DBSyncAssumption DEF Meddle, Matching, call, TypeOK
<1>9. CASE UNCHANGED vars
  BY <1>9 DEF vars, call, TypeOK
<1> QED BY <1>1, <1>2, <1>3, <1>4, <1>5, <1>6, <1>7, <1>8, <1>9 DEF Next

\* One command of a call puts an entry to where it is desired.
LEMMA WriteKeeps ==
  ASSUME IInv, pc \in {"remove", "write"}, NEW k \in todo,
         Put(k, desired[k])
  PROVE  IInv'
<1> USE DEF IInv
<1>0. CASE k \in Foreign
  <2>1. Return("error") /\ UNCHANGED <<op, table, faults, meddles, met, theirs>>
    BY <1>0 DEF Put
  <2> QED BY <2>1 DEF Return, TypeOK, NoneBad, MetIsComplete, Progress, EachEntryMet,
                     MetIsKept
<1> SUFFICES ASSUME k \notin Foreign PROVE IInv'
  BY <1>0
<1>w. Write(k, desired[k])
  BY DEF Put
<1>1. k \in Key /\ desired[k] \in Entry(op)
  BY DEF TypeOK, NoneBad
<1>2. TypeOK'
  BY <1>w, <1>1, WriteTypes
<1>3. desired' = desired /\ found' = found /\ op' = op
      /\ table' \in {table, [table EXCEPT ![k] = desired[k]]}
      /\ met' = met \cup Matching' /\ theirs' = theirs
  BY <1>w DEF Write, Return
<1>4. CASE pc' = "idle" /\ res' = "error"
  BY <1>2, <1>4 DEF NoneBad, MetIsComplete, Progress, EachEntryMet, MetIsKept
<1>5. CASE /\ table' = [table EXCEPT ![k] = desired[k]] /\ todo' = todo \ {k}
           /\ pc' = pc /\ res' = res /\ left' = left
  <2>1. Matching' = Matching \cup {k}
    BY <1>1, <1>3, <1>5 DEF Matching, TypeOK
  <2>2. NoneBad'
    BY <1>3, <1>5 DEF NoneBad
  <2>3. MetIsComplete' /\ MetIsKept'
    BY <1>3, <1>5, <2>1 DEF MetIsComplete, MetIsKept
  <2>4. Progress'
    BY <1>3, <1>5, <2>1 DEF Progress
  <2>5. EachEntryMet'
    BY <1>5 DEF EachEntryMet
  <2> QED BY <1>2, <2>2, <2>3, <2>4, <2>5
<1> QED BY <1>w, <1>4, <1>5 DEF Write, Return

\* Every command of a Sync, and those of others, preserves the invariant.
LEMMA SyncNext == IInv /\ [Next]_vars => IInv'
<1> SUFFICES ASSUME IInv, [Next]_vars PROVE IInv'
  OBVIOUS
<1> USE DEF IInv
<1>0. TypeOK'
  BY SyncTypes
<1>1. CASE Call
  <2>1. Progress' /\ EachEntryMet' /\ MetIsComplete' /\ MetIsKept'
    BY <1>1 DEF Call, Progress, EachEntryMet, MetIsComplete, MetIsKept
  <2>2. NoneBad'
    BY <1>1 DEF Call, NoneBad
  <2> QED BY <1>0, <2>1, <2>2
<1>2. CASE ScanKeys
  <2>1. CASE Return("error")
    BY <1>0, <2>1 DEF Return, Progress, EachEntryMet, MetIsComplete, MetIsKept,
                      NoneBad
  <2>2. CASE UNCHANGED <<op, table, desired, pc, res, met, theirs>>
             /\ \E B \in SUBSET left :
                  /\ left' = left \ B
                  /\ found' = found \cup {k \in B : table[k] # "none"}
    <3>1. PICK B \in SUBSET left :
            left' = left \ B /\ found' = found \cup {k \in B : table[k] # "none"}
      BY <2>2
    <3>2. pc = "scan" /\ pc' = "scan"
      BY <1>2, <2>2 DEF ScanKeys
    <3>3. ASSUME NEW k \in B,
                 \/ k \notin found' /\ desired[k] = "none"
                 \/ k \in found' /\ desired[k] = "NULL"
          PROVE  k \in met
      BY <3>1, <3>2, <3>3 DEF Progress, TypeOK, Entry, Modes, MetIsComplete, Matching
    <3>4. Progress'
      BY <2>2, <3>1, <3>2, <3>3 DEF Progress
    <3>5. NoneBad'
      BY <2>2, <3>1, <3>2 DEF NoneBad, TypeOK
    <3>6. EachEntryMet' /\ MetIsComplete' /\ MetIsKept'
      BY <2>2 DEF EachEntryMet, MetIsComplete, MetIsKept, Matching
    <3> QED BY <1>0, <3>4, <3>5, <3>6
  <2> QED BY <1>2, <2>1, <2>2 DEF ScanKeys
<1>3. CASE Listed
  BY <1>0, <1>3 DEF Listed, Progress, EachEntryMet, MetIsComplete, MetIsKept,
                    NoneBad, Matching
<1>4. CASE Remove
  BY <1>4, WriteKeeps DEF Remove, Progress, TypeOK
<1>5. CASE Removed
  <2>1. \A k \in Key : k \in ToWrite \cup met
    BY <1>5 DEF Removed, ToWrite, Progress, TypeOK, Entry, Modes, NoneBad
  <2> QED BY <1>0, <1>5, <2>1 DEF Removed, Progress, EachEntryMet, MetIsComplete,
                                  MetIsKept, NoneBad, Matching
<1>6. CASE Add
  BY <1>6, WriteKeeps DEF Add
<1>7. CASE Done
  BY <1>0, <1>7, Zenon DEF Done, Return, Progress, EachEntryMet, MetIsComplete, MetIsKept,
                    NoneBad, TypeOK
<1>8. ASSUME NEW k \in Key, NEW v \in Entry(op), Meddle(k, v) PROVE IInv'
  <2>1. UNCHANGED <<op, desired, pc, res, left, found, todo>>
        /\ met' = met \cup Matching' /\ theirs' = theirs \cup {k}
        /\ Matching \subseteq Matching' \cup {k}
    BY <1>8 DEF Meddle, Matching, call, TypeOK
  <2>2. Progress' /\ EachEntryMet' /\ MetIsComplete' /\ MetIsKept'
    BY <1>0, <2>1 DEF Progress, EachEntryMet, MetIsComplete, MetIsKept, TypeOK
  <2>3. NoneBad'
    BY <2>1 DEF NoneBad
  <2> QED BY <1>0, <2>2, <2>3
<1>9. CASE UNCHANGED vars
  BY <1>0, <1>9 DEF vars, call, Progress, EachEntryMet, MetIsComplete, MetIsKept,
                    NoneBad, Matching
<1> QED BY <1>1, <1>2, <1>3, <1>4, <1>5, <1>6, <1>7, <1>8, <1>9 DEF Next

\* The inductive invariant of both Sync operations.
THEOREM SyncInvariant == Spec => []IInv
  BY SyncInit, SyncNext, PTL DEF Spec

\* Only entries that validate are ever written.
THEOREM SyncTypeOK == Spec => []TypeOK
<1>1. IInv => TypeOK
  BY DEF IInv
<1> QED BY <1>1, SyncInvariant, PTL

\* A Sync that succeeds has brought every entry to where it is desired at some
\* time in the call, whatever other callers wrote meanwhile.
THEOREM SyncEachEntryMet == Spec => []EachEntryMet
<1>1. IInv => EachEntryMet
  BY DEF IInv
<1> QED BY <1>1, SyncInvariant, PTL

-----------------------------------------------------------------------------
\* Every step is a step of the promise.
LEMMA GoalIsTable == TypeOK => Goal \in Promise!Tables
<1> SUFFICES ASSUME TypeOK, NEW k \in Key PROVE
      (IF desired[k] = "bad" THEN "none" ELSE desired[k])
        \in {"none", "tagged", "untagged", "NULL"}
  BY DEF Goal, Promise!Tables
<1> QED BY DEF TypeOK, Entry, Modes

\* The table before the first call is an initial state of SyncSpec.
LEMMA PromiseInit == Init => Promise!Init
<1> SUFFICES ASSUME Init PROVE Promise!Init
  OBVIOUS
<1>1. TypeOK
  BY SyncInit DEF IInv
<1>2. table \in Promise!Tables
  BY <1>1 DEF TypeOK, Entry, Modes, Promise!Tables
<1> QED BY <1>1, <1>2, GoalIsTable DEF Init, Promise!Init

\* A command that removes or writes an entry is a Write or a Fail of SyncSpec.
LEMMA PromiseWrite ==
  ASSUME IInv, pc # "idle", NEW k \in todo, Put(k, desired[k])
  PROVE  Promise!Write \/ Promise!Fail
<1>0. CASE k \in Foreign
  BY <1>0 DEF Put, Return, Goal, Promise!Fail
<1> SUFFICES ASSUME k \notin Foreign PROVE Promise!Write \/ Promise!Fail
  BY <1>0
<1>w. Write(k, desired[k])
  BY DEF Put
<1>1. k \in Key /\ Goal[k] = desired[k]
  BY DEF IInv, TypeOK, NoneBad, Goal
<1>2. Goal' = Goal /\ theirs' = theirs
  BY <1>w DEF Write, Return, Goal
<1>3. table' = table \/ Promise!Move
  BY <1>w, <1>1 DEF Write, Promise!Move
<1>4. CASE pc' = "idle" /\ res' = "error"
  BY <1>2, <1>3, <1>4 DEF Promise!Fail
<1>5. CASE /\ table' = [table EXCEPT ![k] = desired[k]]
           /\ pc' = pc /\ res' = res
  BY <1>1, <1>2, <1>5, Zenon DEF Promise!Write, Promise!Move
<1> QED BY <1>w, <1>4, <1>5 DEF Write, Return

\* Every step of a Sync is a step of SyncSpec or changes nothing there.
LEMMA PromiseNext ==
  ASSUME IInv, IInv', [Next]_vars
  PROVE  [Promise!Next]_(Promise!vars)
<1>1. Goal' \in Promise!Tables
  BY GoalIsTable DEF IInv, TypeOK, Goal, Promise!Tables, Entry, Modes
<1>2. CASE Call
  <2>1. CASE pc' = "idle" /\ pc = "idle" /\ res' = "error" /\ table' = table
             /\ theirs' = {}
    BY <1>1, <2>1 DEF Promise!Reject, Promise!Next
  <2>2. CASE pc' = "scan" /\ pc = "idle" /\ res' = "none" /\ table' = table
             /\ theirs' = {}
    BY <1>1, <2>2 DEF Promise!Begin, Promise!Next
  <2> QED BY <1>2, <2>1, <2>2 DEF Call
<1>3. ASSUME pc # "idle", Return("error"), UNCHANGED <<table, theirs>> PROVE Promise!Next
  BY <1>3 DEF Return, Goal, Promise!Fail, Promise!Next
<1>4. ASSUME UNCHANGED <<table, desired, res, theirs>>, (pc' # "idle") = (pc # "idle")
      PROVE  UNCHANGED Promise!vars
  BY <1>4 DEF Goal, Promise!vars
<1>5. CASE ScanKeys \/ Listed \/ Removed
  <2>1. \/ UNCHANGED <<table, desired, res, theirs>> /\ pc' # "idle" /\ pc # "idle"
        \/ pc # "idle" /\ Return("error") /\ UNCHANGED <<table, theirs>>
    BY <1>5 DEF ScanKeys, Listed, Removed
  <2> QED BY <1>3, <1>4, <2>1
<1>6. CASE Remove
  BY <1>6, PromiseWrite DEF Remove, IInv, Progress, TypeOK, Promise!Next
<1>7. CASE Add
  BY <1>7, PromiseWrite DEF Add, Promise!Next
<1>8. CASE Done
  <2>1. \A k \in Key \ theirs : table[k] = desired[k]
    BY <1>8 DEF Done, IInv, Progress, MetIsKept, Matching
  <2>2. \A k \in Key \ theirs : table[k] = Goal[k]
    BY <2>1 DEF IInv, TypeOK, Entry, Modes, Goal
  <2> QED BY <1>8, <2>2 DEF Done, Return, Goal, Promise!Succeed, Promise!Next
<1>9. ASSUME NEW k \in Key, NEW v \in Entry(op), Meddle(k, v) PROVE Promise!Meddle
  <2>1. v \in {"none", "tagged", "untagged", "NULL"}
    BY DEF Entry, Modes
  <2>2. table' = [table EXCEPT ![k] = v] /\ theirs' = theirs \cup {k}
        /\ UNCHANGED <<desired, pc, res>>
    BY <1>9 DEF Meddle, call
  <2> QED BY <2>1, <2>2, Zenon DEF Goal, Promise!Meddle
<1>10. CASE UNCHANGED vars
  BY <1>4, <1>10 DEF vars, call
<1> QED BY <1>2, <1>5, <1>6, <1>7, <1>8, <1>9, <1>10 DEF Next, Promise!Next

\* SyncPortVLANs and SyncIPAddresses implement their promise, for every set of
\* entries and every number of faults and of writes by others.
THEOREM SyncImplementsPromise == Spec => Implements
<1>1. IInv /\ IInv' /\ [Next]_vars => [Promise!Next]_(Promise!vars)
  BY PromiseNext
<1> QED BY <1>1, PromiseInit, SyncInvariant, PTL DEF Spec, Implements, Promise!Spec
-----------------------------------------------------------------------------
\* Why a listing is real: a port that has been there all along is yet to be
\* visited, yet to be read, or in the answer with its fields.
ListInv ==
  /\ ListTypeOK
  /\ lpc \in {"scan", "read"} => always \subseteq ports /\ ports \subseteq ever
  /\ always \subseteq unseen \cup keys \cup listed
  /\ lpc \in {"read", "ok"} => unseen = {}
  /\ lpc = "ok" => keys = {}
  /\ lists = "ListPortNames" /\ lpc \in {"scan", "read"} => listed = {}
  /\ keys \cup listed \cup blank \subseteq ever
  /\ blank \cap always = {}

\* Every step of a listing, and of SONiC, preserves it.
LEMMA ListStep == ListInv /\ [ListNext]_listing => ListInv'
<1> SUFFICES ASSUME ListInv, [ListNext]_listing PROVE ListInv'
  OBVIOUS
<1> USE DEF ListInv, ListTypeOK
<1>1. CASE ListStart
  BY <1>1, SMT DEF ListStart
<1>2. CASE ListScan
  <2>1. PICK B \in SUBSET unseen :
          /\ unseen' = unseen \ B /\ keys' = keys \cup (B \cap ports)
          /\ lpc' = IF unseen' = {} THEN "read" ELSE "scan"
    BY <1>2, Zenon DEF ListScan
  <2>2. lpc = "scan" /\ UNCHANGED <<lists, ports, listed, blank, always, ever>>
    BY <1>2, Zenon DEF ListScan
  <2>3. always \subseteq ports /\ ports \subseteq ever
    BY <2>2, SMT
  <2>4. QED
    BY <2>1, <2>2, <2>3, SMT
<1>3. CASE ListRead
  <2>1. PICK k \in keys :
          /\ keys' = keys \ {k}
          /\ listed' = listed \cup ({k} \cap ports) /\ blank' = blank \cup ({k} \ ports)
    BY <1>3, Zenon DEF ListRead
  <2>2. /\ lpc = "read" /\ lists = "ListPortTableEntries"
        /\ UNCHANGED <<lists, ports, lpc, unseen, always, ever>>
    BY <1>3, Zenon DEF ListRead
  <2>3. QED
    BY <2>1, <2>2, SMT
<1>4. CASE ListDone
  BY <1>4, SMT DEF ListDone
<1>5. CASE ListFails
  BY <1>5, SMT DEF ListFails, answer
<1>6. CASE PortChanges
  <2>1. PICK k \in PortName : ports' = (ports \ {k}) \cup ({k} \ ports)
    BY <1>6, Zenon DEF PortChanges
  <2>2. UNCHANGED <<lists, lpc, unseen, keys, listed, blank>>
    BY <1>6, Zenon DEF PortChanges, answer
  <2>3. CASE lpc \in {"scan", "read"}
    <3>1. always' = always \cap ports' /\ ever' = ever \cup ports'
      BY <1>6, <2>3, Zenon DEF PortChanges
    <3>2. QED
      BY <2>1, <2>2, <3>1, SMT
  <2>4. CASE lpc \notin {"scan", "read"}
    <3>1. UNCHANGED <<always, ever>>
      BY <1>6, <2>4, Zenon DEF PortChanges
    <3>2. QED
      BY <2>1, <2>2, <2>4, <3>1, SMT
  <2>5. QED
    BY <2>3, <2>4, Zenon
<1>7. CASE UNCHANGED listing
  BY <1>7, SMT DEF listing, answer
<1>8. QED
  BY <1>1, <1>2, <1>3, <1>4, <1>5, <1>6, <1>7, Zenon DEF ListNext

\* Nothing is listed before the first call.
LEMMA ListInitInv == ListInit => ListInv
  BY SMT DEF ListInit, ListInv, ListTypeOK

\* What it gives when a listing has succeeded.
LEMMA ListReal == ListInv => ListedIsReal
  BY SMT DEF ListInv, ListTypeOK, ListedIsReal

\* The field by which a hash that was ensured goes on existing, whatever other
\* fields come and go.
Mark(h) == IF h[1] = "VLAN" THEN "vlanid" ELSE "NULL"
Marked == \A h \in ensured : Mark(h) \in db[h]

\* A vlanid only ever goes into the hash of a VLAN there can be.
MayHold(h, F) == "vlanid" \in F => h[1] = "VLAN" /\ h[2] \in VlanIds

AccessorInv == CommandTypeOK /\ ListInv /\ Marked

\* The limits, which the operations state by comparisons, as sets.
LEMMA VlanOfValid == \A i \in Int : ValidVlan(i) => i \in VlanIds
<1> TAKE i \in Int
<1> HAVE ValidVlan(i)
<1> DEFINE lo == 1
           hi == 4094
<1>1. VlanIds = lo..hi
  BY DEF VlanIds
<1>2. lo \in Int /\ hi \in Int /\ lo <= i /\ i <= hi
  BY DEF ValidVlan
<1> HIDE DEF lo, hi
<1>3. QED
  BY <1>1, <1>2

\* The other way round.
LEMMA ValidOfVlan == \A i \in VlanIds : ValidVlan(i)
<1> DEFINE lo == 1
           hi == 4094
<1>1. VlanIds = lo..hi
  BY DEF VlanIds
<1> TAKE i \in VlanIds
<1>2. lo \in Int /\ hi \in Int
  OBVIOUS
<1>3. ASSUME i \in Int, lo <= i, i <= hi PROVE ValidVlan(i)
  BY <1>3 DEF ValidVlan
<1> HIDE DEF lo, hi
<1>4. i \in Int /\ lo <= i /\ i <= hi
  BY <1>1, <1>2
<1>5. QED
  BY <1>3, <1>4

\* The limits of SetMTU.
LEMMA MTULimits == \A m \in Int : ~(m < 68 \/ m > 9216) => m \in MTUs
<1> TAKE m \in Int
<1> HAVE ~(m < 68 \/ m > 9216)
<1> DEFINE lo == 68
           hi == 9216
<1>1. MTUs = lo..hi
  BY DEF MTUs
<1>2. lo \in Int /\ hi \in Int /\ lo <= m /\ m <= hi
  OBVIOUS
<1> HIDE DEF lo, hi
<1>3. QED
  BY <1>1, <1>2

\* What SetMTU and SetSpeed write to the numbers of a port.
LEMMA MTUKept ==
  ASSUME num \in Numbers, NEW m \in MTUs, num' = [num EXCEPT !["mtu"] = m]
  PROVE  num' \in Numbers
  BY SMT DEF Numbers

\* The same for a speed.
LEMMA SpeedKept ==
  ASSUME num \in Numbers, NEW m \in Nat \ {0}, num' = [num EXCEPT !["speed"] = m]
  PROVE  num' \in Numbers
<1> DEFINE S == Nat \ {0}
<1>1. num \in [mtu : MTUs, speed : S] /\ m \in S
  BY DEF Numbers
<1> HIDE DEF S
<1>2. num' \in [mtu : MTUs, speed : S]
  BY <1>1, SMT
<1>3. QED
  BY <1>2 DEF S, Numbers

\* A switch as installed: nothing is ensured yet.
LEMMA AccessorInitInv == AccessorInit => AccessorInv
<1> SUFFICES ASSUME AccessorInit PROVE AccessorInv
  OBVIOUS
<1>1. db \in [Hashes -> SUBSET Fields] /\ \A h \in Hashes : "vlanid" \notin db[h]
  BY DEF AccessorInit, Fields
<1>2. about \in {"sync", "listing", "commands"} /\ ListInv /\ ListTypeOK
  BY ListInitInv, Zenon DEF AccessorInit, ListInv
<1>3. num \in Numbers
  BY SMTT(60) DEF AccessorInit, Installed, Numbers, MTUs
<1>4. QED
  BY <1>1, <1>2, <1>3 DEF AccessorInit, AccessorInv, CommandTypeOK, Marked

\* Fields are added to a hash.
LEMMA HSetKeeps ==
  ASSUME AccessorInv, NEW h \in Hashes, NEW F \in SUBSET Fields, HSet(h, F),
         MayHold(h, F)
  PROVE  /\ db' \in [Hashes -> SUBSET Fields]
         /\ \A g \in Hashes : db[g] \subseteq db'[g]
         /\ F \subseteq db'[h]
         /\ \A g \in Hashes : "vlanid" \in db'[g] => g[1] = "VLAN" /\ g[2] \in VlanIds
<1>1. db \in [Hashes -> SUBSET Fields]
  BY DEF AccessorInv, CommandTypeOK
<1>2. db' = [db EXCEPT ![h] = @ \cup F]
  BY DEF HSet
<1>3. \A g \in Hashes : db'[g] = IF g = h THEN db[g] \cup F ELSE db[g]
  BY <1>1, <1>2, Zenon
<1>4. db' \in [Hashes -> SUBSET Fields]
  BY <1>1, <1>2
<1>5. ASSUME NEW g \in Hashes, "vlanid" \in db'[g]
      PROVE  g[1] = "VLAN" /\ g[2] \in VlanIds
  <2>1. CASE "vlanid" \in db[g]
    BY <2>1, Zenon DEF AccessorInv, CommandTypeOK
  <2>2. CASE g = h /\ "vlanid" \in F
    BY <2>2, Zenon DEF MayHold
  <2>3. QED
    BY <1>3, <1>5, <2>1, <2>2, Zenon
<1>6. QED
  BY <1>3, <1>4, <1>5, Zenon

\* Fields are taken out of a hash.
LEMMA HDelKeeps ==
  ASSUME AccessorInv, NEW h \in Hashes, NEW F, HDel(h, F)
  PROVE  /\ db' \in [Hashes -> SUBSET Fields]
         /\ \A g \in Hashes : db'[g] = IF g = h THEN db[g] \ F ELSE db[g]
         /\ \A g \in Hashes : "vlanid" \in db'[g] => g[1] = "VLAN" /\ g[2] \in VlanIds
<1>1. db \in [Hashes -> SUBSET Fields]
  BY DEF AccessorInv, CommandTypeOK
<1>2. db' = [db EXCEPT ![h] = @ \ F]
  BY DEF HDel
<1>3. \A g \in Hashes : db'[g] = IF g = h THEN db[g] \ F ELSE db[g]
  BY <1>1, <1>2, Zenon
<1>4. db' \in [Hashes -> SUBSET Fields]
  BY <1>1, <1>2
<1>5. \A g \in Hashes : "vlanid" \in db'[g] => "vlanid" \in db[g]
  BY <1>3, Zenon
<1>6. QED
  BY <1>3, <1>4, <1>5, Zenon DEF AccessorInv, CommandTypeOK

\* An entry is ensured: the fields written include its mark.
LEMMA EnsureStep ==
  ASSUME AccessorInv, UNCHANGED about, ListInv', ListTypeOK',
         NEW h \in Hashes, NEW F \in SUBSET Fields, Ensure(h, F), MayHold(h, F), Mark(h) \in F
  PROVE  AccessorInv'
<1>1. HSet(h, F) /\ UNCHANGED num /\ ensured' \subseteq ensured \cup {h}
  BY Zenon DEF Ensure
<1>2. ensured \subseteq Hashes /\ Marked
  BY Zenon DEF AccessorInv, CommandTypeOK
<1>3. Marked'
  BY <1>1, <1>2, HSetKeeps, Zenon DEF Marked, Mark
<1>4. CommandTypeOK'
  <2>1. ensured' \subseteq Hashes
    BY <1>1, <1>2, Zenon
  <2>2. QED
    BY <1>1, <2>1, HSetKeeps, Zenon DEF AccessorInv, CommandTypeOK
<1>5. QED
  BY <1>3, <1>4, Zenon DEF AccessorInv

\* A hash is deleted, and is no longer one that was ensured.
LEMMA DelStep ==
  ASSUME AccessorInv, UNCHANGED about, ListInv', ListTypeOK',
         NEW h \in Hashes, Del(h)
  PROVE  AccessorInv'
<1>1. HDel(h, Fields) /\ UNCHANGED num /\ ensured' = ensured \ {h}
  BY Zenon DEF Del
<1>2. ensured \subseteq Hashes /\ Marked
  BY Zenon DEF AccessorInv, CommandTypeOK
<1>3. Marked'
  BY <1>1, <1>2, HDelKeeps, Zenon DEF Marked, Mark
<1>4. CommandTypeOK'
  BY <1>1, <1>2, HDelKeeps, Zenon DEF AccessorInv, CommandTypeOK
<1>5. QED
  BY <1>3, <1>4, Zenon DEF AccessorInv

\* A field other than the marks is written.
LEMMA SetStep ==
  ASSUME AccessorInv, UNCHANGED <<about, ensured>>, ListInv', ListTypeOK',
         NEW h \in Hashes, NEW f \in Fields \ {"vlanid"}, HSet(h, {f}),
         num' \in Numbers
  PROVE  AccessorInv'
<1>1. MayHold(h, {f}) /\ {f} \in SUBSET Fields
  BY Zenon DEF MayHold
<1>2. ensured \subseteq Hashes /\ Marked
  BY Zenon DEF AccessorInv, CommandTypeOK
<1>3. Marked'
  BY <1>1, <1>2, HSetKeeps, Zenon DEF Marked, Mark
<1>4. CommandTypeOK'
  BY <1>1, HSetKeeps, Zenon DEF AccessorInv, CommandTypeOK
<1>5. QED
  BY <1>3, <1>4, Zenon DEF AccessorInv

\* DeleteDHCPRelay takes out no mark.
LEMMA DeleteDHCPRelayStep ==
  ASSUME AccessorInv, UNCHANGED about, ListInv', ListTypeOK',
         NEW id \in VlanId, DeleteDHCPRelay(id)
  PROVE  AccessorInv'
<1> DEFINE h == <<"VLAN", id>>
<1>1. h \in Hashes
  BY DEF Hashes
<1>2. HDel(h, {"dhcp_servers@"}) /\ UNCHANGED <<num, ensured>>
  BY Zenon DEF DeleteDHCPRelay
<1>3. ensured \subseteq Hashes /\ Marked
  BY Zenon DEF AccessorInv, CommandTypeOK
<1> HIDE DEF h
<1>4. Marked'
  <2>1. \A g \in Hashes : db'[g] = IF g = h THEN db[g] \ {"dhcp_servers@"} ELSE db[g]
    BY <1>1, <1>2, HDelKeeps, Zenon
  <2>2. \A g : Mark(g) # "dhcp_servers@"
    BY SMT DEF Mark
  <2>3. \A g \in Hashes : Mark(g) \in db[g] => Mark(g) \in db'[g]
    BY <2>1, <2>2, Zenon
  <2>4. QED
    BY <1>2, <1>3, <2>3, Zenon DEF Marked, Mark
<1>5. CommandTypeOK'
  BY <1>1, <1>2, HDelKeeps, Zenon DEF AccessorInv, CommandTypeOK
<1>6. QED
  BY <1>4, <1>5, Zenon DEF AccessorInv

\* One case for each operation.
LEMMA CommandStep ==
  ASSUME AccessorInv, UNCHANGED about, ListInv', ListTypeOK', Command
  PROVE  AccessorInv'
<1>1. num \in Numbers
  BY Zenon DEF AccessorInv, CommandTypeOK
<1>2. Port \in Hashes /\ Loopback \in Hashes /\ Device \in Hashes
  BY Zenon DEF Hashes
<1>3. ASSUME NEW id \in VlanId, ValidVlan(id)
      PROVE  id \in VlanIds
  <2>1. id \in Int
    BY DBAccessorAssumption
  <2>2. QED
    BY <1>3, <2>1, VlanOfValid, Zenon
<1>4. \A id \in VlanId : <<"VLAN", id>> \in Hashes /\ <<"VLAN_INTERFACE", id>> \in Hashes
  BY DEF Hashes
<1>5. ASSUME NEW id \in VlanId, EnsureVLAN(id)
      PROVE  AccessorInv'
  <2> DEFINE h == <<"VLAN", id>>
  <2>1. Ensure(h, {"vlanid"}) /\ id \in VlanIds
    BY <1>3, <1>5, Zenon DEF EnsureVLAN
  <2>2. MayHold(h, {"vlanid"}) /\ Mark(h) \in {"vlanid"} /\ {"vlanid"} \in SUBSET Fields
    BY <2>1 DEF MayHold, Mark, Fields
  <2>3. h \in Hashes
    BY <1>4, Zenon
  <2> HIDE DEF h
  <2>4. QED
    BY <2>1, <2>2, <2>3, EnsureStep, Zenon
<1>6. ASSUME NEW id \in VlanId, EnsureVLANInterface(id)
      PROVE  AccessorInv'
  <2> DEFINE h == <<"VLAN_INTERFACE", id>>
  <2>1. PICK F \in {{}, {"vrf_name"}} : Ensure(h, {"NULL"} \cup F)
    BY <1>6, Zenon DEF EnsureVLANInterface
  <2> DEFINE G == {"NULL"} \cup F
  <2>2. MayHold(h, G) /\ Mark(h) \in G /\ G \in SUBSET Fields
    BY DEF MayHold, Mark, Fields
  <2>3. h \in Hashes /\ Ensure(h, G)
    BY <1>4, <2>1, Zenon
  <2> HIDE DEF h, G
  <2>4. QED
    BY <2>2, <2>3, EnsureStep, Zenon
<1>7. CASE EnsureLoopback
  <2>1. MayHold(Loopback, {"NULL"}) /\ Mark(Loopback) \in {"NULL"}
        /\ {"NULL"} \in SUBSET Fields
    BY DEF MayHold, Mark, Loopback, Fields
  <2>2. QED
    BY <1>2, <1>7, <2>1, EnsureStep, Zenon DEF EnsureLoopback
<1>8. ASSUME NEW id \in VlanId, DeleteVLAN(id) \/ DeleteVLANInterface(id)
      PROVE  AccessorInv'
  BY <1>4, <1>8, DelStep, Zenon DEF DeleteVLAN, DeleteVLANInterface
<1>9. CASE DeleteLoopback
  BY <1>2, <1>9, DelStep, Zenon DEF DeleteLoopback
<1>10. ASSUME NEW h \in Hashes, NEW f \in Fields \ {"vlanid"}, Set(h, f)
       PROVE  AccessorInv'
  BY <1>1, <1>10, SetStep, Zenon DEF Set
<1>11. {"description", "dhcp_servers@", "admin_status", "fec", "alias", "hostname"}
         \subseteq Fields \ {"vlanid"}
  BY DEF Fields
<1>12. ASSUME NEW id \in VlanId, SetVLANDescription(id) \/ EnsureDHCPRelay(id)
       PROVE  AccessorInv'
  BY <1>4, <1>10, <1>11, <1>12, Zenon DEF SetVLANDescription, EnsureDHCPRelay
<1>13. ASSUME NEW h \in Hashes, SetAdminStatus(h)
       PROVE  AccessorInv'
  BY <1>10, <1>11, <1>13, Zenon DEF SetAdminStatus
<1>14. CASE SetFEC \/ SetPortAlias \/ SetHostname
  BY <1>2, <1>10, <1>11, <1>14, Zenon DEF SetFEC, SetPortAlias, SetHostname
<1>15. ASSUME NEW m \in MTU, SetMTU(m)
       PROVE  AccessorInv'
  <2>1. m \in MTUs /\ SetNumber("mtu", m)
    <3>1. m \in Int
      BY DBAccessorAssumption
    <3>2. QED
      BY <1>15, <3>1, MTULimits, SMTT(60) DEF SetMTU
  <2>2. num' \in Numbers
    BY <1>1, <2>1, MTUKept, Zenon DEF SetNumber
  <2>3. "mtu" \in Fields \ {"vlanid"}
    BY DEF Fields
  <2>4. QED
    <3>1. HSet(Port, {"mtu"}) /\ UNCHANGED ensured
      BY <2>1, SMT DEF SetNumber
    <3>2. QED
      BY <1>2, <2>2, <2>3, <3>1, SetStep, Zenon
<1>16. ASSUME NEW m \in Speed, SetSpeed(m)
       PROVE  AccessorInv'
  <2>1. m \in Nat \ {0}
    BY <1>16, DBAccessorAssumption DEF SetSpeed
  <2>2. num' \in Numbers
    BY <1>1, <1>16, <2>1, SpeedKept, Zenon DEF SetSpeed, SetNumber
  <2>3. "speed" \in Fields \ {"vlanid"}
    BY DEF Fields
  <2>4. QED
    BY <1>2, <1>16, <2>2, <2>3, SetStep, Zenon DEF SetSpeed, SetNumber
<1>17. QED
  BY <1>5, <1>6, <1>7, <1>8, <1>9, <1>12, <1>13, <1>14, <1>15, <1>16,
     DeleteDHCPRelayStep, ZenonT(40) DEF Command

\* The invariant of the single commands and of the listings.
THEOREM AccessorInvariant == AccessorSpec => []AccessorInv
<1>1. AccessorInv /\ [AccessorNext]_<<vars, about, listing, accessor>> => AccessorInv'
  <2> SUFFICES ASSUME AccessorInv, [AccessorNext]_<<vars, about, listing, accessor>>
               PROVE  AccessorInv'
    OBVIOUS
  <2>1. [ListNext]_listing /\ ListInv
    BY Zenon DEF AccessorNext, AccessorInv
  <2>2. ListInv'
    BY <2>1, ListStep
  <2>3. ListTypeOK'
    BY <2>2, Zenon DEF ListInv
  <2>4. CASE UNCHANGED <<about, accessor>>
    BY <2>2, <2>3, <2>4, Zenon DEF accessor, AccessorInv, CommandTypeOK, Marked, Mark
  <2>5. CASE Command /\ UNCHANGED about
    BY <2>2, <2>3, <2>5, CommandStep, Zenon
  <2>6. QED
    BY <2>4, <2>5, Zenon DEF AccessorNext
<1>2. QED
  BY <1>1, AccessorInitInv, PTL DEF AccessorSpec

\* As part of the accessor a Sync is what DBSync says, so that the theorems
\* about Spec hold of it.
THEOREM AccessorRunsSync == AccessorSpec => Spec
<1>1. AccessorInit => Init
  BY Zenon DEF AccessorInit
<1>2. [AccessorNext]_<<vars, about, listing, accessor>> => [Next]_vars
  BY Zenon DEF AccessorNext
<1>3. QED
  BY <1>1, <1>2, PTL DEF AccessorSpec, Spec

\* No operation stores an entry that does not validate, a number outside the
\* limits it states, or a vlanid of a VLAN there cannot be.
THEOREM AccessorTypes == AccessorSpec => []AccessorTypeOK
<1>1. AccessorInv => CommandTypeOK
  BY DEF AccessorInv
<1>2. QED
  BY <1>1, AccessorInvariant, AccessorRunsSync, SyncTypeOK, PTL DEF AccessorTypeOK

\* Listings name what was there, and all that stayed, for any set of ports.
THEOREM ListingsAreReal == AccessorSpec => []ListedIsReal
<1>1. AccessorInv => ListedIsReal
  BY ListReal, Zenon DEF AccessorInv
<1>2. QED
  BY <1>1, AccessorInvariant, PTL

\* What was ensured stays until it is deleted, in whatever order the single
\* commands of all callers are carried out.
THEOREM EnsuredUntilDeleted == AccessorSpec => []EnsuredStays
<1>1. AccessorInv => EnsuredStays
  <2> SUFFICES ASSUME AccessorInv, NEW h \in ensured
               PROVE  Exists(h) /\ (h[1] = "VLAN" => HasVLAN(h[2]) /\ "vlanid" \in db[h])
    BY Zenon DEF EnsuredStays
  <2>1. h \in Hashes /\ Mark(h) \in db[h]
    BY Zenon DEF AccessorInv, CommandTypeOK, Marked
  <2>2. Exists(h)
    BY <2>1, Zenon DEF Exists
  <2>3. ASSUME h[1] = "VLAN"
        PROVE  HasVLAN(h[2]) /\ "vlanid" \in db[h]
    <3>1. "vlanid" \in db[h]
      BY <2>1, <2>3, Zenon DEF Mark
    <3>2. h[2] \in VlanIds
      BY <2>1, <3>1, Zenon DEF AccessorInv, CommandTypeOK
    <3>3. ValidVlan(h[2])
      BY <3>2, ValidOfVlan, Zenon
    <3>4. h = <<"VLAN", h[2]>>
      BY <2>1, <2>3 DEF Hashes, Port, Loopback, Device
    <3>5. QED
      BY <2>2, <3>1, <3>3, <3>4, Zenon DEF HasVLAN
  <2>4. QED
    BY <2>2, <2>3
<1>2. QED
  BY <1>1, AccessorInvariant, PTL
=============================================================================
