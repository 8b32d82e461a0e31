-------------------------------- MODULE DBSync --------------------------------
(***************************************************************************)
(* SyncPortVLANs and SyncIPAddresses of the database accessor: list the    *)
(* entries of a port, remove the ones that are not desired, write the ones *)
(* that are.  Every command to Redis is a step of its own; it may fail,    *)
(* with or without having taken effect, and others write to the same table *)
(* in between.                                                             *)
(***************************************************************************)
EXTENDS Naturals

CONSTANTS Key,         \* VLANs, or IP prefixes, of one port
          Foreign,     \* those of them whose name does not validate
          MaxFaults,   \* bound: failing commands
          MaxMeddles   \* bound: writes of others

ASSUME DBSyncAssumption ==
  Foreign \subseteq Key /\ MaxFaults \in Nat /\ MaxMeddles \in Nat

Ops == {"SyncPortVLANs", "SyncIPAddresses"}

\* What an entry of either table can hold.
Modes(o) == IF o = "SyncPortVLANs" THEN {"tagged", "untagged"} ELSE {"NULL"}
Entry(o) == Modes(o) \cup {"none"}

VARIABLES op,       \* which of the two operations this is about
          table,    \* the VLAN_MEMBER or INTERFACE entries of the port
          desired,  \* the argument; "bad" is one refused at once
          pc, res,  \* where the call is, and how the last one ended
          left,     \* keys SCAN has not visited
          found,    \* keys it has returned
          todo,     \* keys to remove, or to write
          faults, meddles,
          met,      \* history: keys that were as desired at some time in the call
          theirs    \* history: keys others have written since it began

call == <<desired, pc, res, left, found, todo>>
vars == <<op, table, call, faults, meddles, met, theirs>>

\* Type invariant: only entries that validate are ever written.
TypeOK ==
  /\ op \in Ops
  /\ table \in [Key -> Entry(op)]
  /\ desired \in [Key -> Entry(op) \cup {"bad"}]
  /\ pc \in {"idle", "scan", "remove", "write"} /\ res \in {"none", "ok", "error"}
  /\ left \subseteq Key /\ found \subseteq Key /\ todo \subseteq Key
  /\ faults \in 0..MaxFaults /\ meddles \in 0..MaxMeddles
  /\ met \subseteq Key /\ theirs \subseteq Key

Init ==
  /\ op \in Ops /\ table \in [Key -> Entry(op)]
  /\ desired = table
  /\ pc = "idle" /\ res = "none"
  /\ left = {} /\ found = {} /\ todo = {}
  /\ faults = 0 /\ meddles = 0 /\ met = {} /\ theirs = {}

Matching == {k \in Key : table[k] = desired[k]}

Fault == faults < MaxFaults /\ faults' = faults + 1
Return(r) == pc' = "idle" /\ res' = r /\ UNCHANGED <<desired, left, found, todo>>

\* An argument is a map or a list of strings.  SyncPortVLANs validates the
\* whole of it, names and modes, before anything else; SyncIPAddresses does not.
Arguments ==
  {d \in [Key -> Entry(op) \cup {"bad"}] :
     IF op = "SyncPortVLANs" THEN \A k \in Foreign : d[k] \in {"none", "bad"}
     ELSE \A k \in Key : d[k] # "bad"}

Call ==
  /\ pc = "idle"
  /\ \E d \in Arguments :
       /\ desired' = d
       /\ \/ /\ \E k \in Key : d[k] = "bad"
             /\ res' = "error" /\ UNCHANGED <<pc, left, found, todo>>
          \/ /\ \A k \in Key : d[k] # "bad"
             /\ pc' = "scan" /\ res' = "none"
             /\ left' = Key /\ found' = {} /\ todo' = {}
  /\ UNCHANGED <<op, table, faults, meddles>>
  /\ met' = Matching' /\ theirs' = {}

\* SCAN visits every key once, a batch at a time.
ScanKeys ==
  /\ pc = "scan" /\ left # {}
  /\ \/ /\ \E B \in (SUBSET left) \ {{}} :
             /\ left' = left \ B
             /\ found' = found \cup {k \in B : table[k] # "none"}
        /\ UNCHANGED <<desired, pc, res, todo, faults>>
     \/ Fault /\ Return("error")
  /\ UNCHANGED <<op, table, meddles, met, theirs>>

\* Mutant: everything listed is removed, to be written again.
ListedAll ==
  /\ pc = "scan" /\ left = {}
  /\ todo' = found
  /\ pc' = "remove"
  /\ UNCHANGED <<op, table, desired, res, left, found, faults, meddles, met, theirs>>

Listed ==
  /\ pc = "scan" /\ left = {}
  /\ todo' = {k \in found : desired[k] = "none"}
  /\ pc' = "remove"
  /\ UNCHANGED <<op, table, desired, res, left, found, faults, meddles, met, theirs>>

\* One command that puts v under k.
Write(k, v) ==
  /\ \/ /\ table' = [table EXCEPT ![k] = v]
        /\ todo' = todo \ {k}
        /\ UNCHANGED <<desired, pc, res, left, found, faults>>
     \/ /\ Fault /\ Return("error")
        /\ UNCHANGED table \/ table' = [table EXCEPT ![k] = v]
  /\ met' = met \cup Matching'
  /\ UNCHANGED <<op, meddles, theirs>>

\* The operations on members and addresses validate a name before they use it,
\* also the name of an entry that somebody else has made.
Put(k, v) ==
  \/ k \notin Foreign /\ Write(k, v)
  \/ /\ k \in Foreign /\ Return("error")
     /\ UNCHANGED <<op, table, faults, meddles, met, theirs>>

Remove == pc = "remove" /\ \E k \in todo : Put(k, "none")

\* Mutant: both operations skip what the listing has shown.
ToWriteUnlisted == {k \in Key : desired[k] # "none" /\ k \notin found}

\* SyncPortVLANs writes every desired entry, as its mode may have changed;
\* SyncIPAddresses the ones the listing did not show.
ToWrite == {k \in Key : /\ desired[k] # "none"
                        /\ op = "SyncIPAddresses" => k \notin found}

Removed ==
  /\ pc = "remove" /\ todo = {}
  /\ todo' = ToWrite
  /\ pc' = "write"
  /\ UNCHANGED <<op, table, desired, res, left, found, faults, meddles, met, theirs>>

Add == pc = "write" /\ \E k \in todo : Put(k, desired[k])

Done ==
  /\ pc = "write" /\ todo = {} /\ Return("ok")
  /\ UNCHANGED <<op, table, faults, meddles, met, theirs>>

\* EnsureVLANMember, RemoveVLANMember, AddIPAddresses or RemoveIPAddresses of
\* another caller, a command of another Sync, or the switch's own tools, which
\* take any name.
Meddle(k, v) ==
  /\ meddles < MaxMeddles /\ meddles' = meddles + 1
  /\ v # table[k]
  /\ table' = [table EXCEPT ![k] = v]
  /\ UNCHANGED <<op, call, faults>>
  /\ met' = met \cup Matching' /\ theirs' = theirs \cup {k}

Next == \/ Call \/ ScanKeys \/ Listed \/ Remove \/ Removed \/ Add \/ Done
        \/ \E k \in Key, v \in Entry(op) : Meddle(k, v)

Spec == Init /\ [][Next]_vars

-----------------------------------------------------------------------------
\* A call that returns without an error has brought every entry to where the
\* caller wants it at some time during the call, whatever others wrote
\* meanwhile: one call linearises entry by entry, though not as a whole.  The
\* listing an IP sync relies on is stale when used; this is why that is fine.
EachEntryMet == pc = "idle" /\ res = "ok" => met = Key

Goal == [k \in Key |-> IF desired[k] = "bad" THEN "none" ELSE desired[k]]
Promise == INSTANCE SyncSpec WITH
             Value <- {"none", "tagged", "untagged", "NULL"},
             busy <- pc # "idle", goal <- Goal

\* SyncPortVLANs and SyncIPAddresses implement SyncSpec: a call never moves an
\* entry away from where it is desired, not even for a moment, and when it
\* succeeds every entry that nobody else has written is there.
Implements == Promise!Spec
=============================================================================
