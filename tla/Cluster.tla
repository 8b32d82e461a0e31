------------------------------- MODULE Cluster -------------------------------
(***************************************************************************)
(* What the two controllers share: the Switch and SwitchInterface objects  *)
(* at the API server, the informer cache they read, the work queues that   *)
(* feed them, and the switch behind the agent.  One Switch; one            *)
(* SwitchInterface per port, named after it.                               *)
(*                                                                         *)
(* A change of an object is noted for its watch; Deliver brings the cache  *)
(* up to the object and queues the keys of the controllers that watch it.  *)
(* An update that changes nothing makes no event.                          *)
(***************************************************************************)
EXTENDS Naturals

CONSTANTS Port,         \* the ports of the switch
          NoObj,        \* no such object
          PatchMayFail, \* whether a status patch may fail
          Events,       \* the kinds of disturbances: see EventKind
          MaxEvents     \* bound: how many of them happen

\* A request refused by the agent or the API server, a STATE_DB read that
\* fails, a version file that cannot be read, the agent out of reach, a restart
\* of the manager; edits of users.
EventKind == {"fault", "misread", "blank", "outage", "restart",
              "admin", "create", "delete", "deleteSwitch"}

ASSUME ClusterAssumption ==
  PatchMayFail \in BOOLEAN /\ MaxEvents \in Nat /\ Events \subseteq EventKind

DeviceStatus == {"up", "down"}
AdminState == {"Unknown", "Up", "Down"}

\* Mutant: the agent's word is stored as it is.
AdminStateAsReported(s) == s

AgentDeviceStatusToAPIAdminState(s) == IF s = "up" THEN "Up" ELSE "Down"
APIAdminStateToAgentDeviceStatus(a) == IF a = "Up" THEN "up" ELSE "down"

Switch == [fin : BOOLEAN, del : BOOLEAN, state : {"", "Ready"},
           info : {"", "known"}]
SwitchInterface == [fin : BOOLEAN, del : BOOLEAN, own : BOOLEAN,
                    admin : AdminState,
                    state : {"", "Pending", "Ready", "Failed"},
                    sadmin : {"", "Up", "Down"}]

ASSUME NoObjAssumption == NoObj \notin SwitchInterface

NewSwitch == [fin |-> FALSE, del |-> FALSE, state |-> "",
              info |-> ""]
NewInterface(w, a) == [fin |-> FALSE, del |-> FALSE, own |-> w, admin |-> a,
                       state |-> "", sadmin |-> ""]

VARIABLES
  sw, swi,        \* the objects: the Switch, and per port the SwitchInterface
  cSw, cSwi,      \* the informer cache
  dSw, dSwi,      \* objects with an event on the way
  dOwned,         \* those of them with one of a version the Switch owns
  swQ, swT,       \* the Switch key is queued; a RequeueAfter is running
  ifQ,            \* the queued SwitchInterface keys
  dcfg, dst,      \* admin status in CONFIG_DB, and in STATE_DB
  alias,          \* ports whose alias is their handle
  up,             \* the agent is reachable
  dev0,           \* history: the admin status the switch came with
  events,         \* how many disturbances there have been
  tampered        \* history: one was a misread or an edit

api == <<sw, swi>>
cache == <<cSw, cSwi>>
watch == <<dSw, dSwi, dOwned>>
queue == <<swQ, swT, ifQ>>
device == <<dcfg, dst, alias, up, dev0>>
budget == <<events, tampered>>

ClusterTypeOK ==
  /\ sw \in Switch \cup {NoObj} /\ cSw \in Switch \cup {NoObj}
  /\ swi \in [Port -> SwitchInterface \cup {NoObj}]
  /\ cSwi \in [Port -> SwitchInterface \cup {NoObj}]
  /\ dSw \in BOOLEAN /\ dSwi \subseteq Port /\ dOwned \subseteq Port
  /\ swQ \in BOOLEAN /\ swT \in BOOLEAN /\ ifQ \subseteq Port
  /\ dcfg \in [Port -> DeviceStatus] /\ dst \in [Port -> DeviceStatus]
  /\ dev0 \in [Port -> DeviceStatus]
  /\ alias \subseteq Port /\ up \in BOOLEAN
  /\ events \in 0..MaxEvents /\ tampered \in BOOLEAN

\* A Switch has just been created for a switch that already runs.
ClusterInit ==
  /\ sw = NewSwitch /\ cSw = NoObj /\ dSw = TRUE
  /\ swi = [q \in Port |-> NoObj] /\ cSwi = swi
  /\ dSwi = {} /\ dOwned = {}
  /\ swQ = FALSE /\ swT = FALSE /\ ifQ = {}
  /\ dev0 \in [Port -> DeviceStatus] /\ dcfg = dev0 /\ dst = dev0
  /\ alias = {} /\ up \in BOOLEAN
  /\ events = 0 /\ tampered = FALSE

-----------------------------------------------------------------------------
\* The API server drops an object marked for deletion with its last finalizer.
Collected(o) == IF o.del /\ ~o.fin THEN NoObj ELSE o

Owned(o) == o # NoObj /\ o.own

PutSwitch(o) ==
  /\ sw' = Collected(o)
  /\ dSw' = (dSw \/ sw' # sw)
  /\ UNCHANGED <<swi, dSwi, dOwned>>

PutInterface(q, o) ==
  /\ swi' = [swi EXCEPT ![q] = Collected(o)]
  /\ dSwi' = IF swi' = swi THEN dSwi ELSE dSwi \cup {q}
  /\ dOwned' = IF swi' # swi /\ Owned(swi'[q]) THEN dOwned \cup {q} ELSE dOwned
  /\ UNCHANGED <<sw, dSw>>

\* A JSON merge patch carries the fields that differ from the copy read; the
\* others keep the value they have when the patch arrives.
Changed(read, new) == IF new # read THEN new ELSE "same"
Merged(cur, change) == IF change = "same" THEN cur ELSE change

Event(kind) == kind \in Events /\ events < MaxEvents /\ events' = events + 1

Fault == Event("fault") /\ UNCHANGED tampered

\* The agent finds neither SKU nor firmware, in CONFIG_DB or in
\* sonic_version.yml, and answers without them.
Blank == Event("blank") /\ UNCHANGED tampered

\* The admin status a read of q reports.  When STATE_DB cannot be read, the
\* agent reports its default, down.
Observed(q, misread) == IF misread THEN "down" ELSE dst[q]
Misreads(bad) ==
  IF bad = {} THEN UNCHANGED budget ELSE Event("misread") /\ tampered' = TRUE

-----------------------------------------------------------------------------
\* SetupWithManager: the Switch controller is fed by Switches and, as their
\* owner, by SwitchInterfaces; the other one by SwitchInterfaces.
DeliverSwitch ==
  /\ dSw
  /\ cSw' = sw /\ dSw' = FALSE /\ swQ' = TRUE
  /\ UNCHANGED <<api, cSwi, dSwi, dOwned, swT, ifQ, device, budget>>

\* Mutant: the Switch controller does not watch what it owns.
DeliverToInterfaceOnly(q) ==
  /\ q \in dSwi
  /\ cSwi' = [cSwi EXCEPT ![q] = swi[q]]
  /\ dSwi' = dSwi \ {q} /\ dOwned' = dOwned \ {q}
  /\ ifQ' = ifQ \cup {q}
  /\ UNCHANGED <<api, cSw, dSw, swQ, swT, device, budget>>

DeliverInterface(q) ==
  /\ q \in dSwi
  /\ cSwi' = [cSwi EXCEPT ![q] = swi[q]]
  /\ dSwi' = dSwi \ {q} /\ dOwned' = dOwned \ {q}
  /\ ifQ' = ifQ \cup {q}
  /\ swQ' = (swQ \/ q \in dOwned \/ Owned(cSwi[q]))
  /\ UNCHANGED <<api, cSw, dSw, swT, device, budget>>

TimerFires ==
  /\ swT
  /\ swT' = FALSE /\ swQ' = TRUE
  /\ UNCHANGED <<api, cache, watch, ifQ, device, budget>>

\* SONiC acts on CONFIG_DB and publishes the result in STATE_DB.
DeviceFollows(q) ==
  /\ dst[q] # dcfg[q]
  /\ dst' = [dst EXCEPT ![q] = dcfg[q]]
  /\ UNCHANGED <<api, cache, watch, queue, dcfg, alias, up, dev0, budget>>

AgentComes ==
  /\ ~up /\ up' = TRUE
  /\ UNCHANGED <<api, cache, watch, queue, dcfg, dst, alias, dev0, budget>>

AgentGoes ==
  /\ up /\ up' = FALSE
  /\ Event("outage")
  /\ UNCHANGED <<api, cache, watch, queue, dcfg, dst, alias, dev0, tampered>>

Edit(kind) == Event(kind) /\ tampered' = TRUE

UserSetsAdminState(q, a) ==
  /\ swi[q] # NoObj /\ a # swi[q].admin
  /\ Edit("admin")
  /\ PutInterface(q, [swi[q] EXCEPT !.admin = a])
  /\ UNCHANGED <<cache, queue, device>>

\* A SwitchInterface of the user's own has a switchRef but no owner.
UserCreatesInterface(q, a) ==
  /\ swi[q] = NoObj
  /\ Edit("create")
  /\ PutInterface(q, NewInterface(FALSE, a))
  /\ UNCHANGED <<cache, queue, device>>

UserDeletesInterface(q) ==
  /\ swi[q] # NoObj /\ ~swi[q].del
  /\ Edit("delete")
  /\ PutInterface(q, [swi[q] EXCEPT !.del = TRUE])
  /\ UNCHANGED <<cache, queue, device>>

UserDeletesSwitch ==
  /\ sw # NoObj /\ ~sw.del
  /\ Edit("deleteSwitch")
  /\ PutSwitch([sw EXCEPT !.del = TRUE])
  /\ UNCHANGED <<cache, queue, device>>

\* The garbage collector deletes what the Switch owned once it is gone.
GarbageCollect(q) ==
  /\ sw = NoObj
  /\ swi[q] # NoObj /\ swi[q].own /\ ~swi[q].del
  /\ PutInterface(q, [swi[q] EXCEPT !.del = TRUE])
  /\ UNCHANGED <<cache, queue, device, budget>>
=============================================================================
