--------------------------- MODULE Operator_proofs ---------------------------
(***************************************************************************)
(* Proofs about the manager for any set of ports and any bounds: the type  *)
(* invariant; that bringing a switch under management leaves its           *)
(* interfaces as they are; that an operator at rest has converged; and     *)
(* that it has then discovered every port.                                 *)
(***************************************************************************)
EXTENDS Operator, TLAPS

\* A worker that is not at rest works on an interface.
HasPort == iWk.pc # "idle" => iWk.q \in Port

Shown(q) == AgentDeviceStatusToAPIAdminState(dev0[q])

\* Every copy of an admin state on its way between the switch and the specs
\* is the one the switch came with.
FaithfulObject(q) ==
  /\ swi[q] # NoObj => swi[q].admin = Shown(q)
  /\ cSwi[q] # NoObj => cSwi[q].admin = Shown(q)
FaithfulListing(q) == q \in sWk.todo => sWk.seen[q] = dev0[q]
FaithfulSpec == iWk.pc \in {"get", "alias", "admin"} => iWk.spec = Shown(iWk.q)

Faithful ==
  /\ dcfg = dev0 /\ dst = dev0
  /\ \A q \in Port : FaithfulObject(q) /\ FaithfulListing(q)
  /\ FaithfulSpec

Untampered == tampered = FALSE

IInv == TypeOK /\ HasPort /\ (Untampered => Faithful)

USE ClusterAssumption

-----------------------------------------------------------------------------
\* What the record constructors and the writers return.

\* A Switch as a user creates it.
LEMMA NewSwitchType == NewSwitch \in Switch
  BY DEF NewSwitch, Switch

\* A SwitchInterface as discovery or a user creates it.
LEMMA NewInterfaceType ==
  ASSUME NEW w \in BOOLEAN, NEW a \in AdminState
  PROVE  NewInterface(w, a) \in SwitchInterface /\ NewInterface(w, a).admin = a
  BY DEF NewInterface, SwitchInterface

\* The resting Switch worker.
LEMMA IdleType == Idle \in SwitchWorker
  BY DEF Idle, SwitchWorker, SwitchStatus, Untouched, NothingSeen, DeviceStatus

\* The resting SwitchInterface worker.
LEMMA RestingType == Resting \in InterfaceWorker
  BY DEF Resting, InterfaceWorker, InterfaceStatus, Unchanged, AdminState

\* The deferred status patch of a Switch is a legal one.
LEMMA LeaveType ==
  ASSUME NEW read \in SwitchStatus, NEW out \in SwitchStatus,
         NEW r \in {"ok", "after", "err"}
  PROVE  /\ Leave(read, out, r) \in SwitchWorker
         /\ Leave(read, out, r).todo = {}
<1> DEFINE change == [state |-> Changed(read.state, out.state),
                      info |-> Changed(read.info, out.info)]
<1>1. change \in SwitchStatus
  BY Zenon DEF Changed, SwitchStatus
<1>2. Leave(read, out, r) = [Idle EXCEPT !.pc = "patch", !.res = r, !.out = change]
  BY DEF Leave
<1> HIDE DEF change
<1>3. QED
  BY <1>1, <1>2, IdleType, Zenon DEF SwitchWorker, Idle

\* The deferred status patch of a SwitchInterface is a legal one.
LEMMA FinishType ==
  ASSUME NEW q \in Port, NEW read \in InterfaceStatus,
         NEW out \in InterfaceStatus, NEW err \in BOOLEAN
  PROVE  /\ Finish(q, read, out, err) \in InterfaceWorker
         /\ Finish(q, read, out, err).pc = "patch"
         /\ Finish(q, read, out, err).q = q
  BY RestingType, ZenonT(40)
     DEF Finish, Changed, InterfaceWorker, InterfaceStatus, Resting

\* So is the one that reports Failed.
LEMMA FailedType ==
  ASSUME NEW q \in Port, NEW read \in InterfaceStatus, NEW out \in InterfaceStatus
  PROVE  /\ Failed(q, read, out) \in InterfaceWorker
         /\ Failed(q, read, out).pc = "patch"
         /\ Failed(q, read, out).q = q
<1>1. [out EXCEPT !.state = "Failed"] \in InterfaceStatus
  BY Zenon DEF InterfaceStatus
<1>2. QED
  BY <1>1, FinishType, Zenon DEF Failed

\* Storing a Switch keeps the objects and their events well-typed.
LEMMA PutSwitchType ==
  ASSUME TypeOK, NEW o \in Switch, PutSwitch(o)
  PROVE  /\ sw' \in Switch \cup {NoObj} /\ dSw' \in BOOLEAN
         /\ swi' = swi /\ dSwi' = dSwi /\ dOwned' = dOwned
  BY Zenon DEF TypeOK, ClusterTypeOK, PutSwitch, Collected, Switch

\* Storing a SwitchInterface keeps the objects and their events well-typed.
LEMMA PutInterfaceType ==
  ASSUME TypeOK, NEW q \in Port, NEW o \in SwitchInterface, PutInterface(q, o)
  PROVE  /\ swi' \in [Port -> SwitchInterface \cup {NoObj}]
         /\ dSwi' \subseteq Port /\ dOwned' \subseteq Port
         /\ sw' = sw /\ dSw' = dSw
         /\ \A r \in Port : r # q => swi'[r] = swi[r]
         /\ swi'[q] # NoObj => swi'[q].admin = o.admin
  BY DEF TypeOK, ClusterTypeOK, PutInterface, Collected

\* Both conversions of admin states yield states of their types.
LEMMA ConversionType ==
  /\ \A s : AgentDeviceStatusToAPIAdminState(s) \in {"Up", "Down"}
  /\ \A a : APIAdminStateToAgentDeviceStatus(a) \in DeviceStatus
  /\ \A s \in DeviceStatus :
       APIAdminStateToAgentDeviceStatus(AgentDeviceStatusToAPIAdminState(s)) = s
  BY DEF AgentDeviceStatusToAPIAdminState, APIAdminStateToAgentDeviceStatus,
         DeviceStatus

-----------------------------------------------------------------------------
\* The parts of the type invariant, as the actions change them.

ApiType == /\ sw \in Switch \cup {NoObj}
           /\ swi \in [Port -> SwitchInterface \cup {NoObj}]
WatchType == dSw \in BOOLEAN /\ dSwi \subseteq Port /\ dOwned \subseteq Port
CacheType == /\ cSw \in Switch \cup {NoObj}
             /\ cSwi \in [Port -> SwitchInterface \cup {NoObj}]
QueueType == swQ \in BOOLEAN /\ swT \in BOOLEAN /\ ifQ \subseteq Port
DeviceType == /\ dcfg \in [Port -> DeviceStatus] /\ dst \in [Port -> DeviceStatus]
              /\ dev0 \in [Port -> DeviceStatus]
              /\ alias \subseteq Port /\ up \in BOOLEAN
BudgetType == events \in 0..MaxEvents /\ tampered \in BOOLEAN
WorkerType == sWk \in SwitchWorker /\ iWk \in InterfaceWorker /\ HasPort

\* TypeOK and HasPort, cut into the parts that one action touches.
LEMMA Parts ==
  TypeOK /\ HasPort <=>
    /\ ApiType /\ WatchType /\ CacheType /\ QueueType
    /\ DeviceType /\ BudgetType /\ WorkerType
  BY DEF TypeOK, ClusterTypeOK, ApiType, WatchType, CacheType, QueueType,
         DeviceType, BudgetType, WorkerType

\* The same for the next state.
LEMMA PartsNext ==
  ASSUME ApiType', WatchType', CacheType', QueueType', DeviceType', BudgetType',
         WorkerType'
  PROVE  TypeOK' /\ HasPort'
  BY DEF TypeOK, ClusterTypeOK, ApiType, WatchType, CacheType, QueueType,
         DeviceType, BudgetType, WorkerType

\* A part whose variables do not change stays well-typed.
LEMMA Frames ==
  /\ ApiType /\ UNCHANGED api => ApiType'
  /\ WatchType /\ UNCHANGED watch => WatchType'
  /\ CacheType /\ UNCHANGED cache => CacheType'
  /\ QueueType /\ UNCHANGED queue => QueueType'
  /\ DeviceType /\ UNCHANGED device => DeviceType'
  /\ BudgetType /\ UNCHANGED budget => BudgetType'
  /\ WorkerType /\ UNCHANGED <<sWk, iWk>> => WorkerType'
  BY DEF ApiType, WatchType, CacheType, QueueType, DeviceType, BudgetType,
         WorkerType, HasPort, api, watch, cache, queue, device, budget

\* What is spent of the bound.
LEMMA EventStep ==
  ASSUME BudgetType, NEW kind, Event(kind)
  PROVE  events' \in 0..MaxEvents
<1>1. events \in 0..MaxEvents /\ MaxEvents \in Nat
  BY Zenon DEF BudgetType
<1>2. QED
  BY <1>1 DEF Event

\* Disturbances are counted within their bound.
LEMMA BudgetSteps ==
  ASSUME BudgetType
  PROVE  /\ Fault \/ Blank => BudgetType' /\ UNCHANGED tampered
         /\ \A bad : Misreads(bad) =>
              /\ BudgetType'
              /\ tampered' = FALSE => tampered = FALSE /\ bad = {}
         /\ \A kind : Edit(kind) => BudgetType' /\ tampered' = TRUE
<1>1. ASSUME Fault \/ Blank PROVE BudgetType' /\ UNCHANGED tampered
  BY <1>1, EventStep, Zenon DEF Fault, Blank, BudgetType
<1>2. ASSUME NEW bad, Misreads(bad)
      PROVE  BudgetType' /\ (tampered' = FALSE => tampered = FALSE /\ bad = {})
  <2>1. CASE bad = {}
    BY <1>2, <2>1, Zenon DEF Misreads, BudgetType, budget
  <2>2. CASE bad # {}
    <3>1. Event("misread") /\ tampered' = TRUE
      BY <1>2, <2>2, Zenon DEF Misreads
    <3>2. QED
      BY <3>1, EventStep, Zenon DEF BudgetType
  <2>3. QED
    BY <2>1, <2>2, Zenon
<1>3. ASSUME NEW kind, Edit(kind) PROVE BudgetType' /\ tampered' = TRUE
  BY <1>3, EventStep, Zenon DEF Edit, BudgetType
<1>4. QED
  BY <1>1, <1>2, <1>3, Zenon

-----------------------------------------------------------------------------
\* The steps of the Switch controller.

\* Reconcile of a Switch up to its first request preserves the invariant.
LEMMA StartSwitchStep ==
  ASSUME IInv, StartSwitch, UNCHANGED iWk
  PROVE  IInv'
<1> USE DEF IInv
<1>1. TypeOK /\ HasPort /\ cSw \in Switch \cup {NoObj} /\ sw \in Switch \cup {NoObj}
  BY DEF TypeOK, ClusterTypeOK
<1>2. UNCHANGED <<cache, swT, ifQ, device, budget>> /\ swQ' = FALSE
  BY DEF StartSwitch
<1>3. sw' \in Switch \cup {NoObj} /\ dSw' \in BOOLEAN
      /\ UNCHANGED <<swi, dSwi, dOwned>>
  <2>1. CASE UNCHANGED <<api, watch>>
    BY <1>1, <2>1 DEF api, watch, TypeOK, ClusterTypeOK
  <2>2. CASE \E b \in BOOLEAN : sw # NoObj /\ PutSwitch([sw EXCEPT !.fin = b])
    <3>1. PICK b \in BOOLEAN : sw # NoObj /\ PutSwitch([sw EXCEPT !.fin = b])
      BY <2>2
    <3>2. [sw EXCEPT !.fin = b] \in Switch
      BY <1>1, <3>1, Zenon DEF Switch
    <3>3. QED
      BY <1>1, <3>1, <3>2, PutSwitchType
  <2>3. QED
    BY <2>1, <2>2, Zenon DEF StartSwitch, DeleteSwitch
<1>4. sWk' \in SwitchWorker /\ (sWk' = sWk \/ sWk'.todo = {})
  <2>1. CASE UNCHANGED sWk
    BY <1>1, <2>1 DEF TypeOK
  <2>2. CASE cSw # NoObj /\ sWk' = Accept(StatusOf(cSw))
    <3> DEFINE st == StatusOf(cSw)
               ready == [st EXCEPT !.state = "Ready"]
               ask == [Idle EXCEPT !.pc = "info", !.read = st, !.out = st]
    <3>1. st \in SwitchStatus /\ ready \in SwitchStatus
      BY <1>1, <2>2, Zenon DEF StatusOf, Switch, SwitchStatus
    <3>2. Leave(st, ready, "ok") \in SwitchWorker /\ Leave(st, ready, "ok").todo = {}
      BY <3>1, LeaveType
    <3>3. sWk' = Leave(st, ready, "ok") \/ sWk' = ask
      BY <2>2 DEF Accept
    <3>4. ask \in SwitchWorker /\ ask.todo = {}
      <4> HIDE DEF st
      <4>1. QED
        BY <3>1, IdleType, Zenon DEF SwitchWorker, Idle
    <3>5. QED
      BY <3>2, <3>3, <3>4, Zenon
  <2>3. QED
    BY <2>1, <2>2 DEF StartSwitch
<1>5. TypeOK' /\ HasPort'
  BY <1>1, <1>2, <1>3, <1>4, Zenon
     DEF TypeOK, ClusterTypeOK, HasPort, cache, device, budget
<1>6. Untampered' => Faithful'
  BY <1>2, <1>3, <1>4 DEF Untampered, Faithful, FaithfulObject, FaithfulListing,
     FaithfulSpec, Shown, cache, device, budget
<1>7. QED
  BY <1>5, <1>6

\* A step that moves only the Switch worker and the bounds.
LEMMA SwitchWorkerStep ==
  ASSUME IInv, UNCHANGED <<api, cache, watch, queue, device, iWk>>,
         BudgetType', Untampered' => Untampered, sWk' \in SwitchWorker,
         Untampered' => \A q \in Port : q \in sWk'.todo => sWk'.seen[q] = dev0[q]
  PROVE  IInv'
<1>1. TypeOK' /\ HasPort'
  BY DEF IInv, TypeOK, ClusterTypeOK, BudgetType, HasPort,
         api, cache, watch, queue, device
<1>2. Untampered' => Faithful'
  BY DEF IInv, Faithful, FaithfulObject, FaithfulListing, FaithfulSpec, Shown,
         api, cache, device
<1>3. QED
  BY <1>1, <1>2 DEF IInv

\* So do the requests that read from the agent; a listing without a misread
\* reports the admin status the switch came with.
LEMMA SwitchRequestStep ==
  ASSUME IInv, GetDeviceInfo \/ ListInterfaces \/ ListPorts, UNCHANGED iWk
  PROVE  IInv'
<1>1. UNCHANGED <<api, cache, watch, queue, device>>
  BY Zenon DEF GetDeviceInfo, ListInterfaces, ListPorts
<1>2. sWk \in SwitchWorker /\ sWk.read \in SwitchStatus /\ sWk.out \in SwitchStatus
      /\ BudgetType /\ dst \in [Port -> DeviceStatus]
  BY DEF IInv, TypeOK, ClusterTypeOK, BudgetType, SwitchWorker
<1>3. Untampered => \A q \in Port : q \in sWk.todo => sWk.seen[q] = dev0[q]
  BY DEF IInv, Faithful, FaithfulListing
<1>4. UNCHANGED budget => BudgetType' /\ (Untampered' => Untampered)
  BY <1>2, Frames DEF Untampered, budget
<1>5. Fault \/ Blank => BudgetType' /\ (Untampered' => Untampered)
  BY <1>2, BudgetSteps DEF Untampered
<1>6. CASE AgentUnavailable
  <2>1. sWk' \in SwitchWorker /\ sWk'.todo = {}
    BY <1>2, <1>6, LeaveType DEF AgentUnavailable
  <2>2. QED
    BY <1>1, <1>4, <1>6, <2>1, SwitchWorkerStep DEF AgentUnavailable
<1>7. CASE GetDeviceInfo /\ ~AgentUnavailable
  <2>1. PICK i \in {"", "known"} :
          sWk' = [sWk EXCEPT !.pc = "list", !.out = [@ EXCEPT !.info = i]]
    BY <1>7 DEF GetDeviceInfo
  <2> DEFINE out == [sWk.out EXCEPT !.info = i]
  <2>2. out \in SwitchStatus
    BY <1>2, Zenon DEF SwitchStatus
  <2>3. sWk' = [sWk EXCEPT !.pc = "list", !.out = out]
    BY <1>2, <2>1, Zenon DEF SwitchWorker
  <2> HIDE DEF out
  <2>4. sWk' \in SwitchWorker /\ sWk'.todo = sWk.todo /\ sWk'.seen = sWk.seen
    BY <1>2, <2>2, <2>3, ZenonT(40) DEF SwitchWorker
  <2>5. QED
    BY <1>1, <1>3, <1>4, <1>5, <1>7, <2>4, SwitchWorkerStep, Zenon
       DEF GetDeviceInfo
<1>8. CASE ListInterfaces /\ ~AgentUnavailable
  <2>1. CASE Fault /\ sWk' = [sWk EXCEPT !.pc = "ensure"]
    <3>1. sWk' \in SwitchWorker /\ sWk'.todo = sWk.todo /\ sWk'.seen = sWk.seen
      BY <1>2, <2>1 DEF SwitchWorker
    <3>2. QED
      BY <1>1, <1>3, <1>5, <2>1, <3>1, SwitchWorkerStep
  <2>2. ASSUME NEW bad \in SUBSET Port, Misreads(bad),
               sWk' = [sWk EXCEPT !.pc = "ensure", !.todo = Port,
                         !.seen = [q \in Port |-> Observed(q, q \in bad)]]
        PROVE  IInv'
    <3> DEFINE seen == [q \in Port |-> Observed(q, q \in bad)]
    <3>1. seen \in [Port -> DeviceStatus]
      BY <1>2 DEF Observed, DeviceStatus
    <3>2. BudgetType' /\ (Untampered' => Untampered /\ bad = {})
      BY <1>2, <2>2, BudgetSteps, Zenon DEF Untampered
    <3>3. bad = {} => seen = [q \in Port |-> dst[q]]
      BY DEF Observed
    <3>4. Untampered' => \A q \in Port : seen[q] = dev0[q]
      BY <3>2, <3>3 DEF IInv, Faithful
    <3>5. sWk' = [sWk EXCEPT !.pc = "ensure", !.todo = Port, !.seen = seen]
      BY <2>2
    <3> HIDE DEF seen
    <3>6. sWk' \in SwitchWorker /\ sWk'.seen = seen
      BY <1>2, <3>1, <3>5, Zenon DEF SwitchWorker
    <3>7. QED
      BY <1>1, <3>2, <3>4, <3>6, SwitchWorkerStep
  <2>3. QED
    BY <1>8, <2>1, <2>2, Zenon DEF ListInterfaces
<1>9. CASE ListPorts /\ ~AgentUnavailable
  <2>1. [sWk.out EXCEPT !.state = "Ready"] \in SwitchStatus
    BY <1>2, Zenon DEF SwitchStatus
  <2>2. sWk' \in SwitchWorker /\ sWk'.todo = {} /\ UNCHANGED budget
    BY <1>2, <1>9, <2>1, LeaveType DEF ListPorts
  <2>3. QED
    BY <1>1, <1>4, <2>2, SwitchWorkerStep
<1>10. QED
  BY <1>6, <1>7, <1>8, <1>9

\* A write to one SwitchInterface, with what the worker and the bounds do.
LEMMA InterfaceWrite ==
  ASSUME IInv, NEW q \in Port, NEW o \in SwitchInterface, PutInterface(q, o),
         UNCHANGED <<cache, device>>, QueueType', BudgetType', WorkerType',
         Untampered' =>
           /\ Untampered
           /\ o.admin = Shown(q)
           /\ \A r \in Port : r \in sWk'.todo => sWk'.seen[r] = dev0[r]
           /\ FaithfulSpec'
  PROVE  IInv'
<1>1. TypeOK /\ swi \in [Port -> SwitchInterface \cup {NoObj}]
  BY DEF IInv, TypeOK, ClusterTypeOK
<1>2. /\ swi' \in [Port -> SwitchInterface \cup {NoObj}]
      /\ dSwi' \subseteq Port /\ dOwned' \subseteq Port
      /\ sw' = sw /\ dSw' = dSw
      /\ \A r \in Port : r # q => swi'[r] = swi[r]
      /\ swi'[q] # NoObj => swi'[q].admin = o.admin
  BY <1>1, PutInterfaceType
<1>3. TypeOK' /\ HasPort'
  BY <1>1, <1>2 DEF TypeOK, ClusterTypeOK, QueueType, BudgetType, WorkerType,
                    cache, device
<1>4. ASSUME Untampered' PROVE Faithful'
  <2>1. UNCHANGED <<cSwi, dcfg, dst, dev0>> /\ Faithful /\ o.admin = Shown(q)
    BY <1>4 DEF IInv, cache, device
  <2>2. \A r \in Port : FaithfulObject(r)'
    BY <1>2, <2>1 DEF Faithful, FaithfulObject, Shown
  <2>3. QED
    BY <1>4, <2>1, <2>2 DEF Faithful, FaithfulListing
<1>5. QED
  BY <1>3, <1>4 DEF IInv

\* Applying what discovery saw keeps the specs faithful to the switch.
LEMMA EnsureInterfaceStep ==
  ASSUME IInv, NEW q \in Port, EnsureInterface(q), UNCHANGED iWk
  PROVE  IInv'
<1>1. /\ sWk \in SwitchWorker /\ sWk.read \in SwitchStatus /\ sWk.out \in SwitchStatus
      /\ BudgetType /\ QueueType /\ WorkerType
      /\ swi[q] \in SwitchInterface \cup {NoObj}
  BY
     DEF IInv, TypeOK, ClusterTypeOK, BudgetType, QueueType, WorkerType, SwitchWorker
<1>2. UNCHANGED <<cache, queue, device>> /\ q \in sWk.todo
  BY DEF EnsureInterface
<1>3. CASE Fault /\ sWk' = Leave(sWk.read, sWk.out, "err") /\ UNCHANGED <<api, watch>>
  <2>1. sWk' \in SwitchWorker /\ sWk'.todo = {}
    BY <1>1, <1>3, LeaveType
  <2>2. BudgetType' /\ (Untampered' => Untampered)
    BY <1>1, <1>3, BudgetSteps DEF Untampered
  <2>3. QED
    BY <1>2, <1>3, <2>1, <2>2, SwitchWorkerStep
<1>4. CASE /\ PutInterface(q, Applied(swi[q],
                                 AgentDeviceStatusToAPIAdminState(sWk.seen[q])))
           /\ sWk' = [sWk EXCEPT !.todo = @ \ {q}]
           /\ UNCHANGED budget
  <2> DEFINE a == AgentDeviceStatusToAPIAdminState(sWk.seen[q])
             o == Applied(swi[q], a)
  <2>1. PutInterface(q, o) /\ sWk' = [sWk EXCEPT !.todo = @ \ {q}] /\ UNCHANGED budget
    BY <1>4
  <2>2. a \in AdminState
    BY ConversionType DEF AdminState
  <2> HIDE DEF a
  <2>3. o \in SwitchInterface /\ o.admin = a
    BY <1>1, <2>2, NewInterfaceType, Zenon DEF Applied, SwitchInterface
  <2>4. sWk' \in SwitchWorker /\ sWk'.seen = sWk.seen /\ sWk'.todo \subseteq sWk.todo
    BY <1>1, <2>1 DEF SwitchWorker
  <2>5. QueueType' /\ BudgetType' /\ WorkerType'
    BY <1>1, <1>2, <2>1, <2>4, Frames DEF WorkerType, HasPort
  <2>6. Untampered' => Untampered
    BY <2>1 DEF Untampered, budget
  <2>7. Untampered =>
          /\ a = Shown(q)
          /\ \A r \in Port : r \in sWk'.todo => sWk'.seen[r] = dev0[r]
          /\ FaithfulSpec'
    BY <1>2, <2>4
       DEF a, IInv, Faithful, FaithfulListing, FaithfulSpec, Shown, device
  <2> HIDE DEF o
  <2>8. QED
    BY <1>2, <2>1, <2>3, <2>5, <2>6, <2>7, InterfaceWrite
<1>5. QED
  BY <1>3, <1>4 DEF EnsureInterface

\* The deferred patch of a Switch touches no spec and no device.
LEMMA PatchSwitchStep ==
  ASSUME IInv, PatchSwitch, UNCHANGED iWk
  PROVE  IInv'
<1>1. TypeOK /\ sWk.out \in SwitchStatus /\ sw \in Switch \cup {NoObj}
  BY DEF IInv, TypeOK, ClusterTypeOK, SwitchWorker
<1>2. UNCHANGED <<cache, ifQ, device, budget>> /\ sWk' = Idle
      /\ swT' \in BOOLEAN /\ swQ' \in BOOLEAN
  BY DEF PatchSwitch
<1>3. sw' \in Switch \cup {NoObj} /\ dSw' \in BOOLEAN
      /\ UNCHANGED <<swi, dSwi, dOwned>>
  <2>1. CASE UNCHANGED <<api, watch>>
    BY <1>1, <2>1 DEF api, watch, TypeOK, ClusterTypeOK
  <2>2. CASE sw # NoObj /\ ~UNCHANGED <<api, watch>>
    <3> DEFINE s == Merged(sw.state, sWk.out.state)
               i == Merged(sw.info, sWk.out.info)
               o == [sw EXCEPT !.state = s, !.info = i]
    <3>1. PutSwitch(o)
      BY <1>1, <2>2, Zenon DEF PatchSwitch, Switch
    <3>2. s \in {"", "Ready"} /\ i \in {"", "known"}
      BY <1>1, <2>2, Zenon DEF Merged, Switch, SwitchStatus
    <3> HIDE DEF s, i
    <3>3. o \in Switch
      BY <1>1, <2>2, <3>2, Zenon DEF Switch
    <3> HIDE DEF o
    <3>4. QED
      BY <1>1, <3>1, <3>3, PutSwitchType
  <2>3. QED
    BY <2>1, <2>2 DEF PatchSwitch, api, watch
<1>4. Idle \in SwitchWorker /\ Idle.todo = {}
  BY IdleType DEF Idle
<1>5. TypeOK' /\ HasPort'
  BY <1>1, <1>2, <1>3, <1>4
     DEF IInv, TypeOK, ClusterTypeOK, HasPort, cache, device, budget
<1>6. Untampered' => Faithful'
  BY <1>2, <1>3, <1>4 DEF IInv, Untampered, Faithful, FaithfulObject,
     FaithfulListing, FaithfulSpec, Shown, cache, device, budget
<1>7. QED
  BY <1>5, <1>6 DEF IInv

-----------------------------------------------------------------------------
\* The steps of the SwitchInterface controller.

\* A step that moves only the interface worker, the bounds and the aliases.
LEMMA InterfaceWorkerStep ==
  ASSUME IInv, UNCHANGED <<api, cache, watch, queue, dcfg, dst, up, dev0, sWk>>,
         alias' \subseteq Port, BudgetType', Untampered' => Untampered,
         iWk' \in InterfaceWorker, iWk'.q \in Port,
         Untampered' => FaithfulSpec'
  PROVE  IInv'
<1>1. TypeOK' /\ HasPort'
  BY
     DEF IInv, TypeOK, ClusterTypeOK, BudgetType, HasPort, api, cache, watch, queue
<1>2. Untampered' => Faithful'
  BY DEF IInv, Faithful, FaithfulObject, FaithfulListing, Shown, api, cache
<1>3. QED
  BY <1>1, <1>2 DEF IInv

\* Reconcile of a SwitchInterface reads a faithful spec from the cache.
LEMMA StartInterfaceStep ==
  ASSUME IInv, NEW q \in Port, StartInterface(q), UNCHANGED sWk
  PROVE  IInv'
<1>1. /\ TypeOK /\ QueueType /\ BudgetType /\ WorkerType /\ ifQ \subseteq Port
      /\ swi[q] \in SwitchInterface \cup {NoObj}
      /\ cSwi[q] \in SwitchInterface \cup {NoObj}
  BY DEF IInv, TypeOK, ClusterTypeOK, QueueType, BudgetType, WorkerType
<1>2. UNCHANGED <<cache, swQ, swT, device, budget>> /\ ifQ' = ifQ \ {q}
      /\ iWk.pc = "idle"
  BY DEF StartInterface
<1>3. QueueType' /\ BudgetType' /\ (Untampered' => Untampered)
  BY <1>1, <1>2, Frames DEF QueueType, Untampered, budget
<1>4. CASE UNCHANGED <<api, watch, iWk>>
  <2>1. TypeOK' /\ HasPort'
    BY <1>1, <1>2, <1>4, ZenonT(40) DEF IInv, TypeOK, ClusterTypeOK, HasPort,
       api, watch, cache, device, budget
  <2>2. Untampered' => Faithful'
    BY <1>2, <1>3, <1>4 DEF IInv, Faithful, FaithfulObject, FaithfulListing,
       FaithfulSpec, Shown, api, cache, device
  <2>3. QED
    BY <2>1, <2>2 DEF IInv
<1>5. CASE UNCHANGED iWk /\ \E b \in BOOLEAN :
             swi[q] # NoObj /\ PutInterface(q, [swi[q] EXCEPT !.fin = b])
  <2>1. PICK b \in BOOLEAN :
             swi[q] # NoObj /\ PutInterface(q, [swi[q] EXCEPT !.fin = b])
    BY <1>5
  <2> DEFINE o == [swi[q] EXCEPT !.fin = b]
  <2>2. o \in SwitchInterface /\ o.admin = swi[q].admin
    BY <1>1, <2>1, Zenon DEF SwitchInterface
  <2>3. WorkerType'
    BY <1>1, <1>5, Frames
  <2>4. Untampered =>
          /\ swi[q].admin = Shown(q)
          /\ \A r \in Port : r \in sWk'.todo => sWk'.seen[r] = dev0[r]
          /\ FaithfulSpec'
    BY <1>2, <1>5, <2>1 DEF IInv, Faithful, FaithfulObject, FaithfulListing,
       FaithfulSpec
  <2>5. PutInterface(q, o)
    BY <2>1
  <2> HIDE DEF o
  <2>6. QED
    BY <1>2, <1>3, <2>2, <2>3, <2>4, <2>5, InterfaceWrite
<1>6. CASE /\ cSwi[q] # NoObj /\ UNCHANGED <<api, watch>>
           /\ iWk' = AcceptInterface(q, InterfaceStatusOf(cSwi[q]), cSwi[q].admin)
  <2> DEFINE st == InterfaceStatusOf(cSwi[q])
             pending == [st EXCEPT !.state = "Pending"]
             ask == [Resting EXCEPT !.pc = "get", !.q = q, !.spec = cSwi[q].admin,
                                    !.read = st, !.out = st]
  <2>1. st \in InterfaceStatus /\ pending \in InterfaceStatus
        /\ cSwi[q].admin \in AdminState
    BY <1>1, <1>6, Zenon DEF InterfaceStatusOf, SwitchInterface, InterfaceStatus
  <2>2. iWk' = Finish(q, st, pending, FALSE) \/ iWk' = Failed(q, st, st)
        \/ iWk' = ask
    BY <1>6, Zenon DEF AcceptInterface
  <2> HIDE DEF st
  <2>3. ask \in InterfaceWorker /\ ask.q = q /\ ask.spec = cSwi[q].admin
    BY <2>1, RestingType, Zenon DEF InterfaceWorker, Resting
  <2> HIDE DEF pending, ask
  <2>4. iWk' \in InterfaceWorker /\ iWk'.q = q
        /\ (iWk'.pc = "patch" \/ iWk'.spec = cSwi[q].admin)
    <3>1. CASE iWk' = Finish(q, st, pending, FALSE)
      BY <2>1, <3>1, FinishType, Zenon
    <3>2. CASE iWk' = Failed(q, st, st)
      BY <2>1, <3>2, FailedType
    <3>3. CASE iWk' = ask
      BY <2>3, <3>3
    <3>4. QED
      BY <2>2, <3>1, <3>2, <3>3, Zenon
  <2>5. TypeOK' /\ HasPort'
    BY <1>1, <1>2, <1>6, <2>4 DEF TypeOK, ClusterTypeOK, HasPort,
       api, watch, cache, device, budget
  <2>6. ASSUME Untampered' PROVE Faithful'
    <3>1. Faithful /\ UNCHANGED <<swi, cSwi, dcfg, dst, dev0>>
      BY <1>2, <1>3, <1>6, <2>6 DEF IInv, api, cache, device
    <3>2. FaithfulSpec'
      BY <1>6, <2>4, <3>1 DEF Faithful, FaithfulObject, FaithfulSpec, Shown
    <3>3. QED
      BY <3>1, <3>2 DEF Faithful, FaithfulObject, FaithfulListing, Shown
  <2>7. QED
    BY <2>5, <2>6 DEF IInv
<1>7. QED
  BY <1>4, <1>5, <1>6, Zenon DEF StartInterface, DeleteInterface

\* A request that is refused ends the reconcile.
LEMMA RefusedStep ==
  ASSUME IInv, NEW st \in InterfaceStatus, Refused(st), iWk.q \in Port
  PROVE  /\ iWk' \in InterfaceWorker /\ iWk'.q \in Port /\ iWk'.pc = "patch"
         /\ BudgetType' /\ (Untampered' => Untampered)
<1>1. BudgetType /\ iWk.read \in InterfaceStatus
  BY DEF IInv, TypeOK, ClusterTypeOK, BudgetType, InterfaceWorker
<1>2. iWk' = Failed(iWk.q, iWk.read, st)
  BY DEF Refused
<1>3. BudgetType' /\ (Untampered' => Untampered)
  BY <1>1, Frames, BudgetSteps DEF Refused, Untampered, budget
<1>4. QED
  BY <1>1, <1>2, <1>3, FailedType

\* Reading the interface, its alias and its neighbor leaves CONFIG_DB alone.
LEMMA ReadStep ==
  ASSUME IInv, GetInterfaceByAbstractName \/ SetInterfaceAliasName
                 \/ GetInterfaceNeighbor, UNCHANGED sWk
  PROVE  IInv'
<1>1. /\ iWk \in InterfaceWorker /\ iWk.q \in Port /\ BudgetType
      /\ iWk.read \in InterfaceStatus /\ iWk.out \in InterfaceStatus
      /\ alias \subseteq Port
  BY ZenonT(40)
     DEF IInv, TypeOK, ClusterTypeOK, BudgetType, InterfaceWorker, HasPort,
         GetInterfaceByAbstractName, SetInterfaceAliasName, GetInterfaceNeighbor
<1>2. UNCHANGED <<api, cache, watch, queue, dcfg, dst, up, dev0>>
      /\ alias' \subseteq Port
  BY <1>1, Zenon DEF GetInterfaceByAbstractName, SetInterfaceAliasName,
              GetInterfaceNeighbor, device
<1>3. CASE Refused(iWk.out) \/ Refused(iWk.read)
  <2>1. FaithfulSpec'
    BY <1>1, <1>3, RefusedStep DEF FaithfulSpec
  <2>2. QED
    BY <1>1, <1>2, <1>3, <2>1, RefusedStep, InterfaceWorkerStep
<1>4. ASSUME iWk.pc \in {"get", "alias"},
             iWk' \in InterfaceWorker, iWk'.q = iWk.q, iWk'.spec = iWk.spec,
             BudgetType', Untampered' => Untampered
      PROVE  IInv'
  <2>1. Untampered' => FaithfulSpec'
    BY <1>2, <1>4, ZenonT(40) DEF IInv, Faithful, FaithfulSpec, Shown
  <2>2. QED
    BY <1>1, <1>2, <1>4, <2>1, InterfaceWorkerStep
<1>5. CASE GetInterfaceByAbstractName /\ ~Refused(iWk.out)
  <2>1. PICK misread \in BOOLEAN :
          /\ Misreads(IF misread THEN {iWk.q} ELSE {})
          /\ iWk' = [iWk EXCEPT
                  !.pc = IF iWk.q \in alias THEN "admin" ELSE "alias",
                  !.out = [@ EXCEPT !.sadmin =
                             AgentDeviceStatusToAPIAdminState(
                               Observed(iWk.q, misread))]]
    BY <1>5, Zenon DEF GetInterfaceByAbstractName
  <2> DEFINE pc == IF iWk.q \in alias THEN "admin" ELSE "alias"
             a == AgentDeviceStatusToAPIAdminState(Observed(iWk.q, misread))
             out == [iWk.out EXCEPT !.sadmin = a]
  <2>2. pc \in {"admin", "alias"} /\ a \in {"Up", "Down"}
    BY ConversionType
  <2>3. iWk' = [iWk EXCEPT !.pc = pc, !.out = out]
    BY <1>1, <2>1 DEF InterfaceWorker
  <2> HIDE DEF pc, a
  <2>4. out \in InterfaceStatus
    BY <1>1, <2>2, Zenon DEF InterfaceStatus
  <2> HIDE DEF out
  <2>5. iWk' \in InterfaceWorker /\ iWk'.q = iWk.q /\ iWk'.spec = iWk.spec
    BY <1>1, <2>2, <2>3, <2>4, Zenon DEF InterfaceWorker
  <2>6. BudgetType' /\ (Untampered' => Untampered)
    BY <1>1, <2>1, BudgetSteps, Zenon DEF Untampered
  <2>7. QED
    BY <1>4, <1>5, <2>5, <2>6, ZenonT(40) DEF GetInterfaceByAbstractName
<1>6. CASE SetInterfaceAliasName /\ ~Refused(iWk.read)
  <2>1. iWk' = [iWk EXCEPT !.pc = "admin"] /\ UNCHANGED budget /\ iWk.pc = "alias"
    BY <1>6 DEF SetInterfaceAliasName
  <2>2. iWk' \in InterfaceWorker /\ iWk'.q = iWk.q /\ iWk'.spec = iWk.spec
    BY <1>1, <2>1 DEF InterfaceWorker
  <2>3. BudgetType' /\ (Untampered' => Untampered)
    BY <1>1, <2>1, Frames, ZenonT(40) DEF Untampered, budget
  <2>4. QED
    BY <1>4, <2>1, <2>2, <2>3
<1>7. CASE GetInterfaceNeighbor /\ ~Refused(iWk.out)
  <2>1. iWk' = Finish(iWk.q, iWk.read, iWk.out, FALSE) /\ UNCHANGED budget
    BY <1>7, Zenon DEF GetInterfaceNeighbor
  <2>2. iWk' \in InterfaceWorker /\ iWk'.q = iWk.q /\ iWk'.pc = "patch"
    BY <1>1, <2>1, FinishType, Zenon
  <2>3. BudgetType' /\ (Untampered' => Untampered) /\ FaithfulSpec'
    BY <1>1, <2>1, <2>2, Frames, Zenon DEF Untampered, budget, FaithfulSpec
  <2>4. QED
    BY <1>1, <1>2, <2>2, <2>3, InterfaceWorkerStep
<1>8. QED
  BY <1>3, <1>5, <1>6, <1>7, ZenonT(40)

\* The one step that writes CONFIG_DB: it writes what the spec shows, which is
\* what the switch came with.
LEMMA SetAdminStep ==
  ASSUME IInv, SetInterfaceAdminStatus, UNCHANGED sWk
  PROVE  IInv'
<1>1. /\ iWk \in InterfaceWorker /\ iWk.q \in Port /\ BudgetType
      /\ iWk.read \in InterfaceStatus /\ iWk.out \in InterfaceStatus
      /\ alias \subseteq Port /\ iWk.pc = "admin"
      /\ dcfg \in [Port -> DeviceStatus] /\ dev0 \in [Port -> DeviceStatus]
  BY DEF IInv, TypeOK, ClusterTypeOK, BudgetType, InterfaceWorker, HasPort,
         SetInterfaceAdminStatus
<1>2. UNCHANGED <<api, cache, watch, queue, dst, alias, up, dev0>>
  BY DEF SetInterfaceAdminStatus
<1>3. Desired \in DeviceStatus /\ (Untampered => Desired = dev0[iWk.q])
  BY <1>1, ConversionType DEF Desired, IInv, Faithful, FaithfulSpec, Shown
<1>4. UNCHANGED dcfg \/ dcfg' = [dcfg EXCEPT ![iWk.q] = Desired]
  BY DEF SetInterfaceAdminStatus
<1>5. dcfg' \in [Port -> DeviceStatus] /\ (Untampered => dcfg' = dev0)
  BY <1>1, <1>3, <1>4 DEF IInv, Faithful
<1>6. /\ iWk' \in InterfaceWorker /\ iWk'.q \in Port /\ iWk'.pc \in {"patch", "neighbor"}
      /\ BudgetType' /\ (Untampered' => Untampered)
  <2>1. CASE Refused(iWk.out)
    BY <1>1, <2>1, RefusedStep
  <2>2. CASE iWk' = Failed(iWk.q, iWk.read, iWk.out) /\ UNCHANGED budget
    BY <1>1, <2>2, FailedType, Frames DEF Untampered, budget
  <2>3. CASE /\ iWk' = [iWk EXCEPT !.pc = "neighbor", !.spec = "Unknown",
                          !.out = [state |-> "Ready",
                                   sadmin |->
                                     AgentDeviceStatusToAPIAdminState(Desired)]]
             /\ UNCHANGED budget
    <3> DEFINE out == [state |-> "Ready",
                       sadmin |-> AgentDeviceStatusToAPIAdminState(Desired)]
    <3>1. out \in InterfaceStatus
      BY ConversionType, Zenon DEF InterfaceStatus
    <3>2. iWk' = [iWk EXCEPT !.pc = "neighbor", !.spec = "Unknown", !.out = out]
      BY <2>3
    <3> HIDE DEF out
    <3>3. iWk' \in InterfaceWorker /\ iWk'.q = iWk.q /\ iWk'.pc = "neighbor"
      BY <1>1, <3>1, <3>2, Zenon DEF InterfaceWorker, AdminState
    <3>4. QED
      BY <1>1, <2>3, <3>3, Frames DEF Untampered, budget
  <2>4. QED
    BY <2>1, <2>2, <2>3 DEF SetInterfaceAdminStatus
<1>7. TypeOK' /\ HasPort'
  BY <1>2, <1>5, <1>6 DEF IInv, TypeOK, ClusterTypeOK, BudgetType, HasPort,
     api, cache, watch, queue
<1>8. Untampered' => Faithful'
  BY <1>2, <1>5, <1>6 DEF IInv, Faithful, FaithfulObject, FaithfulListing,
     FaithfulSpec, Shown, api, cache
<1>9. QED
  BY <1>7, <1>8 DEF IInv

\* The deferred patch of a SwitchInterface touches its status only.
LEMMA PatchInterfaceStep ==
  ASSUME IInv, PatchInterface, UNCHANGED sWk
  PROVE  IInv'
<1> DEFINE q == iWk.q
<1>1. /\ TypeOK /\ q \in Port /\ QueueType /\ BudgetType /\ WorkerType
      /\ iWk.out \in InterfaceStatus
      /\ swi[q] \in SwitchInterface \cup {NoObj}
  BY DEF IInv, TypeOK, ClusterTypeOK, QueueType, BudgetType, WorkerType,
         InterfaceWorker, HasPort, PatchInterface
<1>2. UNCHANGED <<cache, swQ, swT, device, budget>> /\ iWk' = Resting
      /\ ifQ' \subseteq Port
  BY <1>1 DEF PatchInterface, QueueType
<1>3. QueueType' /\ BudgetType' /\ (Untampered' => Untampered)
  BY <1>1, <1>2, Frames DEF QueueType, Untampered, budget
<1>4. Resting \in InterfaceWorker /\ Resting.pc = "idle"
  BY RestingType DEF Resting
<1>5. WorkerType' /\ FaithfulSpec'
  BY <1>1, <1>2, <1>4 DEF WorkerType, HasPort, FaithfulSpec
<1>6. CASE UNCHANGED <<api, watch>>
  <2>1. TypeOK' /\ HasPort'
    BY <1>1, <1>2, <1>5, <1>6, ZenonT(40)
       DEF TypeOK, ClusterTypeOK, HasPort, QueueType,
       WorkerType, api, watch, cache, device, budget
  <2>2. Untampered' => Faithful'
    BY <1>2, <1>3, <1>5, <1>6, Zenon DEF IInv, Faithful, FaithfulObject,
       FaithfulListing, Shown, api, cache, device
  <2>3. QED
    BY <2>1, <2>2 DEF IInv
<1>7. CASE swi[q] # NoObj /\ ~UNCHANGED <<api, watch>>
  <2> DEFINE s == Merged(swi[q].state, iWk.out.state)
             a == Merged(swi[q].sadmin, iWk.out.sadmin)
             o == [swi[q] EXCEPT !.state = s, !.sadmin = a]
  <2>1. PutInterface(q, o)
    BY <1>1, <1>7, Zenon DEF PatchInterface, SwitchInterface
  <2>2. s \in {"", "Pending", "Ready", "Failed"} /\ a \in {"", "Up", "Down"}
    BY <1>1, <1>7, Zenon DEF Merged, SwitchInterface, InterfaceStatus
  <2> HIDE DEF s, a
  <2>3. o \in SwitchInterface /\ o.admin = swi[q].admin
    BY <1>1, <1>7, <2>2, Zenon DEF SwitchInterface
  <2> HIDE DEF o
  <2>4. Untampered =>
          /\ swi[q].admin = Shown(q)
          /\ \A r \in Port : r \in sWk'.todo => sWk'.seen[r] = dev0[r]
    BY <1>1, <1>7 DEF IInv, Faithful, FaithfulObject, FaithfulListing
  <2> HIDE DEF q
  <2>5. QED
    BY <1>1, <1>2, <1>3, <1>5, <2>1, <2>3, <2>4, InterfaceWrite
<1>8. QED
  BY <1>6, <1>7 DEF PatchInterface, api, watch

-----------------------------------------------------------------------------
\* The steps of the cluster, the switch and the users.

\* Watches, timer, SONiC and garbage collector preserve the invariant.
LEMMA RuntimeStep ==
  ASSUME IInv, Runtime
  PROVE  IInv'
<1>1. UNCHANGED <<sWk, iWk>> /\ TypeOK /\ QueueType /\ BudgetType /\ WorkerType
  BY ZenonT(40)
     DEF IInv, Runtime, TypeOK, ClusterTypeOK, QueueType, BudgetType, WorkerType
<1>2. CASE DeliverSwitch
  BY <1>1, <1>2, Zenon
     DEF DeliverSwitch, IInv, TypeOK, ClusterTypeOK, HasPort, Untampered,
     Faithful, FaithfulObject, FaithfulListing, FaithfulSpec, Shown, api, device, budget
<1>3. CASE TimerFires
  BY <1>1, <1>3, Zenon
     DEF TimerFires, IInv, TypeOK, ClusterTypeOK, HasPort, Untampered,
     Faithful, FaithfulObject, FaithfulListing, FaithfulSpec, Shown,
     api, cache, watch, device, budget
<1>4. ASSUME NEW q \in Port, DeliverInterface(q) PROVE IInv'
  <2>1. TypeOK' /\ HasPort'
    BY <1>1, <1>4 DEF DeliverInterface, IInv, TypeOK, ClusterTypeOK, HasPort,
       api, device, budget
  <2>2. Untampered' => Faithful'
    BY <1>1, <1>4 DEF DeliverInterface, IInv, TypeOK, ClusterTypeOK, Untampered,
       Faithful, FaithfulObject, FaithfulListing, FaithfulSpec, Shown,
       api, device, budget
  <2>3. QED
    BY <2>1, <2>2 DEF IInv
<1>5. ASSUME NEW q \in Port, DeviceFollows(q) PROVE IInv'
  <2>1. TypeOK' /\ HasPort'
    BY <1>1, <1>5 DEF DeviceFollows, IInv, TypeOK, ClusterTypeOK, HasPort,
       api, cache, watch, queue, budget
  <2>2. ~Untampered'
    BY <1>1, <1>5 DEF DeviceFollows, IInv, Untampered, Faithful, budget
  <2>3. QED
    BY <2>1, <2>2 DEF IInv
<1>6. ASSUME NEW q \in Port, GarbageCollect(q) PROVE IInv'
  <2> DEFINE o == [swi[q] EXCEPT !.del = TRUE]
  <2>1. PutInterface(q, o) /\ UNCHANGED <<cache, queue, device, budget>>
        /\ swi[q] # NoObj
    BY <1>6 DEF GarbageCollect
  <2>2. o \in SwitchInterface /\ o.admin = swi[q].admin
    BY <1>1, <2>1, Zenon DEF TypeOK, ClusterTypeOK, SwitchInterface
  <2>3. QueueType' /\ BudgetType' /\ WorkerType' /\ (Untampered' => Untampered)
    BY <1>1, <2>1, Frames DEF Untampered, budget
  <2>4. Untampered =>
          /\ swi[q].admin = Shown(q)
          /\ \A r \in Port : r \in sWk'.todo => sWk'.seen[r] = dev0[r]
          /\ FaithfulSpec'
    BY <1>1, <2>1 DEF IInv, Faithful, FaithfulObject, FaithfulListing,
       FaithfulSpec, Shown, device
  <2> HIDE DEF o
  <2>5. QED
    BY <2>1, <2>2, <2>3, <2>4, InterfaceWrite
<1>7. QED
  BY <1>2, <1>3, <1>4, <1>5, <1>6 DEF Runtime

\* An edit of a user is a disturbance, after which only types are promised.
LEMMA UsersStep ==
  ASSUME IInv, Users
  PROVE  IInv'
<1>1. UNCHANGED <<sWk, iWk>> /\ TypeOK /\ HasPort /\ QueueType /\ BudgetType /\ WorkerType
  BY DEF IInv, Users, TypeOK, ClusterTypeOK, QueueType, BudgetType, WorkerType
<1>2. ASSUME NEW q \in Port, NEW o \in SwitchInterface, NEW kind,
             Edit(kind), PutInterface(q, o), UNCHANGED <<cache, queue, device>>
      PROVE  IInv'
  <2>1. QueueType' /\ WorkerType' /\ BudgetType' /\ ~Untampered'
    BY <1>1, <1>2, Frames, BudgetSteps, Zenon DEF Untampered
  <2>2. QED
    BY <1>2, <2>1, InterfaceWrite
<1>3. ASSUME NEW q \in Port, NEW a \in AdminState,
             UserSetsAdminState(q, a) \/ UserCreatesInterface(q, a)
      PROVE  IInv'
  <2>1. swi[q] # NoObj => [swi[q] EXCEPT !.admin = a] \in SwitchInterface
    BY <1>1, <1>3, Zenon DEF TypeOK, ClusterTypeOK, SwitchInterface
  <2>2. NewInterface(FALSE, a) \in SwitchInterface
    BY <1>3, NewInterfaceType, Zenon
  <2>3. QED
    BY <1>2, <1>3, <2>1, <2>2, Zenon DEF UserSetsAdminState, UserCreatesInterface
<1>4. ASSUME NEW q \in Port, UserDeletesInterface(q) PROVE IInv'
  <2>1. swi[q] # NoObj => [swi[q] EXCEPT !.del = TRUE] \in SwitchInterface
    BY <1>1, <1>4, Zenon DEF TypeOK, ClusterTypeOK, SwitchInterface
  <2>2. QED
    BY <1>2, <1>4, <2>1 DEF UserDeletesInterface
<1>5. CASE UserDeletesSwitch
  <2>1. [sw EXCEPT !.del = TRUE] \in Switch
    BY <1>1, <1>5, Zenon DEF UserDeletesSwitch, TypeOK, ClusterTypeOK, Switch
  <2>2. /\ sw' \in Switch \cup {NoObj} /\ dSw' \in BOOLEAN
        /\ swi' = swi /\ dSwi' = dSwi /\ dOwned' = dOwned
    BY <1>1, <1>5, <2>1, PutSwitchType DEF UserDeletesSwitch
  <2>3. BudgetType' /\ ~Untampered' /\ UNCHANGED <<cache, queue, device>>
    BY <1>1, <1>5, BudgetSteps, Zenon DEF UserDeletesSwitch, Untampered
  <2>4. QED
    BY <1>1, <2>2, <2>3 DEF IInv, TypeOK, ClusterTypeOK, BudgetType, HasPort,
       cache, queue, device
<1>6. QED
  BY <1>3, <1>4, <1>5 DEF Users

\* The agent coming and going preserves the invariant.
LEMMA AgentStep ==
  ASSUME IInv, AgentComes \/ AgentGoes, UNCHANGED <<sWk, iWk>>
  PROVE  IInv'
<1>1. TypeOK' /\ HasPort'
  <2>1. ApiType /\ WatchType /\ CacheType /\ QueueType /\ DeviceType
        /\ BudgetType /\ WorkerType
    BY Parts DEF IInv
  <2>2. UNCHANGED <<api, watch, cache, queue, dcfg, dst, alias, dev0>>
        /\ up' \in BOOLEAN
    BY Zenon DEF AgentComes, AgentGoes
  <2>3. BudgetType'
    BY <2>1, EventStep, Zenon DEF AgentComes, AgentGoes, BudgetType, budget
  <2>4. DeviceType'
    BY <2>1, <2>2 DEF DeviceType
  <2>5. ApiType' /\ WatchType' /\ CacheType' /\ QueueType' /\ WorkerType'
    BY <2>1, <2>2, Frames
  <2>6. QED
    BY <2>3, <2>4, <2>5, PartsNext
<1>2. Untampered' => Faithful'
  BY DEF IInv, AgentComes, AgentGoes, Untampered, Faithful, FaithfulObject,
         FaithfulListing, FaithfulSpec, Shown, api, cache, budget
<1>3. QED
  BY <1>1, <1>2 DEF IInv

\* A restarted manager starts from faithful objects.
LEMMA RestartStep ==
  ASSUME IInv, Restart
  PROVE  IInv'
<1>1. Idle \in SwitchWorker /\ Idle.todo = {}
      /\ Resting \in InterfaceWorker /\ Resting.pc = "idle"
  BY IdleType, RestingType DEF Idle, Resting
<1>2. TypeOK' /\ HasPort'
  <2>1. ApiType /\ DeviceType /\ BudgetType
    BY Parts DEF IInv
  <2>2. ApiType' /\ DeviceType'
    BY <2>1, Frames DEF Restart
  <2>3. BudgetType'
    BY <2>1, EventStep, Zenon DEF Restart, BudgetType
  <2>4. WatchType' /\ CacheType' /\ QueueType'
    BY <2>1, Zenon DEF Restart, WatchType, CacheType, QueueType, ApiType
  <2>5. WorkerType'
    BY <1>1, ZenonT(40) DEF Restart, WorkerType, HasPort
  <2>6. QED
    BY <2>2, <2>3, <2>4, <2>5, PartsNext
<1>3. Untampered' => Faithful'
  BY <1>1 DEF IInv, Restart, Untampered, Faithful, FaithfulObject,
     FaithfulListing, FaithfulSpec, Shown, api, device
<1>4. QED
  BY <1>2, <1>3 DEF IInv

-----------------------------------------------------------------------------
\* The invariant holds of a new Switch.
LEMMA InitIInv == Init => IInv
<1> SUFFICES ASSUME Init PROVE IInv
  OBVIOUS
<1>1. Idle \in SwitchWorker /\ Idle.todo = {}
      /\ Resting \in InterfaceWorker /\ Resting.pc = "idle"
  BY IdleType, RestingType DEF Idle, Resting
<1>2. TypeOK /\ HasPort
  <2>1. ApiType /\ WatchType /\ CacheType /\ QueueType
    BY NewSwitchType, Zenon
       DEF Init, ClusterInit, ApiType, WatchType, CacheType, QueueType
  <2>2. DeviceType
    BY DEF Init, ClusterInit, DeviceType
  <2>3. BudgetType
    <3>1. 0 \in 0..MaxEvents
      OBVIOUS
    <3>2. QED
      BY <3>1, Zenon DEF Init, ClusterInit, BudgetType
  <2>4. WorkerType
    BY <1>1 DEF Init, WorkerType, HasPort
  <2>5. QED
    BY <2>1, <2>2, <2>3, <2>4, Parts
<1>3. Faithful
  BY <1>1 DEF Init, ClusterInit, Faithful, FaithfulObject, FaithfulListing,
     FaithfulSpec
<1>4. QED
  BY <1>2, <1>3 DEF IInv

\* Every step of the operator preserves the invariant.
LEMMA NextIInv == IInv /\ [Next]_vars => IInv'
<1> SUFFICES ASSUME IInv, [Next]_vars PROVE IInv'
  OBVIOUS
<1>1. CASE SwitchReconciler /\ UNCHANGED iWk
  BY <1>1, StartSwitchStep, SwitchRequestStep, EnsureInterfaceStep, PatchSwitchStep
     DEF SwitchReconciler
<1>2. CASE InterfaceReconciler /\ UNCHANGED sWk
  BY <1>2, StartInterfaceStep, ReadStep, SetAdminStep, PatchInterfaceStep
     DEF InterfaceReconciler
<1>3. CASE Runtime
  BY <1>3, RuntimeStep
<1>4. CASE Users
  BY <1>4, UsersStep
<1>5. CASE (AgentComes \/ AgentGoes) /\ UNCHANGED <<sWk, iWk>>
  BY <1>5, AgentStep, ZenonT(40)
<1>6. CASE Restart
  BY <1>6, RestartStep
<1>7. CASE UNCHANGED vars
  BY <1>7, ZenonT(40) DEF vars, IInv, TypeOK, ClusterTypeOK, HasPort, Untampered, Faithful,
     FaithfulObject, FaithfulListing, FaithfulSpec, Shown,
     api, cache, watch, queue, device, budget
<1>8. QED
  BY <1>1, <1>2, <1>3, <1>4, <1>5, <1>6, <1>7 DEF Next

\* The inductive invariant of the manager.
THEOREM OperatorInvariant == Spec => []IInv
  BY InitIInv, NextIInv, PTL DEF Spec

\* Objects, caches, queues and workers keep their types, whatever the users,
\* the agent and the API server do and however often the manager restarts.
THEOREM OperatorTypeOK == Spec => []TypeOK
<1>1. IInv => TypeOK
  BY DEF IInv
<1>2. QED
  BY <1>1, OperatorInvariant, PTL

\* Discovering a switch and reconciling its interfaces changes no admin status
\* in CONFIG_DB, as long as STATE_DB can be read and nobody edits an interface:
\* agent errors, outages, restarts and stale caches included.
THEOREM OperatorPreservesDevice == Spec => []DiscoveryPreservesDevice
<1>1. IInv => DiscoveryPreservesDevice
  BY DEF IInv, Untampered, Faithful, DiscoveryPreservesDevice
<1>2. QED
  BY <1>1, OperatorInvariant, PTL

-----------------------------------------------------------------------------
\* Convergence.  What makes Converged inductive: the cache lags only while an
\* event is on the way, and an object that is neither announced nor queued is
\* either settled or in the hands of a worker that will settle it, queue it
\* again, or change it and so announce it.

Asking == {"info", "list", "ensure"}

SwitchInv ==
  /\ sw # NoObj => sw.fin \/ ~sw.del
  /\ ~dSw => cSw = sw
  /\ sw # NoObj /\ cSw # NoObj /\ cSw.state = "Ready" => sw.state = "Ready"
  /\ sWk.pc \in Asking =>
       /\ sWk.read.state = "Ready" /\ sWk.out.state = "Ready"
       /\ sw # NoObj => sw.state = "Ready"
  /\ sWk.pc = "patch" =>
       \/ sWk.out.state = "Ready"
       \/ sWk.out.state = "same" /\ (sw # NoObj => sw.state = "Ready")
  /\ ~dSw /\ ~swQ /\ sw # NoObj =>
       sw.fin /\ ~sw.del /\ (sWk.pc = "idle" => sw.state = "Ready")

Enforced(q) == dcfg[q] = APIAdminStateToAgentDeviceStatus(swi[q].admin)

Settled(q) ==
  swi[q].state = "Ready" /\ swi[q].sadmin = swi[q].admin /\ Enforced(q)

\* What the deferred patch of the worker makes of q.
WillSettle(q) ==
  /\ Merged(swi[q].state, iWk.out.state) = "Ready"
  /\ Merged(swi[q].sadmin, iWk.out.sadmin) = swi[q].admin
  /\ Enforced(q)

OnIt(q) == iWk.pc # "idle" /\ iWk.q = q

InHand(q) ==
  /\ iWk.pc # "patch" => iWk.read = InterfaceStatusOf(swi[q])
  /\ iWk.pc \in {"get", "alias", "admin"} => iWk.spec = swi[q].admin
  /\ iWk.pc = "neighbor" =>
       iWk.out.state = "Ready" /\ iWk.out.sadmin = swi[q].admin /\ Enforced(q)
  /\ iWk.pc = "patch" =>
       \/ iWk.err = TRUE
       \/ swi[q].state = "" /\ iWk.out.state = "Pending"
       \/ WillSettle(q)

InterfaceInv(q) ==
  /\ swi[q] # NoObj => swi[q].fin \/ ~swi[q].del
  /\ q \notin dSwi => cSwi[q] = swi[q]
  /\ q \notin dSwi /\ q \notin ifQ /\ swi[q] # NoObj =>
       swi[q].fin /\ ~swi[q].del /\ (IF OnIt(q) THEN InHand(q) ELSE Settled(q))

CInv == SwitchInv /\ \A q \in Port : InterfaceInv(q)

\* A step that leaves the Switch, its cache and its worker alone.
LEMMA SwitchFrame ==
  ASSUME SwitchInv, UNCHANGED <<sw, cSw, dSw, sWk>>, swQ => swQ'
  PROVE  SwitchInv'
  BY ZenonT(40) DEF SwitchInv

\* A step that leaves one interface, its cache and the interface worker alone.
LEMMA InterfaceFrame ==
  ASSUME NEW q \in Port, InterfaceInv(q), UNCHANGED iWk,
         swi'[q] = swi[q], cSwi'[q] = cSwi[q], dcfg'[q] = dcfg[q],
         q \in dSwi' <=> q \in dSwi, q \in ifQ => q \in ifQ'
  PROVE  InterfaceInv(q)'
  BY Zenon DEF InterfaceInv, Settled, OnIt, InHand, WillSettle, Enforced

\* The same for all interfaces at once.
LEMMA InterfacesFrame ==
  ASSUME \A q \in Port : InterfaceInv(q), UNCHANGED <<iWk, swi, cSwi, dcfg, dSwi>>,
         ifQ \subseteq ifQ'
  PROVE  \A q \in Port : InterfaceInv(q)'
  BY InterfaceFrame

\* What storing a Switch does to the object and to its events.
LEMMA PutSwitchStored ==
  ASSUME TypeOK, NEW o \in Switch, PutSwitch(o)
  PROVE  /\ sw' # NoObj => sw' = o /\ (o.fin \/ ~o.del)
         /\ sw' # sw => dSw'
         /\ dSw => dSw'
         /\ dSw' => dSw \/ sw' # sw
         /\ UNCHANGED <<swi, dSwi, dOwned>>
  BY Zenon DEF PutSwitch, Collected, TypeOK, ClusterTypeOK, Switch

\* Storing a SwitchInterface keeps the invariant of every interface: the one
\* that changed is announced.
LEMMA PutInterfaceInv ==
  ASSUME TypeOK, \A r \in Port : InterfaceInv(r),
         NEW q \in Port, NEW o \in SwitchInterface, PutInterface(q, o),
         UNCHANGED <<iWk, cSwi, dcfg>>, ifQ \subseteq ifQ'
  PROVE  (\A r \in Port : InterfaceInv(r)') /\ UNCHANGED <<sw, dSw>>
<1>1. /\ swi \in [Port -> SwitchInterface \cup {NoObj}]
      /\ swi' = [swi EXCEPT ![q] = Collected(o)]
      /\ dSwi' = IF swi' = swi THEN dSwi ELSE dSwi \cup {q}
      /\ UNCHANGED <<sw, dSw>>
  BY DEF PutInterface, TypeOK, ClusterTypeOK
<1>2. CASE swi' = swi
  BY <1>1, <1>2, InterfacesFrame
<1>3. CASE swi' # swi
  <2>1. ASSUME NEW r \in Port, r # q PROVE InterfaceInv(r)'
    BY <1>1, <1>3, <2>1, InterfaceFrame
  <2>2. swi'[q] # NoObj => swi'[q].fin \/ ~swi'[q].del
    BY <1>1, Zenon DEF Collected, SwitchInterface
  <2>3. q \in dSwi'
    BY <1>1, <1>3, ZenonT(40)
  <2>4. InterfaceInv(q)'
    BY <2>2, <2>3, Zenon DEF InterfaceInv
  <2>5. QED
    BY <1>1, <2>1, <2>4, ZenonT(40)
<1>4. QED
  BY <1>2, <1>3

\* The deferred patch of a Switch leaves a Ready state in place.
LEMMA LeaveState ==
  ASSUME NEW read \in SwitchStatus, NEW out \in SwitchStatus, NEW r
  PROVE  LET w == Leave(read, out, r) IN
         /\ w.pc = "patch" /\ w.res = r
         /\ w.out.state = IF out.state # read.state THEN out.state ELSE "same"
  BY DEF Leave, Changed, Idle

\* Accepting a Switch with the state it has.
LEMMA AcceptState ==
  ASSUME NEW st \in SwitchStatus
  PROVE  LET w == Accept(st) IN
         \/ st.state # "Ready" /\ w.pc = "patch" /\ w.out.state = "Ready"
         \/ /\ st.state = "Ready" /\ w.pc = "info"
            /\ w.read = st /\ w.out = st
<1>1. CASE st.state # "Ready"
  <2> DEFINE ready == [st EXCEPT !.state = "Ready"]
  <2>1. ready \in SwitchStatus /\ ready.state = "Ready"
    BY Zenon DEF SwitchStatus
  <2>2. Accept(st) = Leave(st, ready, "ok")
    BY <1>1 DEF Accept
  <2> HIDE DEF ready
  <2>3. QED
    BY <1>1, <2>1, <2>2, LeaveState
<1>2. CASE st.state = "Ready"
  BY <1>2 DEF Accept, Idle
<1>3. QED
  BY <1>1, <1>2

\* A reconcile of the Switch that is served from a cache up to date either
\* changes the Switch or goes to the agent.
LEMMA StartSwitchConv ==
  ASSUME IInv, CInv, StartSwitch, UNCHANGED iWk
  PROVE  CInv'
<1>1. /\ TypeOK /\ SwitchInv /\ \A q \in Port : InterfaceInv(q)
      /\ cSw \in Switch \cup {NoObj} /\ sw \in Switch \cup {NoObj}
  BY DEF IInv, CInv, TypeOK, ClusterTypeOK
<1>2. UNCHANGED <<cSw, cSwi, ifQ, dcfg>> /\ sWk.pc = "idle"
  BY DEF StartSwitch, cache, device
<1>3. CASE cSw = NoObj /\ UNCHANGED <<api, watch, sWk>>
  <2>1. SwitchInv'
    BY <1>1, <1>2, <1>3 DEF SwitchInv, api, watch
  <2>2. \A q \in Port : InterfaceInv(q)'
    BY <1>1, <1>2, <1>3, InterfacesFrame, ZenonT(40) DEF api, watch
  <2>3. QED
    BY <2>1, <2>2, ZenonT(40) DEF CInv
<1>4. CASE cSw # NoObj /\ cSw.del /\ ~cSw.fin /\ UNCHANGED <<api, watch, sWk>>
  <2>1. SwitchInv'
    BY <1>1, <1>2, <1>4, Zenon DEF SwitchInv, api, watch, Switch
  <2>2. \A q \in Port : InterfaceInv(q)'
    BY <1>1, <1>2, <1>4, InterfacesFrame DEF api, watch
  <2>3. QED
    BY <2>1, <2>2 DEF CInv
<1>5. ASSUME NEW b \in BOOLEAN, cSw # NoObj, cSw.fin = ~b, sw # NoObj,
             PutSwitch([sw EXCEPT !.fin = b]), UNCHANGED sWk
      PROVE  CInv'
  <2> DEFINE o == [sw EXCEPT !.fin = b]
  <2>1. o \in Switch /\ o.fin = b /\ o.state = sw.state
    BY <1>1, <1>5, Zenon DEF Switch
  <2>2. PutSwitch(o)
    BY <1>5
  <2> HIDE DEF o
  <2>3. /\ sw' # NoObj => sw' = o /\ (o.fin \/ ~o.del)
        /\ sw' # sw => dSw'
        /\ dSw => dSw'
        /\ UNCHANGED <<swi, dSwi, dOwned>>
    BY <1>1, <2>1, <2>2, PutSwitchStored
  <2>4. dSw'
    BY <1>1, <1>5, <2>1, <2>3 DEF SwitchInv
  <2>5. SwitchInv'
    BY <1>1, <1>2, <1>5, <2>1, <2>3, <2>4 DEF SwitchInv
  <2>6. \A q \in Port : InterfaceInv(q)'
    BY <1>1, <1>2, <2>3, InterfacesFrame
  <2>7. QED
    BY <2>5, <2>6 DEF CInv
<1>6. CASE /\ cSw # NoObj /\ ~cSw.del /\ cSw.fin
           /\ sWk' = Accept(StatusOf(cSw)) /\ UNCHANGED <<api, watch>>
  <2>1. StatusOf(cSw) \in SwitchStatus /\ StatusOf(cSw).state = cSw.state
    BY <1>1, <1>6, Zenon DEF StatusOf, SwitchStatus, Switch
  <2>2. \/ sWk'.pc = "patch" /\ sWk'.out.state = "Ready"
        \/ /\ cSw.state = "Ready" /\ sWk'.pc = "info"
           /\ sWk'.read.state = "Ready" /\ sWk'.out.state = "Ready"
    BY <1>6, <2>1, AcceptState, ZenonT(40)
  <2>3. SwitchInv'
    BY <1>1, <1>2, <1>6, <2>2 DEF SwitchInv, Asking, api, watch
  <2>4. \A q \in Port : InterfaceInv(q)'
    BY <1>1, <1>2, <1>6, InterfacesFrame DEF api, watch
  <2>5. QED
    BY <2>3, <2>4 DEF CInv
<1>7. CASE cSw # NoObj /\ cSw.fin /\ sw # NoObj
           /\ PutSwitch([sw EXCEPT !.fin = FALSE]) /\ UNCHANGED sWk
  BY <1>5, <1>7, Zenon
<1>8. CASE cSw # NoObj /\ ~cSw.fin /\ sw # NoObj
           /\ PutSwitch([sw EXCEPT !.fin = TRUE]) /\ UNCHANGED sWk
  BY <1>1, <1>5, <1>8, Zenon DEF Switch
<1>9. QED
  BY <1>3, <1>4, <1>6, <1>7, <1>8 DEF StartSwitch, DeleteSwitch

\* What the requests of a reconcile do to the Switch worker: it asks on, or it
\* leaves with the state it came with.
AsksOn ==
  /\ sWk.pc \in Asking
  /\ \/ /\ sWk'.pc \in Asking
        /\ sWk'.read.state = sWk.read.state /\ sWk'.out.state = sWk.out.state
     \/ sWk'.pc = "patch" /\ sWk'.out.state = "same"

\* Such a step preserves the invariant of the Switch.
LEMMA AsksOnConv ==
  ASSUME SwitchInv, UNCHANGED <<sw, cSw, dSw, swQ>>, AsksOn
  PROVE  SwitchInv'
  BY DEF SwitchInv, AsksOn, Asking

\* Leaving a reconcile without a new state.
LEMMA LeavesAsIs ==
  ASSUME SwitchInv, sWk \in SwitchWorker, sWk.pc \in Asking, NEW r,
         NEW out \in SwitchStatus, out.state = "Ready",
         sWk' = Leave(sWk.read, out, r)
  PROVE  AsksOn /\ sWk'.pc = "patch" /\ sWk'.res = r
<1>1. sWk.read \in SwitchStatus /\ sWk.read.state = "Ready"
  BY DEF SwitchInv, SwitchWorker
<1>2. sWk'.pc = "patch" /\ sWk'.out.state = "same" /\ sWk'.res = r
  BY <1>1, LeaveState
<1>3. QED
  BY <1>2 DEF AsksOn

\* The requests that read from the agent.
LEMMA SwitchRequestConv ==
  ASSUME IInv, CInv, GetDeviceInfo \/ ListInterfaces \/ ListPorts, UNCHANGED iWk
  PROVE  CInv'
<1>1. /\ SwitchInv /\ \A q \in Port : InterfaceInv(q)
      /\ sWk \in SwitchWorker /\ sWk.out \in SwitchStatus /\ sWk.pc \in Asking
  BY ZenonT(40)
     DEF IInv, CInv, TypeOK, SwitchWorker, Asking, GetDeviceInfo, ListInterfaces,
         ListPorts
<1>2. UNCHANGED <<sw, swi, cSw, cSwi, dSw, dSwi, swQ, ifQ, dcfg>>
  BY Zenon
     DEF GetDeviceInfo, ListInterfaces, ListPorts, api, cache, watch, queue, device
<1>3. sWk.out.state = "Ready"
  BY <1>1 DEF SwitchInv
<1>4. ASSUME AgentUnavailable PROVE AsksOn
  BY <1>1, <1>3, <1>4, LeavesAsIs DEF AgentUnavailable
<1>5. ASSUME GetDeviceInfo, ~AgentUnavailable PROVE AsksOn
  <2>1. PICK i \in {"", "known"} :
          sWk' = [sWk EXCEPT !.pc = "list", !.out = [@ EXCEPT !.info = i]]
    BY <1>5 DEF GetDeviceInfo
  <2>2. QED
    BY <1>1, <2>1, Zenon DEF AsksOn, Asking, SwitchWorker, SwitchStatus
<1>6. ASSUME ListInterfaces, ~AgentUnavailable PROVE AsksOn
  <2>1. /\ sWk'.pc = "ensure" /\ sWk'.read = sWk.read /\ sWk'.out = sWk.out
    BY <1>1, <1>6, Zenon DEF ListInterfaces, SwitchWorker
  <2>2. QED
    BY <1>1, <2>1, ZenonT(40) DEF AsksOn, Asking
<1>7. ASSUME ListPorts, ~AgentUnavailable PROVE AsksOn
  <2> DEFINE out == [sWk.out EXCEPT !.state = "Ready"]
  <2>1. out \in SwitchStatus /\ out.state = "Ready"
    BY <1>1, Zenon DEF SwitchStatus
  <2>2. sWk' = Leave(sWk.read, out, "ok")
    BY <1>7 DEF ListPorts
  <2> HIDE DEF out
  <2>3. QED
    BY <1>1, <2>1, <2>2, LeavesAsIs
<1>8. AsksOn
  BY <1>4, <1>5, <1>6, <1>7
<1>9. SwitchInv'
  BY <1>1, <1>2, <1>8, AsksOnConv
<1>10. \A q \in Port : InterfaceInv(q)'
  BY <1>1, <1>2, InterfacesFrame
<1>11. QED
  BY <1>9, <1>10, ZenonT(40) DEF CInv

\* What discovery applies to an interface is a legal one, and owned.
LEMMA AppliedType ==
  ASSUME NEW o \in SwitchInterface \cup {NoObj}, NEW a \in AdminState
  PROVE  LET n == Applied(o, a) IN
         /\ n \in SwitchInterface /\ n.own
         /\ (o # NoObj => o.fin \/ ~o.del) => n.fin \/ ~n.del
<1>1. CASE o = NoObj
  BY <1>1, NewInterfaceType, Zenon DEF Applied, NewInterface
<1>2. CASE o # NoObj
  BY <1>2, Zenon DEF Applied, SwitchInterface
<1>3. QED
  BY <1>1, <1>2

\* Discovery announces every interface it changes.
LEMMA EnsureInterfaceConv ==
  ASSUME IInv, CInv, NEW q \in Port, EnsureInterface(q), UNCHANGED iWk
  PROVE  CInv'
<1>1. /\ TypeOK /\ SwitchInv /\ \A r \in Port : InterfaceInv(r)
      /\ sWk \in SwitchWorker /\ sWk.out \in SwitchStatus /\ sWk.pc \in Asking
      /\ sWk.out.state = "Ready" /\ swi[q] \in SwitchInterface \cup {NoObj}
  BY DEF IInv, CInv, TypeOK, ClusterTypeOK, SwitchWorker, Asking, SwitchInv,
         EnsureInterface
<1>2. UNCHANGED <<cSw, cSwi, swQ, ifQ, dcfg>>
  BY DEF EnsureInterface, cache, queue, device
<1>3. CASE /\ PutInterface(q, Applied(swi[q],
                                 AgentDeviceStatusToAPIAdminState(sWk.seen[q])))
           /\ sWk' = [sWk EXCEPT !.todo = @ \ {q}]
  <2>1. AgentDeviceStatusToAPIAdminState(sWk.seen[q]) \in AdminState
    BY ConversionType DEF AdminState
  <2>2. (\A r \in Port : InterfaceInv(r)') /\ UNCHANGED <<sw, dSw>>
    BY <1>1, <1>2, <1>3, <2>1, AppliedType, PutInterfaceInv
  <2>3. AsksOn
    BY <1>1, <1>3 DEF AsksOn, SwitchWorker
  <2>4. QED
    BY <1>1, <1>2, <2>2, <2>3, AsksOnConv DEF CInv
<1>4. CASE sWk' = Leave(sWk.read, sWk.out, "err") /\ UNCHANGED <<api, watch>>
  <2>1. AsksOn
    BY <1>1, <1>4, LeavesAsIs, ZenonT(40)
  <2>2. SwitchInv'
    BY <1>1, <1>2, <1>4, <2>1, AsksOnConv, ZenonT(40) DEF api, watch
  <2>3. \A r \in Port : InterfaceInv(r)'
    BY <1>1, <1>2, <1>4, InterfacesFrame DEF api, watch
  <2>4. QED
    BY <2>2, <2>3, ZenonT(40) DEF CInv
<1>5. QED
  BY <1>3, <1>4 DEF EnsureInterface

\* The deferred patch leaves a Ready Switch behind.
LEMMA PatchSwitchConv ==
  ASSUME PatchMayFail = FALSE, IInv, CInv, PatchSwitch, UNCHANGED iWk
  PROVE  CInv'
<1>1. /\ TypeOK /\ SwitchInv /\ \A r \in Port : InterfaceInv(r)
      /\ sWk.out \in SwitchStatus /\ sw \in Switch \cup {NoObj} /\ sWk.pc = "patch"
  BY DEF IInv, CInv, TypeOK, ClusterTypeOK, SwitchWorker, PatchSwitch
<1>2. UNCHANGED <<cSw, cSwi, ifQ, dcfg>> /\ sWk'.pc = "idle" /\ (swQ => swQ')
  BY Zenon DEF PatchSwitch, cache, device, Idle
<1>3. CASE sw = NoObj /\ UNCHANGED <<api, watch>>
  <2>1. SwitchInv'
    BY <1>1, <1>2, <1>3 DEF SwitchInv, Asking, api, watch
  <2>2. \A r \in Port : InterfaceInv(r)'
    BY <1>1, <1>2, <1>3, InterfacesFrame DEF api, watch
  <2>3. QED
    BY <2>1, <2>2 DEF CInv
<1>4. CASE sw # NoObj /\ PutSwitch([sw EXCEPT !.state = Merged(@, sWk.out.state),
                                              !.info = Merged(@, sWk.out.info)])
  <2> DEFINE s == Merged(sw.state, sWk.out.state)
             i == Merged(sw.info, sWk.out.info)
             o == [sw EXCEPT !.state = s, !.info = i]
  <2>1. PutSwitch(o)
    BY <1>1, <1>4, Zenon DEF Switch
  <2>2. s = "Ready" /\ i \in {"", "known"}
    BY <1>1, <1>4, Zenon DEF Merged, Switch, SwitchStatus, SwitchInv
  <2> HIDE DEF s, i
  <2>3. o \in Switch /\ o.state = "Ready" /\ o.fin = sw.fin /\ o.del = sw.del
    BY <1>1, <1>4, <2>2, Zenon DEF Switch
  <2> HIDE DEF o
  <2>4. /\ sw' # NoObj => sw' = o /\ (o.fin \/ ~o.del)
        /\ sw' # sw => dSw'
        /\ dSw => dSw'
        /\ UNCHANGED <<swi, dSwi, dOwned>>
    BY <1>1, <2>1, <2>3, PutSwitchStored
  <2>5. SwitchInv'
    BY <1>1, <1>2, <1>4, <2>3, <2>4 DEF SwitchInv, Asking
  <2>6. \A r \in Port : InterfaceInv(r)'
    BY <1>1, <1>2, <2>4, InterfacesFrame
  <2>7. QED
    BY <2>5, <2>6 DEF CInv
<1>5. QED
  BY <1>3, <1>4 DEF PatchSwitch

\* A reconcile of a SwitchInterface that is served from a cache up to date
\* changes the object or takes it into the hands of the worker.
LEMMA StartInterfaceConv ==
  ASSUME IInv, CInv, NEW q \in Port, StartInterface(q), UNCHANGED sWk
  PROVE  CInv'
<1>1. /\ TypeOK /\ SwitchInv /\ \A r \in Port : InterfaceInv(r)
      /\ swi \in [Port -> SwitchInterface \cup {NoObj}]
      /\ swi[q] \in SwitchInterface \cup {NoObj}
      /\ cSwi[q] \in SwitchInterface \cup {NoObj}
      /\ iWk.pc = "idle"
  BY DEF IInv, CInv, TypeOK, ClusterTypeOK, StartInterface
<1>2. UNCHANGED <<cSw, cSwi, swQ, dcfg>> /\ ifQ' = ifQ \ {q}
  BY DEF StartInterface, cache, device
<1>3. \A r \in Port \ {q} : r \in ifQ => r \in ifQ'
  BY <1>2
<1>4. ASSUME UNCHANGED <<api, watch>>,
             \A r \in Port \ {q} : InterfaceInv(r)', InterfaceInv(q)'
      PROVE  CInv'
  BY <1>1, <1>2, <1>4, SwitchFrame DEF CInv, api, watch
<1>5. ASSUME swi[q] = NoObj \/ q \in dSwi, UNCHANGED <<api, watch, iWk>>
      PROVE  CInv'
  <2>1. \A r \in Port \ {q} : InterfaceInv(r)'
    BY <1>1, <1>2, <1>3, <1>5, InterfaceFrame, ZenonT(40) DEF api, watch
  <2>2. InterfaceInv(q)'
    BY <1>1, <1>2, <1>5 DEF InterfaceInv, api, watch
  <2>3. QED
    BY <1>4, <1>5, <2>1, <2>2, ZenonT(40)
<1>6. ASSUME NEW b \in BOOLEAN, cSwi[q] # NoObj, cSwi[q].fin = ~b,
             swi[q] # NoObj, PutInterface(q, [swi[q] EXCEPT !.fin = b]),
             UNCHANGED iWk
      PROVE  CInv'
  <2> DEFINE o == [swi[q] EXCEPT !.fin = b]
  <2>1. o \in SwitchInterface /\ o.fin = b
    BY <1>1, <1>6, Zenon DEF SwitchInterface
  <2>2. /\ swi' = [swi EXCEPT ![q] = Collected(o)]
        /\ dSwi' = IF swi' = swi THEN dSwi ELSE dSwi \cup {q}
        /\ UNCHANGED <<sw, dSw>>
    BY <1>6 DEF PutInterface
  <2> HIDE DEF o
  <2>3. Collected(o) # NoObj => Collected(o) = o /\ (o.fin \/ ~o.del)
    BY <2>1, Zenon DEF Collected, SwitchInterface
  <2>4. q \in dSwi'
    BY <1>1, <1>6, <2>1, <2>2, <2>3, ZenonT(40) DEF InterfaceInv
  <2>5. InterfaceInv(q)'
    BY <1>1, <2>2, <2>3, <2>4, Zenon DEF InterfaceInv
  <2>6. ASSUME NEW r \in Port \ {q} PROVE InterfaceInv(r)'
    BY <1>1, <1>2, <1>3, <1>6, <2>2, <2>6, InterfaceFrame
  <2>7. SwitchInv'
    BY <1>1, <1>2, <2>2, SwitchFrame
  <2>8. QED
    BY <2>5, <2>6, <2>7 DEF CInv
<1>7. CASE /\ cSwi[q] # NoObj /\ ~cSwi[q].del /\ cSwi[q].fin
           /\ iWk' = AcceptInterface(q, InterfaceStatusOf(cSwi[q]), cSwi[q].admin)
           /\ UNCHANGED <<api, watch>>
  <2> DEFINE st == InterfaceStatusOf(cSwi[q])
             pending == [st EXCEPT !.state = "Pending"]
  <2>1. iWk'.q = q
    BY <1>7, ZenonT(40) DEF AcceptInterface, Finish, Failed, Resting
  <2>2. ASSUME NEW r \in Port \ {q} PROVE InterfaceInv(r)'
    BY <1>1, <1>2, <1>3, <1>7, <2>1, <2>2, Zenon
       DEF InterfaceInv, Settled, OnIt, Enforced,
       api, watch
  <2>3. st \in InterfaceStatus /\ pending \in InterfaceStatus
        /\ pending.state = "Pending" /\ pending.sadmin # "same"
        /\ st.state = cSwi[q].state
    BY <1>1, <1>7, Zenon DEF InterfaceStatusOf, InterfaceStatus, SwitchInterface
  <2>4. ASSUME cSwi[q] = swi[q] PROVE OnIt(q)' /\ InHand(q)'
    <3>1. CASE st.state = ""
      <4>1. iWk' = Finish(q, st, pending, FALSE)
        BY <1>7, <3>1, Zenon DEF AcceptInterface
      <4> HIDE DEF pending
      <4>2. iWk'.pc = "patch" /\ iWk'.q = q /\ iWk'.out.state = "Pending"
        BY <2>3, <3>1, <4>1, Zenon DEF Finish, Changed, Resting
      <4>3. QED
        BY <1>7, <2>3, <2>4, <3>1, <4>2, Zenon DEF OnIt, InHand, api
    <3>2. CASE st.state # "" /\ SwitchUnknown
      <4>1. iWk' = Failed(q, st, st)
        BY <1>7, <3>2, Zenon DEF AcceptInterface
      <4>2. iWk'.pc = "patch" /\ iWk'.q = q /\ iWk'.err = TRUE
        BY <4>1, ZenonT(40) DEF Failed, Finish, Resting
      <4>3. QED
        BY <4>2, Zenon DEF OnIt, InHand
    <3>3. CASE st.state # "" /\ ~SwitchUnknown
      <4>1. /\ iWk'.pc = "get" /\ iWk'.q = q
            /\ iWk'.spec = cSwi[q].admin /\ iWk'.read = st
        BY <1>7, <3>3, ZenonT(40) DEF AcceptInterface, Resting
      <4>2. QED
        BY <1>7, <2>4, <4>1, Zenon DEF OnIt, InHand, api
    <3>4. QED
      BY <3>1, <3>2, <3>3, ZenonT(40)
  <2>5. InterfaceInv(q)'
    BY <1>1, <1>2, <1>7, <2>4, Zenon DEF InterfaceInv, api, watch
  <2>6. QED
    BY <1>4, <1>7, <2>2, <2>5
<1>8. CASE cSwi[q] # NoObj /\ cSwi[q].fin /\ swi[q] # NoObj
           /\ PutInterface(q, [swi[q] EXCEPT !.fin = FALSE]) /\ UNCHANGED iWk
  BY <1>6, <1>8, Zenon
<1>9. CASE cSwi[q] # NoObj /\ ~cSwi[q].fin /\ swi[q] # NoObj
           /\ PutInterface(q, [swi[q] EXCEPT !.fin = TRUE]) /\ UNCHANGED iWk
  BY <1>1, <1>6, <1>9, Zenon DEF SwitchInterface
<1>10. CASE cSwi[q] = NoObj
  <2>1. UNCHANGED <<api, watch, iWk>>
    BY <1>10 DEF StartInterface
  <2>2. swi[q] = NoObj \/ q \in dSwi
    BY <1>1, <1>10 DEF InterfaceInv
  <2>3. QED
    BY <1>5, <2>1, <2>2
<1>11. CASE cSwi[q] # NoObj /\ cSwi[q].del
  <2>1. DeleteInterface(q) /\ UNCHANGED iWk
    BY <1>11 DEF StartInterface
  <2>2. CASE cSwi[q].fin
    BY <1>8, <1>11, <2>1, <2>2 DEF DeleteInterface
  <2>3. CASE ~cSwi[q].fin
    <3>1. swi[q] = NoObj \/ q \in dSwi
      BY <1>1, <1>11, <2>3 DEF InterfaceInv
    <3>2. UNCHANGED <<api, watch, iWk>>
      BY <2>1, <2>3 DEF DeleteInterface
    <3>3. QED
      BY <1>5, <3>1, <3>2, ZenonT(40)
  <2>4. QED
    BY <2>2, <2>3
<1>12. CASE cSwi[q] # NoObj /\ ~cSwi[q].del
  <2>1. CASE cSwi[q].fin
    BY <1>7, <1>12, <2>1 DEF StartInterface
  <2>2. CASE ~cSwi[q].fin
    BY <1>9, <1>12, <2>2, ZenonT(40) DEF StartInterface
  <2>3. QED
    BY <2>1, <2>2
<1>13. QED
  BY <1>10, <1>11, <1>12


\* A step of the worker on its interface: everything else stays, and an
\* interface it had in hand it still has in hand.
LEMMA WorkerConv ==
  ASSUME CInv, iWk.pc # "idle", iWk.q \in Port,
         UNCHANGED <<sw, swi, cSw, cSwi, dSw, dSwi, swQ, ifQ, sWk>>,
         \A r \in Port : r # iWk.q => dcfg'[r] = dcfg[r],
         iWk'.pc # "idle", iWk'.q = iWk.q,
         swi[iWk.q] # NoObj /\ InHand(iWk.q) => InHand(iWk.q)'
  PROVE  CInv'
<1>1. SwitchInv'
  BY SwitchFrame DEF CInv
<1>2. ASSUME NEW r \in Port PROVE InterfaceInv(r)'
  <2>1. CASE r = iWk.q
    BY <2>1, ZenonT(40) DEF CInv, InterfaceInv, OnIt
  <2>2. CASE r # iWk.q
    BY <2>2, ZenonT(40) DEF CInv, InterfaceInv, OnIt, Settled, Enforced
  <2>3. QED
    BY <2>1, <2>2, ZenonT(40)
<1>3. QED
  BY <1>1, <1>2 DEF CInv

\* A request that is refused leaves a reconcile to be tried again.
LEMMA RefusedInHand ==
  ASSUME NEW st, Refused(st)
  PROVE  iWk'.pc = "patch" /\ iWk'.q = iWk.q /\ \A q : InHand(q)'
<1>1. iWk'.pc = "patch" /\ iWk'.q = iWk.q /\ iWk'.err = TRUE
  BY DEF Refused, Failed, Finish, Resting
<1>2. QED
  BY <1>1, Zenon DEF InHand

\* The requests that read the interface, its alias and its neighbor.
LEMMA ReadConv ==
  ASSUME IInv, CInv, GetInterfaceByAbstractName \/ SetInterfaceAliasName
                       \/ GetInterfaceNeighbor, UNCHANGED sWk
  PROVE  CInv'
<1> DEFINE q == iWk.q
<1>1. /\ iWk \in InterfaceWorker /\ q \in Port /\ iWk.pc # "idle"
      /\ iWk.read \in InterfaceStatus /\ iWk.out \in InterfaceStatus
      /\ swi[q] \in SwitchInterface \cup {NoObj}
  BY ZenonT(40) DEF IInv, TypeOK, ClusterTypeOK, InterfaceWorker, HasPort,
         GetInterfaceByAbstractName, SetInterfaceAliasName, GetInterfaceNeighbor
<1>2. UNCHANGED <<sw, swi, cSw, cSwi, dSw, dSwi, swQ, ifQ, sWk, dcfg>>
  BY ZenonT(40)
     DEF GetInterfaceByAbstractName, SetInterfaceAliasName, GetInterfaceNeighbor,
         api, cache, watch, queue, device
<1>3. CASE Refused(iWk.out) \/ Refused(iWk.read)
  BY <1>1, <1>2, <1>3, RefusedInHand, WorkerConv, Zenon
<1>4. ASSUME iWk.pc \in {"get", "alias"}, iWk'.pc \in {"alias", "admin"},
             iWk'.q = q, iWk'.spec = iWk.spec, iWk'.read = iWk.read
      PROVE  CInv'
  <2>1. InHand(q) => InHand(q)'
    BY <1>2, <1>4, ZenonT(40) DEF InHand
  <2>2. QED
    BY <1>1, <1>2, <1>4, <2>1, WorkerConv, ZenonT(40)
<1>5. CASE GetInterfaceByAbstractName /\ ~Refused(iWk.out)
  <2>1. PICK misread \in BOOLEAN :
          iWk' = [iWk EXCEPT
                  !.pc = IF iWk.q \in alias THEN "admin" ELSE "alias",
                  !.out = [@ EXCEPT !.sadmin =
                             AgentDeviceStatusToAPIAdminState(
                               Observed(iWk.q, misread))]]
    BY <1>5, Zenon DEF GetInterfaceByAbstractName
  <2>2. /\ iWk'.pc \in {"alias", "admin"} /\ iWk'.q = q /\ iWk'.spec = iWk.spec
        /\ iWk'.read = iWk.read
    BY <1>1, <2>1 DEF InterfaceWorker
  <2>3. QED
    BY <1>4, <1>5, <2>2, ZenonT(40) DEF GetInterfaceByAbstractName
<1>6. CASE SetInterfaceAliasName /\ ~Refused(iWk.read)
  <2>1. iWk' = [iWk EXCEPT !.pc = "admin"] /\ iWk.pc = "alias"
    BY <1>6, ZenonT(40) DEF SetInterfaceAliasName
  <2>2. QED
    BY <1>1, <1>4, <2>1 DEF InterfaceWorker
<1>7. CASE GetInterfaceNeighbor /\ ~Refused(iWk.out)
  <2>1. iWk' = Finish(q, iWk.read, iWk.out, FALSE) /\ iWk.pc = "neighbor"
    BY <1>7, ZenonT(40) DEF GetInterfaceNeighbor
  <2>2. iWk'.pc = "patch" /\ iWk'.q = q
    BY <1>1, <2>1 DEF Finish, Resting
  <2>3. ASSUME swi[q] # NoObj, InHand(q) PROVE InHand(q)'
    <3>1. /\ iWk.out.state = "Ready" /\ iWk.out.sadmin = swi[q].admin /\ Enforced(q)
          /\ iWk.read = InterfaceStatusOf(swi[q])
      BY <2>1, <2>3, Zenon DEF InHand
    <3>2. CASE iWk.out.sadmin # "same"
      <4>1. /\ Merged(iWk.read.state, iWk'.out.state) = "Ready"
            /\ Merged(iWk.read.sadmin, iWk'.out.sadmin) = swi[q].admin
        BY <1>1, <2>1, <3>1, <3>2, ZenonT(40) DEF Finish, Changed, Merged, Resting
      <4>2. WillSettle(q)'
        <5>1. iWk.read.state = swi[q].state /\ iWk.read.sadmin = swi[q].sadmin
          BY <3>1 DEF InterfaceStatusOf
        <5>2. QED
          BY <1>2, <2>2, <3>1, <4>1, <5>1, ZenonT(40) DEF WillSettle, Enforced
      <4>3. QED
        BY <2>2, <4>2 DEF InHand
    <3>3. QED
      BY <1>1, <2>3, <3>1, <3>2, Zenon DEF SwitchInterface, AdminState
  <2>4. QED
    BY <1>1, <1>2, <2>2, <2>3, WorkerConv
<1>8. QED
  BY <1>3, <1>5, <1>6, <1>7, ZenonT(40)

\* The request that writes the admin status of the spec it read.
LEMMA SetAdminConv ==
  ASSUME IInv, CInv, SetInterfaceAdminStatus, UNCHANGED sWk
  PROVE  CInv'
<1> DEFINE q == iWk.q
<1>1. /\ iWk \in InterfaceWorker /\ q \in Port /\ iWk.pc = "admin"
      /\ iWk.spec \in AdminState /\ dcfg \in [Port -> DeviceStatus]
  BY DEF IInv, TypeOK, ClusterTypeOK, InterfaceWorker, HasPort,
         SetInterfaceAdminStatus
<1>2. UNCHANGED <<sw, swi, cSw, cSwi, dSw, dSwi, swQ, ifQ, sWk>>
  BY DEF SetInterfaceAdminStatus, api, cache, watch, queue
<1>3. dcfg' = dcfg \/ dcfg' = [dcfg EXCEPT ![q] = Desired]
  BY DEF SetInterfaceAdminStatus
<1>4. \A r \in Port : r # q => dcfg'[r] = dcfg[r]
  BY <1>1, <1>3, ZenonT(40)
<1>5. CASE iWk' = Failed(q, iWk.read, iWk.out)
  <2>1. iWk'.pc = "patch" /\ iWk'.q = q /\ iWk'.err = TRUE
    BY <1>5, ZenonT(40) DEF Failed, Finish, Resting
  <2>2. InHand(q)'
    BY <2>1, Zenon DEF InHand
  <2>3. QED
    BY <1>1, <1>2, <1>4, <2>1, <2>2, WorkerConv, Zenon
<1>6. CASE /\ iWk.spec # "Unknown"
           /\ dcfg' = [dcfg EXCEPT ![q] = Desired]
           /\ iWk' = [iWk EXCEPT !.pc = "neighbor", !.spec = "Unknown",
                        !.out = [state |-> "Ready",
                                 sadmin |->
                                   AgentDeviceStatusToAPIAdminState(Desired)]]
  <2>1. /\ iWk'.pc = "neighbor" /\ iWk'.q = q /\ iWk'.read = iWk.read
        /\ iWk'.out.state = "Ready"
        /\ iWk'.out.sadmin = AgentDeviceStatusToAPIAdminState(Desired)
    BY <1>1, <1>6 DEF InterfaceWorker
  <2>2. AgentDeviceStatusToAPIAdminState(Desired) = iWk.spec
    BY <1>1, <1>6 DEF Desired, AgentDeviceStatusToAPIAdminState,
       APIAdminStateToAgentDeviceStatus, AdminState
  <2>3. dcfg'[q] = APIAdminStateToAgentDeviceStatus(iWk.spec)
    BY <1>1, <1>6, ZenonT(40) DEF Desired
  <2>4. InHand(q) => InHand(q)'
    BY <1>1, <1>2, <2>1, <2>2, <2>3, Zenon DEF InHand, Enforced
  <2>5. QED
    BY <1>1, <1>2, <1>4, <2>1, <2>4, WorkerConv
<1>7. QED
  BY <1>5, <1>6 DEF SetInterfaceAdminStatus, Refused

\* The deferred patch leaves the interface settled, announced or queued.
LEMMA PatchInterfaceConv ==
  ASSUME PatchMayFail = FALSE, IInv, CInv, PatchInterface, UNCHANGED sWk
  PROVE  CInv'
<1>1. PICK q \in Port : q = iWk.q
  BY DEF IInv, TypeOK, HasPort, PatchInterface
<1>2. /\ TypeOK /\ SwitchInv /\ \A r \in Port : InterfaceInv(r)
      /\ iWk.pc = "patch" /\ iWk.out \in InterfaceStatus
      /\ iWk.err \in BOOLEAN
      /\ swi \in [Port -> SwitchInterface \cup {NoObj}]
      /\ swi[q] \in SwitchInterface \cup {NoObj}
  BY DEF IInv, CInv, TypeOK, ClusterTypeOK, InterfaceWorker, PatchInterface
<1>3. UNCHANGED <<cSw, cSwi, swQ, dcfg>> /\ iWk'.pc = "idle"
      /\ ifQ' = IF iWk.err THEN ifQ \cup {q} ELSE ifQ
  BY <1>1, ZenonT(40) DEF PatchInterface, cache, device, Resting
<1>4. ASSUME NEW r \in Port, r # q, swi'[r] = swi[r], r \in dSwi' <=> r \in dSwi
      PROVE  InterfaceInv(r)'
  BY <1>1, <1>2, <1>3, <1>4, ZenonT(40) DEF InterfaceInv, OnIt, Settled, Enforced
<1>5. CASE swi[q] = NoObj /\ UNCHANGED <<api, watch>>
  <2>1. UNCHANGED <<sw, swi, dSw, dSwi>>
    BY <1>5 DEF api, watch
  <2>2. InterfaceInv(q)'
    BY <1>2, <1>3, <1>5, <2>1 DEF InterfaceInv
  <2>3. SwitchInv'
    BY <1>2, <1>3, <2>1, SwitchFrame
  <2>4. QED
    BY <1>4, <2>1, <2>2, <2>3 DEF CInv
<1>6. CASE /\ swi[q] # NoObj
           /\ PutInterface(q, [swi[q] EXCEPT !.state = Merged(@, iWk.out.state),
                                             !.sadmin = Merged(@, iWk.out.sadmin)])
  <2> DEFINE s == Merged(swi[q].state, iWk.out.state)
             a == Merged(swi[q].sadmin, iWk.out.sadmin)
             o == [swi[q] EXCEPT !.state = s, !.sadmin = a]
  <2>1. PutInterface(q, o)
    BY <1>2, <1>6, Zenon DEF SwitchInterface
  <2>2. s \in {"", "Pending", "Ready", "Failed"} /\ a \in {"", "Up", "Down"}
    BY <1>2, <1>6, Zenon DEF Merged, SwitchInterface, InterfaceStatus
  <2>3. /\ o \in SwitchInterface /\ o.fin = swi[q].fin /\ o.del = swi[q].del
        /\ o.admin = swi[q].admin /\ o.state = s /\ o.sadmin = a
    <3> HIDE DEF s, a
    <3>1. QED
      BY <1>2, <1>6, <2>2, Zenon DEF SwitchInterface
  <2> HIDE DEF o
  <2>4. /\ swi' = [swi EXCEPT ![q] = Collected(o)]
        /\ dSwi' = IF swi' = swi THEN dSwi ELSE dSwi \cup {q}
        /\ UNCHANGED <<sw, dSw>>
    BY <2>1 DEF PutInterface
  <2>5. Collected(o) = o
    BY <1>2, <1>6, <2>3, Zenon DEF Collected, InterfaceInv, SwitchInterface
  <2>6. swi'[q] = o
    BY <1>2, <2>4, <2>5
  <2>7. InterfaceInv(q)'
    <3>1. CASE q \in dSwi' \/ q \in ifQ'
      BY <1>2, <1>3, <1>6, <2>3, <2>4, <2>6, <3>1, ZenonT(40)
         DEF InterfaceInv, SwitchInterface
    <3>2. CASE q \notin dSwi' /\ q \notin ifQ'
      <4>1. q \notin dSwi /\ q \notin ifQ /\ iWk.err = FALSE /\ swi[q] = o
        BY <1>2, <1>3, <2>4, <2>6, <3>2
      <4>2. cSwi[q] = o /\ o.fin /\ ~o.del /\ InHand(q)
        BY <1>1, <1>2, <1>6, <4>1, ZenonT(40) DEF InterfaceInv, OnIt
      <4>3. ~(swi[q].state = "" /\ iWk.out.state = "Pending")
        BY <2>3, <4>1, ZenonT(40) DEF Merged
      <4>4. WillSettle(q)
        BY <1>2, <4>1, <4>2, <4>3, ZenonT(40) DEF InHand
      <4>5. Settled(q)
        BY <2>3, <4>1, <4>4 DEF WillSettle, Settled
      <4>6. Settled(q)' /\ ~OnIt(q)'
        BY <1>3, <2>6, <4>1, <4>5 DEF Settled, Enforced, OnIt
      <4>7. QED
        BY <1>3, <2>6, <4>2, <4>6 DEF InterfaceInv
    <3>3. QED
      BY <3>1, <3>2
  <2>8. ASSUME NEW r \in Port, r # q PROVE InterfaceInv(r)'
    BY <1>2, <1>4, <2>4, <2>8
  <2>9. SwitchInv'
    BY <1>2, <1>3, <2>4, SwitchFrame
  <2>10. QED
    BY <2>7, <2>8, <2>9 DEF CInv
<1>7. QED
  BY <1>1, <1>5, <1>6 DEF PatchInterface

\* A write to an interface by anyone but its reconciler.
LEMMA WriteConv ==
  ASSUME IInv, CInv, NEW q \in Port, NEW o \in SwitchInterface, PutInterface(q, o),
         UNCHANGED <<cache, queue, device, sWk, iWk>>
  PROVE  CInv'
<1>1. TypeOK /\ SwitchInv /\ \A r \in Port : InterfaceInv(r)
  BY DEF IInv, CInv
<1>2. UNCHANGED <<cSw, cSwi, swQ, ifQ, dcfg, sWk, iWk>>
  BY DEF cache, queue, device
<1>3. (\A r \in Port : InterfaceInv(r)') /\ UNCHANGED <<sw, dSw>>
  BY <1>1, <1>2, PutInterfaceInv
<1>4. QED
  BY <1>1, <1>2, <1>3, SwitchFrame DEF CInv

\* A step that touches no object, no cache and no worker.
LEMMA QuietConv ==
  ASSUME CInv, UNCHANGED <<api, cache, watch, dcfg, sWk, iWk>>,
         swQ => swQ', ifQ \subseteq ifQ'
  PROVE  CInv'
<1>1. UNCHANGED <<sw, swi, cSw, cSwi, dSw, dSwi, dcfg, sWk, iWk>>
  BY DEF api, cache, watch
<1>2. QED
  BY <1>1, SwitchFrame, InterfacesFrame DEF CInv

\* Watches, timer, SONiC and garbage collector.
LEMMA RuntimeConv ==
  ASSUME IInv, CInv, Runtime
  PROVE  CInv'
<1>1. /\ SwitchInv /\ \A r \in Port : InterfaceInv(r)
      /\ swi \in [Port -> SwitchInterface \cup {NoObj}]
      /\ cSwi \in [Port -> SwitchInterface \cup {NoObj}]
  BY DEF IInv, CInv, TypeOK, ClusterTypeOK
<1>2. UNCHANGED <<sWk, iWk>>
  BY DEF Runtime
<1>3. CASE DeliverSwitch
  <2>1. UNCHANGED <<swi, cSwi, dSwi, ifQ, dcfg>>
    BY <1>3, ZenonT(40) DEF DeliverSwitch, api, device
  <2>2. SwitchInv'
    BY <1>1, <1>2, <1>3 DEF DeliverSwitch, SwitchInv, api
  <2>3. QED
    BY <1>1, <1>2, <2>1, <2>2, InterfacesFrame DEF CInv
<1>4. CASE TimerFires
  BY <1>2, <1>4, QuietConv DEF TimerFires, device
<1>5. ASSUME NEW q \in Port, DeliverInterface(q) PROVE CInv'
  <2>1. /\ UNCHANGED <<sw, swi, cSw, dSw, dcfg>> /\ (swQ => swQ')
        /\ cSwi' = [cSwi EXCEPT ![q] = swi[q]]
        /\ dSwi' = dSwi \ {q} /\ ifQ' = ifQ \cup {q}
    BY <1>5, Zenon DEF DeliverInterface, api, device
  <2>2. InterfaceInv(q)'
    BY <1>1, <2>1 DEF InterfaceInv
  <2>3. ASSUME NEW r \in Port, r # q PROVE InterfaceInv(r)'
    BY <1>1, <1>2, <2>1, <2>3, InterfaceFrame
  <2>4. SwitchInv'
    BY <1>1, <1>2, <2>1, SwitchFrame
  <2>5. QED
    BY <2>2, <2>3, <2>4 DEF CInv
<1>6. ASSUME NEW q \in Port, DeviceFollows(q) PROVE CInv'
  BY <1>2, <1>6, QuietConv DEF DeviceFollows, queue
<1>7. ASSUME NEW q \in Port, GarbageCollect(q) PROVE CInv'
  <2>1. [swi[q] EXCEPT !.del = TRUE] \in SwitchInterface
    BY <1>1, <1>7, Zenon DEF GarbageCollect, SwitchInterface
  <2>2. QED
    BY <1>2, <1>7, <2>1, WriteConv DEF GarbageCollect
<1>8. QED
  BY <1>3, <1>4, <1>5, <1>6, <1>7 DEF Runtime

\* The edits of users.
LEMMA UsersConv ==
  ASSUME IInv, CInv, Users
  PROVE  CInv'
<1>1. /\ TypeOK /\ SwitchInv /\ \A r \in Port : InterfaceInv(r)
      /\ sw \in Switch \cup {NoObj}
      /\ swi \in [Port -> SwitchInterface \cup {NoObj}]
  BY DEF IInv, CInv, TypeOK, ClusterTypeOK
<1>2. UNCHANGED <<sWk, iWk>>
  BY DEF Users
<1>3. ASSUME NEW q \in Port, NEW a \in AdminState,
             UserSetsAdminState(q, a) \/ UserCreatesInterface(q, a)
      PROVE  CInv'
  <2>1. NewInterface(FALSE, a) \in SwitchInterface
    BY <1>3, NewInterfaceType, Zenon
  <2>2. swi[q] # NoObj => [swi[q] EXCEPT !.admin = a] \in SwitchInterface
    BY <1>1, <1>3, Zenon DEF SwitchInterface
  <2>3. QED
    BY <1>2, <1>3, <2>1, <2>2, WriteConv, Zenon
       DEF UserSetsAdminState, UserCreatesInterface
<1>4. ASSUME NEW q \in Port, UserDeletesInterface(q) PROVE CInv'
  <2>1. swi[q] # NoObj => [swi[q] EXCEPT !.del = TRUE] \in SwitchInterface
    BY <1>1, <1>4, Zenon DEF SwitchInterface
  <2>2. QED
    BY <1>2, <1>4, <2>1, WriteConv DEF UserDeletesInterface
<1>5. CASE UserDeletesSwitch
  <2> DEFINE o == [sw EXCEPT !.del = TRUE]
  <2>1. o \in Switch /\ o.del /\ o.state = sw.state
    BY <1>1, <1>5, Zenon DEF UserDeletesSwitch, Switch
  <2>2. /\ PutSwitch(o) /\ sw # NoObj /\ ~sw.del
        /\ UNCHANGED <<cSw, cSwi, swQ, ifQ, dcfg>>
    BY <1>5 DEF UserDeletesSwitch, cache, queue, device
  <2> HIDE DEF o
  <2>3. /\ sw' # NoObj => sw' = o /\ (o.fin \/ ~o.del)
        /\ sw' # sw => dSw'
        /\ UNCHANGED <<swi, dSwi, dOwned>>
    BY <1>1, <2>1, <2>2, PutSwitchStored
  <2>4. dSw'
    BY <2>1, <2>2, <2>3, ZenonT(40)
  <2>5. SwitchInv'
    BY <1>1, <1>2, <2>1, <2>2, <2>3, <2>4, Zenon DEF SwitchInv
  <2>6. QED
    BY <1>1, <1>2, <2>2, <2>3, <2>5, InterfacesFrame DEF CInv
<1>6. QED
  BY <1>3, <1>4, <1>5 DEF Users

\* A restart queues every object.
LEMMA RestartConv ==
  ASSUME CInv, Restart
  PROVE  CInv'
<1>1. SwitchInv /\ \A r \in Port : InterfaceInv(r)
  BY ZenonT(40) DEF CInv
<1>2. /\ UNCHANGED <<sw, swi, dcfg>> /\ cSw' = sw /\ cSwi' = swi /\ dSwi' = {}
      /\ dSw' = FALSE /\ swQ' = (sw # NoObj) /\ ifQ' = {q \in Port : swi[q] # NoObj}
      /\ sWk'.pc = "idle"
  BY ZenonT(40) DEF Restart, api, device, Idle
<1>3. SwitchInv'
  BY <1>1, <1>2, Zenon DEF SwitchInv, Asking
<1>4. ASSUME NEW q \in Port PROVE InterfaceInv(q)'
  BY <1>1, <1>2, Zenon DEF InterfaceInv
<1>5. QED
  BY <1>3, <1>4 DEF CInv

\* Nothing is settled at first, and nothing is forgotten.
LEMMA InitCInv == Init => CInv
<1> SUFFICES ASSUME Init PROVE CInv
  BY ZenonT(40)
<1>1. SwitchInv
  BY Zenon DEF Init, ClusterInit, SwitchInv, Asking, NewSwitch, Idle
<1>2. \A q \in Port : InterfaceInv(q)
  BY Zenon DEF Init, ClusterInit, InterfaceInv
<1>3. QED
  BY <1>1, <1>2 DEF CInv

\* Every step of the operator preserves it.
LEMMA NextCInv ==
  ASSUME PatchMayFail = FALSE
  PROVE  IInv /\ CInv /\ [Next]_vars => CInv'
<1> SUFFICES ASSUME IInv, CInv, [Next]_vars PROVE CInv'
  OBVIOUS
<1>1. CASE SwitchReconciler /\ UNCHANGED iWk
  BY <1>1, StartSwitchConv, SwitchRequestConv, EnsureInterfaceConv, PatchSwitchConv, Zenon
     DEF SwitchReconciler
<1>2. CASE InterfaceReconciler /\ UNCHANGED sWk
  BY <1>2, StartInterfaceConv, ReadConv, SetAdminConv, PatchInterfaceConv, Zenon
     DEF InterfaceReconciler
<1>3. CASE Runtime
  BY <1>3, RuntimeConv
<1>4. CASE Users
  BY <1>4, UsersConv
<1>5. CASE (AgentComes \/ AgentGoes) /\ UNCHANGED <<sWk, iWk>>
  BY <1>5, QuietConv DEF AgentComes, AgentGoes, queue
<1>6. CASE Restart
  BY <1>6, RestartConv
<1>7. CASE UNCHANGED vars
  <2>1. UNCHANGED <<sw, swi, cSw, cSwi, dSw, dSwi, swQ, ifQ, dcfg, sWk, iWk>>
    BY <1>7 DEF vars, api, cache, watch, queue, device
  <2>2. QED
    BY <2>1, SwitchFrame, InterfacesFrame DEF CInv
<1>8. QED
  BY <1>1, <1>2, <1>3, <1>4, <1>5, <1>6, <1>7 DEF Next

\* As long as status patches arrive, an operator at rest has brought every
\* object to Ready and every spec onto the switch, whatever the users, the
\* agent and restarts did, in any order and over any number of ports.
THEOREM OperatorConverges ==
  ASSUME PatchMayFail = FALSE
  PROVE  Spec => []Converged
<1>1. CInv => Converged
  <2> SUFFICES ASSUME CInv, Quiescent
               PROVE  /\ sw # NoObj => sw.state = "Ready" /\ sw.fin /\ ~sw.del
                      /\ \A q \in Port : swi[q] # NoObj =>
                           /\ swi[q].state = "Ready" /\ swi[q].fin /\ ~swi[q].del
                           /\ swi[q].sadmin = swi[q].admin
                           /\ dcfg[q] = APIAdminStateToAgentDeviceStatus(swi[q].admin)
    BY DEF Converged
  <2>1. sw # NoObj => sw.state = "Ready" /\ sw.fin /\ ~sw.del
    BY ZenonT(40) DEF CInv, SwitchInv, Quiescent
  <2>2. ASSUME NEW q \in Port, swi[q] # NoObj
        PROVE  swi[q].fin /\ ~swi[q].del /\ Settled(q)
    BY <2>2 DEF CInv, InterfaceInv, OnIt, Quiescent
  <2>3. QED
    BY <2>1, <2>2, ZenonT(40) DEF Settled, Enforced
<1>2. IInv /\ CInv /\ [Next]_vars => CInv'
  BY NextCInv, Zenon
<1>3. QED
  BY <1>1, <1>2, InitCInv, OperatorInvariant, PTL DEF Spec

-----------------------------------------------------------------------------
\* Discovery.  While the Switch lives and its key is neither queued nor about
\* to be, each port has its owned interface, or an event that queues the Switch
\* is on the way, or the worker has the port still before it.

Announced(q) == q \in dSwi /\ (q \in dOwned \/ Owned(cSwi[q]))

Coming(q) ==
  \/ sWk.pc \in {"info", "list"}
  \/ sWk.pc = "ensure" /\ q \in sWk.todo
  \/ /\ sWk.pc = "patch"
     /\ sWk.res # "ok" \/ (sWk.out.state = "Ready" /\ sw.state # "Ready")

DiscInv(q) ==
  /\ q \in dOwned => q \in dSwi
  /\ Owned(swi[q]) => q \in dOwned \/ Owned(cSwi[q])
  /\ sw # NoObj /\ ~swQ /\ ~swT /\ ~dSw =>
       Owned(swi[q]) \/ Announced(q) \/ Coming(q)

DInv == \A q \in Port : DiscInv(q)

\* A step that leaves the interface, its cache, its events and the Switch
\* worker alone.
LEMMA DiscFrame ==
  ASSUME NEW q \in Port, DiscInv(q), UNCHANGED sWk,
         swi'[q] = swi[q], cSwi'[q] = cSwi[q],
         q \in dSwi' <=> q \in dSwi, q \in dOwned' <=> q \in dOwned,
         swQ => swQ', swT => swT', dSw => dSw', sw' = sw \/ dSw'
  PROVE  DiscInv(q)'
  BY Zenon DEF DiscInv, Announced, Coming

\* The same for all interfaces at once.
LEMMA DiscFrames ==
  ASSUME DInv, UNCHANGED <<sWk, swi, cSwi, dSwi, dOwned>>,
         swQ => swQ', swT => swT', dSw => dSw', sw' = sw \/ dSw'
  PROVE  DInv'
  BY DiscFrame, ZenonT(40) DEF DInv

\* A write to one interface: what it changes it announces, and an interface
\* that is lost was known to be owned.
LEMMA PutInterfaceDisc ==
  ASSUME TypeOK, NEW q \in Port, NEW o, PutInterface(q, o)
  PROVE  /\ \A r \in Port : r # q => /\ swi'[r] = swi[r]
                                     /\ r \in dSwi' <=> r \in dSwi
                                     /\ r \in dOwned' <=> r \in dOwned
         /\ UNCHANGED <<sw, dSw>>
         /\ q \in dSwi => q \in dSwi'
         /\ q \in dOwned => q \in dOwned'
         /\ swi'[q] # swi[q] => q \in dSwi' /\ (Owned(swi'[q]) => q \in dOwned')
         /\ swi'[q] = swi[q] => UNCHANGED <<dSwi, dOwned>>
         /\ swi'[q] = Collected(o)
  BY DEF PutInterface, TypeOK, ClusterTypeOK

\* A step that writes at most one interface and leaves the Switch worker alone.
LEMMA WriteDisc ==
  ASSUME TypeOK, DInv, UNCHANGED <<cSwi, sWk>>, swQ => swQ', swT => swT',
         UNCHANGED <<api, watch>> \/ \E q \in Port : \E o : PutInterface(q, o)
  PROVE  DInv'
<1>1. CASE UNCHANGED <<api, watch>>
  BY <1>1, DiscFrames DEF api, watch
<1>2. ASSUME NEW q \in Port, NEW o, PutInterface(q, o) PROVE DInv'
  <2>1. /\ \A r \in Port : r # q => /\ swi'[r] = swi[r]
                                    /\ r \in dSwi' <=> r \in dSwi
                                    /\ r \in dOwned' <=> r \in dOwned
        /\ UNCHANGED <<sw, dSw>>
        /\ q \in dSwi => q \in dSwi'
        /\ q \in dOwned => q \in dOwned'
        /\ swi'[q] # swi[q] => q \in dSwi' /\ (Owned(swi'[q]) => q \in dOwned')
        /\ swi'[q] = swi[q] => UNCHANGED <<dSwi, dOwned>>
    BY <1>2, PutInterfaceDisc, Zenon
  <2>2. ASSUME NEW r \in Port, r # q PROVE DiscInv(r)'
    BY <2>1, <2>2, DiscFrame, ZenonT(40) DEF DInv
  <2>3. DiscInv(q)'
    <3>1. CASE swi'[q] = swi[q]
      BY <2>1, <3>1, DiscFrame, ZenonT(40) DEF DInv
    <3>2. CASE swi'[q] # swi[q]
      BY <2>1, <3>2, ZenonT(40) DEF DInv, DiscInv, Announced, Coming
    <3>3. QED
      BY <3>1, <3>2, ZenonT(40)
  <2>4. QED
    BY <2>2, <2>3, ZenonT(40) DEF DInv
<1>3. QED
  BY <1>1, <1>2

\* A step of the Switch worker that leaves the objects alone.
LEMMA AskDisc ==
  ASSUME DInv, UNCHANGED <<sw, swi, cSwi, dSwi, dOwned, swQ, swT, dSw>>,
         \A q \in Port : sw # NoObj /\ ~swQ /\ ~swT /\ ~dSw /\ Coming(q) => Coming(q)'
  PROVE  DInv'
  BY DEF DInv, DiscInv, Announced

\* A reconcile of the Switch that is served from a cache up to date goes on to
\* discover, or leaves an event behind.
LEMMA StartSwitchDisc ==
  ASSUME IInv, CInv, DInv, StartSwitch
  PROVE  DInv'
<1>1. /\ TypeOK /\ SwitchInv
      /\ cSw \in Switch \cup {NoObj} /\ sw \in Switch \cup {NoObj}
  BY DEF IInv, CInv, TypeOK, ClusterTypeOK
<1>2. UNCHANGED <<cSw, cSwi, swT>> /\ sWk.pc = "idle"
  BY ZenonT(40) DEF StartSwitch, cache
<1>3. ASSUME UNCHANGED <<swi, dSwi, dOwned>>, dSw' \/ sw' = NoObj PROVE DInv'
  BY <1>2, <1>3, ZenonT(40) DEF DInv, DiscInv
<1>4. CASE cSw = NoObj
  <2>1. UNCHANGED <<api, watch>>
    BY <1>4 DEF StartSwitch
  <2>2. UNCHANGED <<sw, swi, dSw, dSwi, dOwned>>
    BY <2>1 DEF api, watch
  <2>3. QED
    BY <1>1, <1>3, <1>4, <2>2, Zenon DEF SwitchInv
<1>5. CASE cSw # NoObj /\ cSw.del
  <2>1. DeleteSwitch
    BY <1>5 DEF StartSwitch
  <2>2. CASE cSw.fin
    <3> DEFINE o == [sw EXCEPT !.fin = FALSE]
    <3>1. sw # NoObj /\ PutSwitch(o)
      BY <2>1, <2>2 DEF DeleteSwitch
    <3>2. o \in Switch /\ o.fin = FALSE
      BY <1>1, <3>1, Zenon DEF Switch
    <3> HIDE DEF o
    <3>3. /\ sw' # NoObj => sw' = o
          /\ sw' # sw => dSw'
          /\ dSw => dSw'
          /\ UNCHANGED <<swi, dSwi, dOwned>>
      BY <1>1, <3>1, <3>2, PutSwitchStored, ZenonT(40)
    <3>4. dSw' \/ sw' = NoObj
      BY <1>1, <2>2, <3>2, <3>3 DEF SwitchInv
    <3>5. QED
      BY <1>3, <3>3, <3>4
  <2>3. CASE ~cSw.fin
    <3>1. UNCHANGED <<api, watch>>
      BY <2>1, <2>3, ZenonT(40) DEF DeleteSwitch
    <3>2. UNCHANGED <<sw, swi, dSw, dSwi, dOwned>>
      BY <3>1 DEF api, watch
    <3>3. dSw \/ sw = NoObj
      BY <1>1, <1>5, <2>3 DEF SwitchInv
    <3>4. QED
      BY <1>3, <3>2, <3>3
  <2>4. QED
    BY <2>2, <2>3
<1>6. CASE cSw # NoObj /\ ~cSw.del /\ ~cSw.fin
  <2> DEFINE o == [sw EXCEPT !.fin = TRUE]
  <2>1. sw # NoObj /\ PutSwitch(o)
    BY <1>6 DEF StartSwitch
  <2>2. o \in Switch /\ o.fin = TRUE
    BY <1>1, <2>1, Zenon DEF Switch
  <2> HIDE DEF o
  <2>3. /\ sw' # NoObj => sw' = o
        /\ sw' # sw => dSw'
        /\ dSw => dSw'
        /\ UNCHANGED <<swi, dSwi, dOwned>>
    BY <1>1, <2>1, <2>2, PutSwitchStored, ZenonT(40)
  <2>4. dSw' \/ sw' = NoObj
    BY <1>1, <1>6, <2>2, <2>3, ZenonT(40) DEF SwitchInv
  <2>5. QED
    BY <1>3, <2>3, <2>4
<1>7. CASE cSw # NoObj /\ ~cSw.del /\ cSw.fin
  <2>1. sWk' = Accept(StatusOf(cSw)) /\ UNCHANGED <<api, watch>>
    BY <1>7 DEF StartSwitch
  <2>2. StatusOf(cSw) \in SwitchStatus /\ StatusOf(cSw).state = cSw.state
    BY <1>1, <1>7, Zenon DEF StatusOf, SwitchStatus, Switch
  <2>3. \/ cSw.state # "Ready" /\ sWk'.pc = "patch" /\ sWk'.out.state = "Ready"
        \/ sWk'.pc = "info"
    BY <2>1, <2>2, AcceptState
  <2>4. UNCHANGED <<sw, swi, dSw, dSwi, dOwned>>
    BY <2>1, ZenonT(40) DEF api, watch
  <2>5. ~dSw => \A q \in Port : Coming(q)'
    BY <1>1, <2>3, <2>4 DEF Coming, SwitchInv
  <2>6. QED
    BY <1>2, <2>4, <2>5 DEF DInv, DiscInv
<1>8. QED
  BY <1>4, <1>5, <1>6, <1>7, ZenonT(40)

\* The requests that read from the agent: while they are answered or out of
\* reach, no port is skipped.
LEMMA SwitchRequestDisc ==
  ASSUME "fault" \notin Events, IInv, CInv, DInv,
         GetDeviceInfo \/ ListInterfaces \/ ListPorts
  PROVE  DInv'
<1>1. /\ SwitchInv /\ sWk \in SwitchWorker /\ sWk.out \in SwitchStatus
      /\ sWk.pc \in Asking /\ sWk.out.state = "Ready"
  BY ZenonT(40)
     DEF IInv, CInv, SwitchInv, TypeOK, SwitchWorker, Asking, GetDeviceInfo,
         ListInterfaces, ListPorts
<1>2. UNCHANGED <<sw, swi, cSwi, dSw, dSwi, dOwned, swQ, swT>>
  BY Zenon DEF GetDeviceInfo, ListInterfaces, ListPorts, api, cache, watch, queue
<1>3. ~Fault
  BY ZenonT(40) DEF Fault, Event
<1>4. CASE AgentUnavailable
  <2>1. sWk'.pc = "patch" /\ sWk'.res = "after"
    BY <1>1, <1>4, LeavesAsIs, ZenonT(40) DEF AgentUnavailable
  <2>2. QED
    BY <1>2, <2>1, AskDisc, ZenonT(40) DEF Coming
<1>5. CASE GetDeviceInfo /\ ~AgentUnavailable
  <2>1. sWk'.pc = "list"
    BY <1>1, <1>5, Zenon DEF GetDeviceInfo, SwitchWorker
  <2>2. QED
    BY <1>2, <2>1, AskDisc DEF Coming
<1>6. CASE ListInterfaces /\ ~AgentUnavailable
  <2>1. sWk'.pc = "ensure" /\ sWk'.todo = Port
    BY <1>1, <1>3, <1>6, Zenon DEF ListInterfaces, SwitchWorker
  <2>2. QED
    BY <1>2, <2>1, AskDisc DEF Coming
<1>7. CASE ListPorts /\ ~AgentUnavailable
  <2>1. sWk.pc = "ensure" /\ sWk.todo = {}
    BY <1>7 DEF ListPorts
  <2>2. QED
    BY <1>2, <2>1, AskDisc DEF Coming
<1>8. QED
  BY <1>4, <1>5, <1>6, <1>7, ZenonT(40)

\* Discovery leaves an owned interface behind.
LEMMA EnsureInterfaceDisc ==
  ASSUME "fault" \notin Events, IInv, CInv, DInv, NEW q \in Port, EnsureInterface(q)
  PROVE  DInv'
<1> DEFINE o == Applied(swi[q], AgentDeviceStatusToAPIAdminState(sWk.seen[q]))
<1>1. /\ TypeOK /\ sWk \in SwitchWorker /\ sWk.pc = "ensure"
      /\ swi[q] \in SwitchInterface \cup {NoObj}
      /\ swi[q] # NoObj => swi[q].fin \/ ~swi[q].del
  BY DEF IInv, CInv, InterfaceInv, TypeOK, ClusterTypeOK, EnsureInterface
<1>2. ~Fault
  BY DEF Fault, Event
<1>3. /\ PutInterface(q, o) /\ sWk' = [sWk EXCEPT !.todo = @ \ {q}]
      /\ UNCHANGED <<cSwi, swQ, swT>>
  BY <1>2 DEF EnsureInterface, cache, queue
<1>4. sWk'.pc = "ensure" /\ sWk'.todo = sWk.todo \ {q}
  BY <1>1, <1>3 DEF SwitchWorker
<1>5. AgentDeviceStatusToAPIAdminState(sWk.seen[q]) \in AdminState
  BY ConversionType, ZenonT(40) DEF AdminState
<1>6. o \in SwitchInterface /\ o.own /\ (o.fin \/ ~o.del)
  BY <1>1, <1>5, AppliedType, Zenon
<1> HIDE DEF o
<1>7. Owned(Collected(o))
  <2>1. Collected(o) = o
    BY <1>6 DEF Collected
  <2>2. QED
    BY <1>6, <2>1, NoObjAssumption DEF Owned
<1>8. /\ \A r \in Port : r # q => /\ swi'[r] = swi[r]
                                  /\ r \in dSwi' <=> r \in dSwi
                                  /\ r \in dOwned' <=> r \in dOwned
      /\ UNCHANGED <<sw, dSw>>
      /\ q \in dOwned => q \in dOwned'
      /\ q \in dSwi => q \in dSwi'
      /\ swi'[q] # swi[q] => q \in dSwi' /\ (Owned(swi'[q]) => q \in dOwned')
      /\ swi'[q] = swi[q] => UNCHANGED <<dSwi, dOwned>>
      /\ swi'[q] = Collected(o)
  BY <1>1, <1>3, PutInterfaceDisc
<1>9. ASSUME NEW r \in Port, r # q PROVE DiscInv(r)'
  <2>1. Coming(r) => Coming(r)'
    BY <1>1, <1>4, <1>9 DEF Coming
  <2>2. QED
    BY <1>3, <1>8, <1>9, <2>1, ZenonT(40) DEF DInv, DiscInv, Announced
<1>10. DiscInv(q)'
  BY <1>3, <1>7, <1>8 DEF DInv, DiscInv
<1>11. QED
  BY <1>9, <1>10 DEF DInv

\* The deferred patch leaves a queued or scheduled key, an event, or a Switch
\* whose ports have all been seen to.
LEMMA PatchSwitchDisc ==
  ASSUME PatchMayFail = FALSE, IInv, CInv, DInv, PatchSwitch
  PROVE  DInv'
<1>1. /\ TypeOK /\ SwitchInv /\ sWk.out \in SwitchStatus
      /\ sw \in Switch \cup {NoObj} /\ sWk.pc = "patch"
      /\ sWk.res \in {"ok", "after", "err"}
  BY DEF IInv, CInv, TypeOK, ClusterTypeOK, SwitchWorker, PatchSwitch
<1>2. /\ UNCHANGED cSwi
      /\ swT' = (swT \/ sWk.res = "after") /\ swQ' = (swQ \/ sWk.res = "err")
  BY ZenonT(40) DEF PatchSwitch, cache
<1>3. CASE sw = NoObj /\ UNCHANGED <<api, watch>>
  <2>1. UNCHANGED <<sw, swi, dSwi, dOwned>>
    BY <1>3 DEF api, watch
  <2>2. QED
    BY <1>2, <1>3, <2>1, Zenon DEF DInv, DiscInv
<1>4. CASE sw # NoObj /\ PutSwitch([sw EXCEPT !.state = Merged(@, sWk.out.state),
                                              !.info = Merged(@, sWk.out.info)])
  <2> DEFINE s == Merged(sw.state, sWk.out.state)
             i == Merged(sw.info, sWk.out.info)
             o == [sw EXCEPT !.state = s, !.info = i]
  <2>1. PutSwitch(o)
    BY <1>1, <1>4, Zenon DEF Switch
  <2>2. s \in {"", "Ready"} /\ i \in {"", "known"}
        /\ (sWk.out.state = "Ready" => s = "Ready")
    BY <1>1, <1>4, Zenon DEF Merged, Switch, SwitchStatus
  <2> HIDE DEF s, i
  <2>3. o \in Switch /\ o.state = s
    BY <1>1, <1>4, <2>2, Zenon DEF Switch
  <2> HIDE DEF o
  <2>4. /\ sw' # NoObj => sw' = o
        /\ sw' # sw => dSw'
        /\ dSw => dSw'
        /\ UNCHANGED <<swi, dSwi, dOwned>>
    BY <1>1, <2>1, <2>3, PutSwitchStored
  <2>5. ASSUME NEW q \in Port, sw' # NoObj, ~swQ', ~swT', ~dSw'
        PROVE  ~Coming(q)
    BY <1>1, <1>2, <2>2, <2>3, <2>4, <2>5, Zenon DEF Coming
  <2>6. ~swQ' /\ ~swT' /\ ~dSw' => ~swQ /\ ~swT /\ ~dSw
    BY <1>2, <2>4, Zenon
  <2>7. QED
    BY <1>2, <1>4, <2>4, <2>5, <2>6 DEF DInv, DiscInv, Announced
<1>5. QED
  BY <1>3, <1>4 DEF PatchSwitch

\* The steps of the SwitchInterface controller.
LEMMA InterfaceDisc ==
  ASSUME IInv, DInv, InterfaceReconciler, UNCHANGED sWk
  PROVE  DInv'
<1>1. TypeOK /\ HasPort
  BY DEF IInv
<1>2. UNCHANGED <<cSwi, swQ, swT>>
  BY Zenon DEF InterfaceReconciler, StartInterface, GetInterfaceByAbstractName,
         SetInterfaceAliasName, SetInterfaceAdminStatus, GetInterfaceNeighbor,
         PatchInterface, cache, queue
<1>3. ASSUME NEW q \in Port, StartInterface(q)
      PROVE  UNCHANGED <<api, watch>> \/ \E r \in Port : \E o : PutInterface(r, o)
  BY <1>3 DEF StartInterface, DeleteInterface
<1>4. ASSUME PatchInterface
      PROVE  UNCHANGED <<api, watch>> \/ \E r \in Port : \E o : PutInterface(r, o)
  <2>1. iWk.q \in Port
    BY <1>1, <1>4, ZenonT(40) DEF PatchInterface, HasPort
  <2>2. QED
    BY <1>4, <2>1 DEF PatchInterface
<1>5. UNCHANGED <<api, watch>> \/ \E r \in Port : \E o : PutInterface(r, o)
  BY <1>3, <1>4, ZenonT(40) DEF InterfaceReconciler, GetInterfaceByAbstractName,
     SetInterfaceAliasName, SetInterfaceAdminStatus, GetInterfaceNeighbor
<1>6. QED
  BY <1>1, <1>2, <1>5, WriteDisc

\* Watches, timer, SONiC and garbage collector.
LEMMA RuntimeDisc ==
  ASSUME IInv, DInv, Runtime
  PROVE  DInv'
<1>1. TypeOK /\ UNCHANGED sWk /\ cSwi \in [Port -> SwitchInterface \cup {NoObj}]
  BY ZenonT(40) DEF IInv, Runtime, TypeOK, ClusterTypeOK
<1>2. CASE DeliverSwitch
  BY <1>2, ZenonT(40) DEF DeliverSwitch, DInv, DiscInv, api
<1>3. CASE TimerFires
  BY <1>3 DEF TimerFires, DInv, DiscInv, api, cache, watch
<1>4. ASSUME NEW q \in Port, DeliverInterface(q) PROVE DInv'
  <2>1. /\ UNCHANGED <<sw, swi, dSw, swT>>
        /\ swQ' = (swQ \/ q \in dOwned \/ Owned(cSwi[q]))
        /\ cSwi' = [cSwi EXCEPT ![q] = swi[q]]
        /\ dSwi' = dSwi \ {q} /\ dOwned' = dOwned \ {q}
    BY <1>4 DEF DeliverInterface, api
  <2>2. ASSUME NEW r \in Port, r # q PROVE DiscInv(r)'
    BY <1>1, <2>1, <2>2, DiscFrame, Zenon DEF DInv
  <2>3. DiscInv(q)'
    BY <1>1, <2>1, Zenon DEF DInv, DiscInv, Announced, Coming
  <2>4. QED
    BY <2>2, <2>3, ZenonT(40) DEF DInv
<1>5. ASSUME NEW q \in Port, DeviceFollows(q) PROVE DInv'
  BY <1>1, <1>5, WriteDisc, Zenon DEF DeviceFollows, cache, queue
<1>6. ASSUME NEW q \in Port, GarbageCollect(q) PROVE DInv'
  BY <1>1, <1>6, WriteDisc DEF GarbageCollect, cache, queue
<1>7. QED
  BY <1>2, <1>3, <1>4, <1>5, <1>6 DEF Runtime

\* The edits of users.
LEMMA UsersDisc ==
  ASSUME IInv, DInv, Users
  PROVE  DInv'
<1>1. TypeOK /\ UNCHANGED sWk /\ sw \in Switch \cup {NoObj}
  BY DEF IInv, Users, TypeOK, ClusterTypeOK
<1>2. ASSUME NEW q \in Port, NEW o, PutInterface(q, o), UNCHANGED <<cache, queue>>
      PROVE  DInv'
  BY <1>1, <1>2, WriteDisc DEF cache, queue
<1>3. CASE UserDeletesSwitch
  <2>1. [sw EXCEPT !.del = TRUE] \in Switch
    BY <1>1, <1>3, Zenon DEF UserDeletesSwitch, Switch
  <2>2. /\ sw' # sw => dSw'
        /\ dSw => dSw'
        /\ UNCHANGED <<swi, dSwi, dOwned>>
    BY <1>1, <1>3, <2>1, PutSwitchStored DEF UserDeletesSwitch
  <2>3. QED
    BY <1>1, <1>3, <2>2, DiscFrames DEF UserDeletesSwitch, cache, queue
<1>4. QED
  BY <1>2, <1>3, Zenon DEF Users, UserSetsAdminState, UserCreatesInterface,
     UserDeletesInterface

\* Every step of the operator preserves it.
LEMMA NextDInv ==
  ASSUME PatchMayFail = FALSE, "fault" \notin Events
  PROVE  IInv /\ CInv /\ DInv /\ [Next]_vars => DInv'
<1> SUFFICES ASSUME IInv, CInv, DInv, [Next]_vars PROVE DInv'
  OBVIOUS
<1>1. CASE SwitchReconciler /\ UNCHANGED iWk
  BY <1>1, StartSwitchDisc, SwitchRequestDisc, EnsureInterfaceDisc, PatchSwitchDisc, Zenon
     DEF SwitchReconciler
<1>2. CASE InterfaceReconciler /\ UNCHANGED sWk
  BY <1>2, InterfaceDisc
<1>3. CASE Runtime
  BY <1>3, RuntimeDisc
<1>4. CASE Users
  BY <1>4, UsersDisc
<1>5. CASE (AgentComes \/ AgentGoes) /\ UNCHANGED <<sWk, iWk>>
  <2>1. UNCHANGED <<api, cache, watch, queue, sWk>>
    BY <1>5 DEF AgentComes, AgentGoes
  <2>2. QED
    BY <2>1, DiscFrames, Zenon DEF api, cache, watch, queue
<1>6. CASE Restart
  BY <1>6, Zenon DEF Restart, DInv, DiscInv, api
<1>7. CASE UNCHANGED vars
  BY <1>7, DiscFrames DEF vars, api, cache, watch, queue
<1>8. QED
  BY <1>1, <1>2, <1>3, <1>4, <1>5, <1>6, <1>7 DEF Next

\* As long as the agent answers or is out of reach, an operator at rest has an
\* owned SwitchInterface for every port of a living Switch: deletions by users,
\* restarts and stale caches included, over any number of ports.
THEOREM OperatorDiscovers ==
  ASSUME PatchMayFail = FALSE, "fault" \notin Events
  PROVE  Spec => []Discovered
<1>1. Init => DInv
  BY Zenon DEF Init, ClusterInit, DInv, DiscInv, Owned
<1>2. DInv => Discovered
  BY Zenon DEF DInv, DiscInv, Announced, Coming, Discovered, Quiescent
<1>3. IInv /\ CInv /\ [Next]_vars => CInv'
  BY NextCInv, Zenon
<1>4. IInv /\ CInv /\ DInv /\ [Next]_vars => DInv'
  BY NextDInv, Zenon
<1>5. QED
  BY <1>1, <1>2, <1>3, <1>4, InitCInv, OperatorInvariant, PTL DEF Spec
=============================================================================
