------------------------------- MODULE Operator -------------------------------
(***************************************************************************)
(* The manager: both controllers over one cluster and one switch, with     *)
(* users editing, the agent coming and going, and restarts.                *)
(***************************************************************************)
EXTENDS SwitchController, SwitchInterfaceController

vars == <<api, cache, watch, queue, device, budget, sWk, iWk>>

Init == ClusterInit /\ sWk = Idle /\ iWk = Resting

SwitchReconciler ==
  \/ StartSwitch \/ GetDeviceInfo \/ ListInterfaces
  \/ \E q \in Port : EnsureInterface(q)
  \/ ListPorts \/ PatchSwitch

InterfaceReconciler ==
  \/ \E q \in Port : StartInterface(q)
  \/ GetInterfaceByAbstractName \/ SetInterfaceAliasName
  \/ SetInterfaceAdminStatus \/ GetInterfaceNeighbor \/ PatchInterface

\* A restarted manager lists every object and reconciles each of them.
Restart ==
  /\ Event("restart")
  /\ sWk' = Idle /\ iWk' = Resting
  /\ cSw' = sw /\ cSwi' = swi
  /\ dSw' = FALSE /\ dSwi' = {} /\ dOwned' = {}
  /\ swQ' = (sw # NoObj) /\ swT' = FALSE
  /\ ifQ' = {q \in Port : swi[q] # NoObj}
  /\ UNCHANGED <<api, device, tampered>>

Runtime ==
  /\ \/ DeliverSwitch \/ TimerFires
     \/ \E q \in Port : DeliverInterface(q) \/ DeviceFollows(q)
                        \/ GarbageCollect(q)
  /\ UNCHANGED <<sWk, iWk>>

Users ==
  /\ \/ UserDeletesSwitch
     \/ \E q \in Port :
          \/ UserDeletesInterface(q)
          \/ \E a \in AdminState : UserSetsAdminState(q, a)
                                   \/ UserCreatesInterface(q, a)
  /\ UNCHANGED <<sWk, iWk>>

Next == \/ SwitchReconciler /\ UNCHANGED iWk
        \/ InterfaceReconciler /\ UNCHANGED sWk
        \/ Runtime
        \/ Users
        \/ (AgentComes \/ AgentGoes) /\ UNCHANGED <<sWk, iWk>>
        \/ Restart

Spec == Init /\ [][Next]_vars

\* A worker has a request at the agent.  The context of a reconcile has no
\* deadline, so nothing but the answer, or a restart, ends it.
SwitchWaits == \/ sWk.pc \in {"info", "list"}
               \/ sWk.pc = "ensure" /\ sWk.todo = {}
InterfaceWaits == \/ iWk.pc \in {"get", "alias", "neighbor"}
                  \/ iWk.pc = "admin" /\ iWk.spec # "Unknown"

\* The workers, as long as they do not wait for the agent, the watches, the
\* timer, SONiC and the garbage collector keep running, and a queue is first-in
\* first-out; users, faults, restarts and the agent are not obliged to act.
Fairness ==
  /\ WF_vars(SwitchReconciler /\ ~SwitchWaits /\ UNCHANGED iWk)
  /\ WF_vars(InterfaceReconciler /\ ~InterfaceWaits /\ UNCHANGED sWk)
  /\ WF_vars(DeliverSwitch /\ UNCHANGED <<sWk, iWk>>)
  /\ WF_vars(TimerFires /\ UNCHANGED <<sWk, iWk>>)
  /\ \A q \in Port :
       /\ SF_vars(StartInterface(q) /\ UNCHANGED sWk)
       /\ WF_vars(DeliverInterface(q) /\ UNCHANGED <<sWk, iWk>>)
       /\ WF_vars(DeviceFollows(q) /\ UNCHANGED <<sWk, iWk>>)
       /\ WF_vars(GarbageCollect(q) /\ UNCHANGED <<sWk, iWk>>)

FairSpec == Spec /\ Fairness

\* No request to the agent hangs for ever: each is answered or fails.
RequestsReturn == []<>~SwitchWaits /\ []<>~InterfaceWaits

-----------------------------------------------------------------------------
\* Type invariant.  Every stored admin state is one the conversions of
\* conversion_utils.go produce, and each worker holds a legal status.
TypeOK == ClusterTypeOK /\ sWk \in SwitchWorker /\ iWk \in InterfaceWorker

\* Nothing is queued, under way or scheduled.
Quiescent ==
  /\ sWk.pc = "idle" /\ ~swQ /\ ~swT /\ ~dSw
  /\ iWk.pc = "idle" /\ ifQ = {} /\ dSwi = {}
  /\ dst = dcfg

\* When both queues are empty and no retry is scheduled, every object is Ready
\* with its finalizer, and the spec, the status and the device agree on every
\* admin state.  A reconcile that failed, raced with an edit or worked on a stale
\* cache left an event or a requeue behind, as long as no status patch fails: the
\* error of that one is dropped (switch_controller.go:88,
\* switchinterface_controller.go:73).
Converged ==
  Quiescent =>
    /\ sw # NoObj => sw.state = "Ready" /\ sw.fin /\ ~sw.del
    /\ \A q \in Port : swi[q] # NoObj =>
         /\ swi[q].state = "Ready" /\ swi[q].fin /\ ~swi[q].del
         /\ swi[q].sadmin = swi[q].admin
         /\ dcfg[q] = APIAdminStateToAgentDeviceStatus(swi[q].admin)

\* When the manager rests, every port of a living Switch has its owned
\* SwitchInterface: the one discovery creates (EnsureInterface), also after a
\* user deleted it (the Owns watch of SetupWithManager).
\* docs/concepts/overview.md:13 promises it.
Discovered == Quiescent /\ sw # NoObj => \A q \in Port : Owned(swi[q])

\* Discovery is passive: as long as no user edits a spec and STATE_DB is read
\* correctly, creating the interfaces and enforcing their specs never changes
\* the admin status of a port, across retries, outages and restarts.
DiscoveryPreservesDevice == ~tampered => dcfg = dev0

\* "A Switch is declaratively ready as soon as it is accepted by the
\* controller" (switch_controller.go:93): whether the agent can be reached or
\* not, fails, or never answers a request.
ReadyWithoutAgent == <>[](sw = NoObj \/ sw.state = "Ready")

\* A deleted Switch goes away, finalizer and all; and its interfaces follow it,
\* each through its own finalizer.
CleansUp ==
  /\ (sw # NoObj /\ sw.del) ~> (sw = NoObj)
  /\ (sw = NoObj) ~> (\A q \in Port : ~Owned(swi[q]))

\* Deletion needs no agent that works: the finalizers go as long as requests to
\* it return in some way (delete of both controllers).  A request that hangs
\* keeps the only worker of its controller, and CleansUp alone does not hold.
CleanedUp == RequestsReturn => CleansUp

\* The controllers watch what they write, and each patch they send comes back
\* as an event.  Yet once the agent stays reachable and answers they rest: a
\* reconcile that has nothing left to do writes nothing, so no reconcile is the
\* cause of the next one for ever.
Rests == RequestsReturn /\ <>[]up => <>[]Quiescent

\* "Interface admin state in SwitchInterface.spec is enforced on the device"
\* (docs/concepts/overview.md:14): with the agent reachable and answering, a spec
\* of Up or Down eventually shows on the device.
SpecEnforced ==
  RequestsReturn /\ <>[]up => \A q \in Port : \A a \in {"Up", "Down"} :
    (swi[q] # NoObj /\ swi[q].admin = a)
      ~> (swi[q] = NoObj \/ dcfg[q] = APIAdminStateToAgentDeviceStatus(a))

\* DiscoveryPreservesDevice where STATE_DB cannot always be read: the agent then
\* reports the port as down (sonic_agent.go:257), which becomes its spec and is
\* enforced.
MisreadSparesDevice == dcfg = dev0

\* At rest, every interface has been taken up.  One is not, for good, when the
\* patch that makes it Pending fails.
NoneForgotten == Quiescent => \A q \in Port : swi[q] # NoObj => swi[q].state # ""

\* "The SONiC agent enriches status when reachable" (switch_controller.go:94):
\* a reconcile never replaces device information by blanks.  It does, for an
\* answer that reports an error as for one without SKU and firmware.
StatusOnlyEnriched == [][sw # NoObj /\ sw' # NoObj /\ sw.info = "known"
                            => sw'.info = "known"]_vars

\* SpecEnforced, weaker: the admin status of a port eventually stops
\* changing.
Settles == RequestsReturn /\ <>[]up => <>[][dcfg' = dcfg]_vars
=============================================================================
