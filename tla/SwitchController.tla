--------------------------- MODULE SwitchController ---------------------------
(***************************************************************************)
(* SwitchReconciler.  One worker: a reconcile is a sequence of steps, one  *)
(* per request to the agent or to the API server, and everything else in   *)
(* the cluster may move between two of them.  The status patch is deferred *)
(* and runs on every way out once the Switch has been accepted.            *)
(*                                                                         *)
(* A reconcile that fails before it changes anything is requeued, which is *)
(* a stuttering step here.                                                 *)
(***************************************************************************)
EXTENDS Cluster

VARIABLE sWk   \* the worker

\* The status fields the reconcile works on; ports are listed, not tracked.
SwitchStatus == [state : {"", "Ready", "same"}, info : {"", "known", "same"}]
Untouched == [state |-> "same", info |-> "same"]
StatusOf(o) == [state |-> o.state, info |-> o.info]

NothingSeen == [q \in Port |-> "down"]
Idle == [pc |-> "idle", read |-> Untouched, out |-> Untouched,
         todo |-> {}, seen |-> NothingSeen, res |-> "ok"]

SwitchWorker == [pc : {"idle", "info", "list", "ensure", "patch"},
                 read : SwitchStatus, out : SwitchStatus,
                 todo : SUBSET Port, seen : [Port -> DeviceStatus],
                 res : {"ok", "after", "err"}]

\* Return r: what is left to do is the deferred patch from read to out.
Leave(read, out, r) ==
  [Idle EXCEPT !.pc = "patch", !.res = r,
               !.out = [state |-> Changed(read.state, out.state),
                        info |-> Changed(read.info, out.info)]]

\* delete: let go of a Switch marked for deletion.  A finalizer patch that
\* fails is tried again.
DeleteSwitchKeepsFinalizer == UNCHANGED <<api, watch>>   \* mutant

DeleteSwitch == IF cSw.fin THEN sw # NoObj /\ PutSwitch([sw EXCEPT !.fin = FALSE])
                ELSE UNCHANGED <<api, watch>>

\* An accepted Switch is declared ready before the agent is asked anything.
AcceptAfterAgent(st) ==   \* mutant
  [Idle EXCEPT !.pc = "info", !.read = st, !.out = st]

Accept(st) == IF st.state # "Ready"
              THEN Leave(st, [st EXCEPT !.state = "Ready"], "ok")
              ELSE [Idle EXCEPT !.pc = "info", !.read = st, !.out = st]

\* Reconcile, reconileExists, and reconcile up to the first request to the
\* agent.
StartSwitch ==
  /\ sWk.pc = "idle" /\ swQ
  /\ swQ' = FALSE
  /\ \/ /\ cSw = NoObj
        /\ UNCHANGED <<api, watch, sWk>>
     \/ /\ cSw # NoObj /\ cSw.del
        /\ DeleteSwitch
        /\ UNCHANGED sWk
     \/ /\ cSw # NoObj /\ ~cSw.del /\ ~cSw.fin
        /\ sw # NoObj /\ ~sw.del
        /\ PutSwitch([sw EXCEPT !.fin = TRUE])
        /\ UNCHANGED sWk
     \/ /\ cSw # NoObj /\ ~cSw.del /\ cSw.fin
        /\ sWk' = Accept(StatusOf(cSw))
        /\ UNCHANGED <<api, watch>>
  /\ UNCHANGED <<cache, swT, ifQ, device, budget>>

\* A request to an agent out of reach, or one the client reports as failed.
AgentUnavailable ==
  /\ ~up
  /\ sWk' = Leave(sWk.read, sWk.out, "after")
  /\ UNCHANGED budget

\* GetDeviceInfo: the SKU and the firmware version.  The client does not look at
\* the status of the answer, so an agent error reads as an empty device; and the
\* agent succeeds with blanks, too.
GetDeviceInfo ==
  /\ sWk.pc = "info"
  /\ \/ AgentUnavailable
     \/ /\ up
        /\ sWk' = [sWk EXCEPT !.pc = "list", !.out = [@ EXCEPT !.info = "known"]]
        /\ UNCHANGED budget
     \/ /\ up /\ (Fault \/ Blank)
        /\ sWk' = [sWk EXCEPT !.pc = "list", !.out = [@ EXCEPT !.info = ""]]
  /\ UNCHANGED <<api, cache, watch, queue, device>>

\* ListInterfaces.  Likewise, an agent error reads as a switch without ports.
ListInterfaces ==
  /\ sWk.pc = "list"
  /\ \/ AgentUnavailable
     \/ /\ up
        /\ \E bad \in SUBSET Port :
             /\ Misreads(bad)
             /\ sWk' = [sWk EXCEPT !.pc = "ensure", !.todo = Port,
                          !.seen = [q \in Port |-> Observed(q, q \in bad)]]
     \/ /\ up /\ Fault
        /\ sWk' = [sWk EXCEPT !.pc = "ensure"]
  /\ UNCHANGED <<api, cache, watch, queue, device>>

\* What EnsureInterface applies, owning every field, to the object it finds.
AppliedUp(o, a) == IF o = NoObj THEN NewInterface(TRUE, "Up")   \* mutant
                   ELSE [o EXCEPT !.own = TRUE, !.admin = a]

Applied(o, a) == IF o = NoObj THEN NewInterface(TRUE, a)
                 ELSE [o EXCEPT !.own = TRUE, !.admin = a]

EnsureInterface(q) ==
  /\ sWk.pc = "ensure" /\ q \in sWk.todo
  /\ \/ /\ PutInterface(q, Applied(swi[q],
                             AgentDeviceStatusToAPIAdminState(sWk.seen[q])))
        /\ sWk' = [sWk EXCEPT !.todo = @ \ {q}]
        /\ UNCHANGED budget
     \/ /\ Fault
        /\ sWk' = Leave(sWk.read, sWk.out, "err")
        /\ UNCHANGED <<api, watch>>
  /\ UNCHANGED <<cache, queue, device>>

\* ListPorts, after the last interface; then the Switch is ready.  An agent
\* error reads as no ports, which leaves the list of the status as it is.
ListPorts ==
  /\ sWk.pc = "ensure" /\ sWk.todo = {}
  /\ \/ AgentUnavailable
     \/ /\ up
        /\ sWk' = Leave(sWk.read, [sWk.out EXCEPT !.state = "Ready"], "ok")
        /\ UNCHANGED budget
  /\ UNCHANGED <<api, cache, watch, queue, device>>

\* The deferred status patch; its error is logged and dropped.
PatchSwitch ==
  /\ sWk.pc = "patch"
  /\ \/ /\ sw # NoObj
        /\ PutSwitch([sw EXCEPT !.state = Merged(@, sWk.out.state),
                                !.info = Merged(@, sWk.out.info)])
     \/ /\ sw = NoObj \/ PatchMayFail
        /\ UNCHANGED <<api, watch>>
  /\ swT' = (swT \/ sWk.res = "after")
  /\ swQ' = (swQ \/ sWk.res = "err")
  /\ sWk' = Idle
  /\ UNCHANGED <<cache, ifQ, device, budget>>
=============================================================================
