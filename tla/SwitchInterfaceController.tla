---------------------- MODULE SwitchInterfaceController ----------------------
(***************************************************************************)
(* SwitchInterfaceReconciler, in steps of one request each, like           *)
(* SwitchController.  Every error after the state has been set is returned *)
(* with state Failed, and the key is queued again.                         *)
(***************************************************************************)
EXTENDS Cluster

CONSTANT NoPort   \* the worker has no interface

VARIABLE iWk   \* the worker

\* The status fields the reconcile works on.
InterfaceStatus == [state : {"", "Pending", "Ready", "Failed", "same"},
                    sadmin : {"", "Up", "Down", "same"}]
Unchanged == [state |-> "same", sadmin |-> "same"]
InterfaceStatusOf(o) == [state |-> o.state, sadmin |-> o.sadmin]

\* spec is the admin state as read; it is not needed once it has been sent.
Resting == [pc |-> "idle", q |-> NoPort, spec |-> "Unknown",
            read |-> Unchanged, out |-> Unchanged, err |-> FALSE]

InterfaceWorker ==
  [pc : {"idle", "get", "alias", "admin", "neighbor", "patch"},
   q : Port \cup {NoPort}, spec : AdminState,
   read : InterfaceStatus, out : InterfaceStatus, err : BOOLEAN]

\* Return: what is left to do is the deferred patch from read to out.
Finish(q, read, out, err) ==
  [Resting EXCEPT !.pc = "patch", !.q = q, !.err = err,
                  !.out = [state |-> Changed(read.state, out.state),
                           sadmin |-> Changed(read.sadmin, out.sadmin)]]
FailedQuietly(q, read, out) ==   \* mutant: the error is not returned
  Finish(q, read, [out EXCEPT !.state = "Failed"], FALSE)

Failed(q, read, out) == Finish(q, read, [out EXCEPT !.state = "Failed"], TRUE)

\* delete: let go of a SwitchInterface marked for deletion.
DeleteInterface(q) ==
  IF cSwi[q].fin
    THEN swi[q] # NoObj /\ PutInterface(q, [swi[q] EXCEPT !.fin = FALSE])
    ELSE UNCHANGED <<api, watch>>

\* NewAgentClientFromSwitchRef does not find the Switch in the cache.
SwitchUnknown == cSw = NoObj

\* Mutant: every reconcile starts over from Pending.
AcceptStartsOver(q, st, spec) ==
  IF st.state # "Pending" THEN Finish(q, st, [st EXCEPT !.state = "Pending"], FALSE)
  ELSE IF SwitchUnknown THEN Failed(q, st, st)
  ELSE [Resting EXCEPT !.pc = "get", !.q = q, !.spec = spec,
                       !.read = st, !.out = st]

\* An accepted interface is Pending first; then its Switch is looked up.  Its
\* switchRef is set: the schema requires it.
AcceptInterface(q, st, spec) ==
  IF st.state = "" THEN Finish(q, st, [st EXCEPT !.state = "Pending"], FALSE)
  ELSE IF SwitchUnknown THEN Failed(q, st, st)
  ELSE [Resting EXCEPT !.pc = "get", !.q = q, !.spec = spec,
                       !.read = st, !.out = st]

\* Reconcile, reconileExists, and reconcile up to the first request to the
\* agent.
StartInterface(q) ==
  /\ iWk.pc = "idle" /\ q \in ifQ
  /\ ifQ' = ifQ \ {q}
  /\ LET c == cSwi[q] IN
     \/ /\ c = NoObj
        /\ UNCHANGED <<api, watch, iWk>>
     \/ /\ c # NoObj /\ c.del
        /\ DeleteInterface(q)
        /\ UNCHANGED iWk
     \/ /\ c # NoObj /\ ~c.del /\ ~c.fin
        /\ swi[q] # NoObj /\ ~swi[q].del
        /\ PutInterface(q, [swi[q] EXCEPT !.fin = TRUE])
        /\ UNCHANGED iWk
     \/ /\ c # NoObj /\ ~c.del /\ c.fin
        /\ iWk' = AcceptInterface(q, InterfaceStatusOf(c), c.admin)
        /\ UNCHANGED <<api, watch>>
  /\ UNCHANGED <<cache, swQ, swT, device, budget>>

\* A request that gets no answer, or one the agent refuses; st is the status
\* worked out so far.
Refused(st) ==
  /\ \/ ~up /\ UNCHANGED budget
     \/ up /\ Fault
  /\ iWk' = Failed(iWk.q, iWk.read, st)

GetInterfaceByAbstractName ==
  /\ iWk.pc = "get"
  /\ \/ Refused(iWk.out)
     \/ /\ up
        /\ \E misread \in BOOLEAN :
             /\ Misreads(IF misread THEN {iWk.q} ELSE {})
             /\ iWk' = [iWk EXCEPT
                  !.pc = IF iWk.q \in alias THEN "admin" ELSE "alias",
                  !.out = [@ EXCEPT !.sadmin =
                             AgentDeviceStatusToAPIAdminState(
                               Observed(iWk.q, misread))]]
  /\ UNCHANGED <<api, cache, watch, queue, device>>

\* The status is filled in only after the alias has been set.  A refusal by
\* the agent may come after it has written CONFIG_DB.
SetInterfaceAliasName ==
  /\ iWk.pc = "alias"
  /\ \/ /\ Refused(iWk.read)
        /\ \/ UNCHANGED alias
           \/ up /\ alias' = alias \cup {iWk.q}
     \/ /\ up
        /\ alias' = alias \cup {iWk.q}
        /\ iWk' = [iWk EXCEPT !.pc = "admin"]
        /\ UNCHANGED budget
  /\ UNCHANGED <<api, cache, watch, queue, dcfg, dst, up, dev0>>

\* The admin state of the spec as read, sent on every reconcile.  A refusal
\* may have taken effect here, too.
Desired == APIAdminStateToAgentDeviceStatus(iWk.spec)

SetInterfaceAdminStatus ==
  /\ iWk.pc = "admin"
  /\ \/ /\ iWk.spec = "Unknown"
        /\ iWk' = Failed(iWk.q, iWk.read, iWk.out)
        /\ UNCHANGED <<dcfg, budget>>
     \/ /\ iWk.spec # "Unknown"
        /\ Refused(iWk.out)
        /\ \/ UNCHANGED dcfg
           \/ up /\ dcfg' = [dcfg EXCEPT ![iWk.q] = Desired]
     \/ /\ iWk.spec # "Unknown"
        /\ up
        /\ dcfg' = [dcfg EXCEPT ![iWk.q] = Desired]
        /\ iWk' = [iWk EXCEPT !.pc = "neighbor", !.spec = "Unknown",
                     !.out = [state |-> "Ready",
                              sadmin |->
                                AgentDeviceStatusToAPIAdminState(Desired)]]
        /\ UNCHANGED budget
  /\ UNCHANGED <<api, cache, watch, queue, dst, alias, up, dev0>>

GetInterfaceNeighbor ==
  /\ iWk.pc = "neighbor"
  /\ \/ Refused(iWk.out)
     \/ up /\ iWk' = Finish(iWk.q, iWk.read, iWk.out, FALSE) /\ UNCHANGED budget
  /\ UNCHANGED <<api, cache, watch, queue, device>>

\* The deferred status patch; its error is logged and dropped.
PatchInterface ==
  /\ iWk.pc = "patch"
  /\ \/ /\ swi[iWk.q] # NoObj
        /\ PutInterface(iWk.q,
             [swi[iWk.q] EXCEPT !.state = Merged(@, iWk.out.state),
                                !.sadmin = Merged(@, iWk.out.sadmin)])
     \/ /\ swi[iWk.q] = NoObj \/ PatchMayFail
        /\ UNCHANGED <<api, watch>>
  /\ ifQ' = IF iWk.err THEN ifQ \cup {iWk.q} ELSE ifQ
  /\ iWk' = Resting
  /\ UNCHANGED <<cache, swQ, swT, device, budget>>
=============================================================================
