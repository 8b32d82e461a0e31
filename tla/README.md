# A TLA+ model of sonic-operator

sonic-operator manages SONiC switches from Kubernetes. Two controllers keep
`Switch` and `SwitchInterface` objects and the switches in step; on each switch
an agent answers gRPC requests from SONiC's Redis databases; a provisioning
server installs switches in the first place. This directory models these parts
in TLA+, checks them with TLC on small instances and proves the most important
invariants with TLAPS for all instances.

`PROJECT.json` lists the components, the runs, the mutants (a plausible bug for
each property, which the run must detect), the source lines behind every
definition, the findings, the hazards and the theorems.

## 1. The system

| part | code | state | operations |
|---|---|---|---|
| Switch controller | `internal/controller/switch_controller.go` | one work queue and worker, the informer cache | reconcile: finalizer, accept, device info, discovery of interfaces (server-side apply), ports, deferred status patch; delete |
| SwitchInterface controller | `internal/controller/switchinterface_controller.go` | likewise | reconcile: finalizer, Pending, read, alias, admin status, neighbor, deferred status patch; delete |
| agent client, server | `internal/agent/agent_client/client`, `internal/agent/agent_server` | none | one method per request; conversion of answers and errors |
| SONiC agent | `internal/agent/sonic/sonic_agent.go` | pool of Redis clients with an RWMutex; CONFIG_DB, STATE_DB, APPL_DB and config_db.json on the switch | `Connect`; five read requests; three requests that write |
| names | `internal/agent/types/conversion_utils.go`, three CLI commands | none | native to abstract and back |
| database accessor | `pkg/sonic` | CONFIG_DB | single commands, two Sync operations and two listings made of several |
| ZTP endpoint | `internal/ztp/ztp.go`, `generated_mode.go` | none (lists objects per request) | `GET /ztp` in two modes |
| ZTP script | `internal/ztp/templates/generated-mode.sh.gotmpl` | the switch's files and containers | one command after the other |
| ONIE endpoint | `internal/onie/onie.go` | the map read from onie.json | `GET /onie` |
| manager | `cmd/main.go` | the processes above | start, restart, routes |

What is hard here: the two controllers write to each other's objects and both to
the device; the cache is late; the agent comes and goes in the middle of a
reconcile, and its errors are not always seen; requests on the switch
interleave without a lock, and a write, its save and its rollback are separate
steps; tables change between the listing of their keys and the reads; Syncs
fail half-way; scripts fail, are run again and lose power. `PROJECT.json` has
the hazards one by one with the lines where they bite.

## 2. Modules

    Cluster <- SwitchController ----------.
       ^                                   >- Operator <- MCOperator
       '----- SwitchInterfaceController --'      ^------ Operator_proofs
    ConnPool      <- ConnPool_proofs
    SetSpec <.. AgentSetters <- AgentSetters_proofs, MCAgentSetters   (refinement)
    AgentGetters  <- AgentGetters_proofs, MCAgentGetters
    NameConversion (with its theorems)
    SyncSpec <.. DBSync --.                                           (refinement)
                PortList --+- DBAccessor <- DBSync_proofs, MCDBSync
    Ztp, Onie     <- Provisioning_proofs
    ZtpScript     <- ZtpScript_proofs, MCZtpScript

**Cluster, SwitchController, SwitchInterfaceController, Operator.** One Switch
and one SwitchInterface per port. `sw`, `swi` are the objects at the API server,
`cSw`, `cSwi` the cache; a change sets `dSw`/`dSwi`, and `Deliver...` refreshes
the cache and fills the queues as `SetupWithManager` says (`For`, `Owns`).
`sWk`, `iWk` are the two workers; a step of a worker is one request to the
agent or to the API server together with the local computation around it. A
status patch carries only the fields that differ from the cached copy, as a
merge patch does. The device is `dcfg` (CONFIG_DB), `dst` (STATE_DB), `alias`.
The disturbances a run allows are its constant `Events`: agent errors, misread
STATE_DB, device information without SKU and firmware (`Blank`: the version file
cannot be read, which the agent does not report), outages, restarts of the
manager, edits, creations and deletions by users; `MaxEvents` bounds how many
there are. A worker that `SwitchWaits` or `InterfaceWaits` for the agent may
wait for ever: the code gives its requests no deadline. The worker runs one key at a time
(MaxConcurrentReconciles is not set).

**ConnPool.** `Connect` statement by statement, the RWMutex with Go's rule that
a waiting writer keeps new readers out, and Redis going away and coming back.

**AgentSetters.** A handler goes through `read, write, save, verify, ...`; each
label is a Redis or D-Bus call, which may fail with or without effect. `saved`
is config_db.json, loaded by `Reboot`. `acked` remembers what a client was told.
A request may ask for an empty alias, which stands for the name of the port
(`Future`), and a port may come without an admin status, which reads as "".
Ports come and go (`AddPort`, `RemovePort`); `doomed` has those that came back
while a request was under way that had found no entry, whose rollback blanks
what it did not find. A handler that has returned keeps nothing. SetSpec is what a client may rely on
when requests race and fail: a request touches its own field only, writes the
value asked for once and after that at most the value it had found, and succeeds
only for a value that is set and saved, or that others have written over; a
refusal promises nothing. `Implements` states the refinement, in which the
labels between the write and the answer are one stage (`Stage`).

**AgentGetters.** A request through the agent, the server and the client. The
client's methods treat a status code differently, so the answer is one of
`AnswerSingle` (which checks it), `AnswerUncoded` (which does not) and
`CallFails`. The tables are per port; `always` and `ever` record what was there all along and at
some time since the request began.

**NameConversion.** A name with what `Sscanf` makes of it, followed along every
route: published by a listing, typed on the command line, sent by the manager.
`Sscanf` stops after the last number of its format and takes signs and leading
zeros, so a name is exact, loose (`Ethernet05`, `eth1-2x`) or garbled; a
conversion of a loose name spells its numbers exactly, and a native name sent
without a conversion stays as it is. Numbers may be negative, and `Quot` and
`Rem` are Go's division and remainder, which round towards zero.

**DBSync, SyncSpec.** `SyncPortVLANs` and `SyncIPAddresses`, one step per Redis
command, with `SCAN` in batches and other writers in between. Other writers may
also use names that do not validate (`Foreign`), which a Sync lists and then
fails on when it wants to remove them (`Put`). SyncSpec is the
promise to callers; `Implements` states the refinement.

**PortList, DBAccessor.** PortList has the two listings of ports, with ports
that come and go between `SCAN` and the reads. DBAccessor composes both with
the operations that are one command each: `db` maps the hashes of CONFIG_DB to
their fields (none: the hash does not exist), `num` has the numbers with
limits, `ensured` remembers what callers were told is there. The single commands
and a Sync touch different keys and so commute; a behaviour is therefore about
one of the three (`about`), instead of all their interleavings.

**Ztp, ZtpScript, Onie.** A request to either endpoint with edits between its
API calls, and the run of the generated script on the switch, where `mem` is
what the switch works with and `disk` what a power failure leaves. Onie goes
through the entries of onie.json one by one, as `Register` does before the
server listens, and then serves request after request from a directory whose
files come and go, and which may be missing.

### Abstractions

Data is reduced to what the properties distinguish: messages, MAC addresses,
speeds, operational state and neighbors' contents are left out; a script is a
version, an image a file name. A reconcile that fails before it changes anything
and is requeued is a stuttering step. `redis.Client`, the RWMutex, the API
server, watches and garbage collection, SONiC itself, docker and systemd are not
part of the source; they are modelled from how the source uses them and marked
external in the map.

## 3. Runs

`tlc -workers 2 -config <cfg> <module>` in this directory.

| run | what it shows | states |
|---|---|---|
| MCConnPool | `NoLeakedClient`: an open client is pooled, for the database of every goroutine that has it; `NoDeadEntry`; `NoStuckCall`: of the goroutines in Connect one can always go on; `CallsReturn` (no path keeps the lock), `Recovers` | 89,712 |
| MCAgentSetters | `AckedIsDurable`: an acknowledged value nobody overwrote is in CONFIG_DB and in the file, through failures, rollbacks of others and reboots; `KeepsAlias`: no request or rollback leaves a port without an alias, `doomed` ones excepted; `Implements` (SetSpec) | 949,646 |
| MCAgentGetters | `AnswerIsReal`, `ListingComplete`, `ExactAnswer` | 1,402,136 |
| MCOperator | `Converged`: whenever nothing is queued, objects and device agree; `DiscoveryPreservesDevice` | 1,698,971 |
| MCOperatorLive | `Discovered`; `ReadyWithoutAgent`, also with an agent that never answers a request; while requests return, `CleanedUp`: what is deleted goes away, and `Rests`: two controllers that watch what they write do not keep each other busy for ever | 184,826 |
| MCNameConversion | `RoutesAgree`: no name, exact or loose, leads to another port, and an exact one leads to its own | 3,418 |
| MCDBSync | `EachEntryMet`, `Implements`; `EnsuredStays`: what was ensured stays until it is deleted; `ListedIsReal`: a listing of ports has all that stayed and nothing that was never there | 149,539 |
| MCZtpScript | `StrictBoot`, `AllAttempted`, `DoneIsDurable`, `OldContainerKept`, `Finishes` | 260,199 |
| MCZtp | `OwnScriptOnly`, `ServedInTheEnd` | 986,784 |
| MCOnie | `OwnImageOnly` | 260,838 |
| OpEnforced | violates `SpecEnforced` (section 6) | |
| AgentRollbackRace | violates `RollbackSparesAcked` (section 6) | |

Every passing run also checks its module's type invariant, except
MCOperatorLive; the one of MCDBSync, `AccessorTypeOK`, has the limits on MTU,
speed and VLAN numbers.

**Bounds.** Two goroutines are enough for the races on the pool and on a field:
each hazard is about a read of one actor made stale by one other. MCConnPool has
one client more than goroutines, so that a client can be replaced while
another is still held. MCAgentSetters has one port with both fields and two
values for each (an alias and the name of the port; up and down), present or
not at first; the fields are independent of other ports' fields except in
the save, which takes the whole database. The operator runs have one port: ports
share only the workers, which treat them one by one; two
disturbances cover a failure during the recovery from another. MCDBSync has one
failing command and one foreign write anywhere among the commands for three
keys, one of which does not validate, listings of three ports that change
without a bound, and VLAN numbers, MTUs and speeds on both sides of a limit.
MCNameConversion goes around 0, 4, 8, 64 and 256 with lanes up to 7, of either
sign and in every spelling.
The proofs of section 5 need none of these bounds.

Symmetry is used in MCAgentSetters (handlers) and MCDBSync (keys of a Sync that validate),
whose properties are invariants or safety properties that treat all elements
alike. Deadlock is checked in MCConnPool, MCAgentSetters, MCAgentGetters, MCDBSync
and MCOnie, in which something can always happen. In the others the system may
come to rest: a manager with nothing to do, a switch that has its script.

**What the two operator runs assume.** Both have `PatchMayFail = FALSE`: a lost
status patch breaks `ReadyWithoutAgent` and leaves interfaces that are never
taken up, so that `Converged` is about status patches that do not fail
(section 6). MCOperatorLive leaves out agent errors, because an error of
`ListInterfaces` reads as a switch without ports and breaks `Discovered`
(section 6), and edits of the admin state, because these can make spec and
device chase each other. `DiscoveryPreservesDevice`
speaks of behaviours in which no user edits and no STATE_DB read fails
(`tampered`); a failed read reports a port as down, discovery makes that its
spec, and the interface controller then enforces it.

## 4. Fairness

- *Operator*: watches, timer, SONiC, the garbage collector and the steps of a
  worker that do not wait for the agent are weakly fair: controller-runtime and
  Kubernetes keep them running, and requests to the API server return. Starting
  a queued SwitchInterface is strongly fair, since the work queue is first-in
  first-out. Nothing obliges users, faults, restarts or the agent to act. A
  request to the agent has no deadline and may hang, which stops the only worker
  of its controller for every object. `ReadyWithoutAgent` holds nevertheless.
  `CleanedUp`, `Rests` and the refuted `SpecEnforced` and `Settles` say that
  they need more: each request returns in the end, with an answer or an error
  (`RequestsReturn`); the last three also that the agent stays within reach from
  some time on. `CleansUp` without that is refuted (OpHung, section 6).
- *ConnPool*: a goroutine that can run does; Ping and Close have timeouts.
  Acquiring the lock is strongly fair: Go's RWMutex starves neither side.
- *ZtpScript*: the script goes on, and the switch asks again (SONiC's ZTP
  retries). Faults and outages are bounded, not fair.
- *Ztp*: the server answers, and the switch asks again.

## 5. Proofs

| module | theorem | inductive invariant |
|---|---|---|
| ConnPool_proofs | `PoolTypeOK`, `PoolNoLeakedClient`, `PoolNoDeadEntry`, `PoolNeverStuck` | `TypeOK`; exactly the lock holder is between Lock and Unlock; what it knows of its entry (absent while it creates) and of its new client (nobody else has it); no client under two names. Never stuck (`LockIsUsed`): who holds the lock is in its critical section, and a pending writer is one that waits |
| AgentSetters_proofs | `SettersTypeOK`, `AcknowledgedValuesAreDurable`, `SettersKeepAlias`, `SettersImplementPromise`; `SerialRollbackSparesAcked` | `TypeOK`; a handler whose write nobody touched still finds it in CONFIG_DB and, after the save, in the file; what a handler writes, or puts back, to a port that is not `doomed` and that the switch has, is not empty (`KInv`). The first two carry the refinement: a handler that answers OK finds its value. Serial requests: nothing is acknowledged for a field while a request has written it (`NothingAcked`) |
| AgentGetters_proofs | `GettersTypeOK`, `AnswersAreReal`, `ListingsAreComplete`, `SingleAnswersAreExact` | the histories bracket the tables; a listing has collected, or has still to read, every port that stayed; a single request has nothing until it has its answer |
| Operator_proofs | `OperatorTypeOK`, `OperatorPreservesDevice`, `OperatorConverges`, `OperatorDiscovers` | `TypeOK`; a busy worker has a port; without tampering every copy of an admin state (object, cache, listing, worker, both databases) is the one the switch came with. For convergence (`CInv`): the cache lags only while an event is on the way, and an object that is neither announced nor queued is settled or with a worker that will settle, requeue or change it. For discovery (`DInv`): the same for the Switch and each port without an object. |
| NameConversion | `NamesTypeOK`, `RoundTrip`, `AllRoutesAgree`, `HandlesAreUnique` | on the way a name keeps denoting its port, and is exact unless it is the given one; quotient and remainder by four, rounded towards zero, add up again for either sign |
| DBSync_proofs | `SyncTypeOK`, `SyncEachEntryMet`, `SyncImplementsPromise`; `AccessorTypes`, `EnsuredUntilDeleted`, `ListingsAreReal` | what each phase has achieved (`Progress`); an entry once as desired stays so unless another caller writes it (`MetIsKept`), which carries the refinement. For the commands (`Marked`): a hash that was ensured has the one field no other operation takes out. For listings (`ListInv`): a port that stayed is yet to be visited, yet to be read, or listed |
| Provisioning_proofs | `ZtpTypeOK`, `ServesOwnScriptOnly`; `OnieTypes`, `ServesOwnImageOnly` | what a request has matched was alone with its address at some time in the request (`Known`); the histories hold what is the case now. For Onie: the map has, for each vendor, the last of the entries gone through so far, and so the last of all when a request is served |
| ZtpScript_proofs | `ScriptTypeOK`, `BootIsStrict`, `NoContainerSkipped`, `DoneStaysDone`, `OldContainersKept` | where the script is says what it has done (`Progress`): containers before the current one attempted, the image pulled before the old container goes, disk equal to memory after the sync; the boot entry set from its command on (`Armed`) |

The theorems hold for all values of the constants under the `ASSUME`s of the
modules, which only fix types and that the "none" values are distinct. Some have
assumptions of their own, stated in them, and section 6 shows
what goes wrong without each: `OperatorConverges` that status patches do
not fail, `OperatorDiscovers` that agent errors do not happen either,
and `SerialRollbackSparesAcked` that the requests on a field come one after the
other. `HandlesAreUnique` is about the handles the agent publishes; others are
accepted and are second names of a port. `AccessorRunsSync` carries the theorems
about a Sync over to the composed accessor. Each
invariant is inductive only with the strengthening named above: `NoLeakedClient`
alone, say, does not exclude a second goroutine between Lock and Unlock.
`tlapm <module>.tla` checks a module.

Only model-checked: the liveness properties (`CallsReturn`, `Recovers`,
`ReadyWithoutAgent`, `CleanedUp`, `Rests`, `ServedInTheEnd`, `Finishes`), which
need fairness and ENABLED. `NoStuckCall` spells out with the code's own guards
(`CanGoOn`) what ENABLED would say of one step, and so can be proved. Every
invariant, action property and refinement a passing run checks is proved.

## 6. Disagreements between code and text

Two are runs of the project, with a finding each.

- **OpEnforced.** "Interface admin state in `SwitchInterface.spec` is enforced
  on the device" (`docs/concepts/overview.md:14`). Discovery writes the observed
  state into the same field, with ForceOwnership, on every reconcile of the
  Switch, and an edit of an owned interface triggers one. If the Switch worker
  is faster, the edit is gone before it is enforced.
- **AgentRollbackRace.** A rollback restores the value read when the request
  began, not the current one (`sonic_agent.go:374`), over a value another
  request has been acknowledged for. `SerialRollbackSparesAcked` shows that the
  race is the only way to lose a value so.

Further configurations, each of which TLC refutes, for readers of the code:

| cfg (module) | text | what happens |
|---|---|---|
| OpSettles (MCOperator, `-workers 1`) | the same promise, weaker | one edit at the wrong moment: spec and device exchange their values for ever |
| OpEnriched (MCOperator) | "The SONiC agent enriches status when reachable" (`switch_controller.go:94`) | an answer without SKU and firmware, or an error whose code the client ignores, replaces the device information by blanks |
| OpReady (MCOperator) | "declaratively ready as soon as it is accepted" (`switch_controller.go:93`) | a failed status patch is dropped, nothing requeues |
| OpForgotten (MCOperator) | the same dropped error, for an interface (`switchinterface_controller.go:73`) | an interface whose Pending was not stored is never taken up |
| OpHung (MCOperator) | `CleanedUp` without its assumption | a request without a deadline hangs, and the finalizer stays |
| OpMisread (MCOperator) | `DiscoveryPreservesDevice` without its assumption | one failed read of STATE_DB (`sonic_agent.go:257`) and discovery shuts the port |
| OpDiscovered (MCOperator) | "creates/updates `SwitchInterface` CRs based on discovered interfaces" (`docs/concepts/overview.md:13`) | an agent error on ListInterfaces reads as no ports, without a retry |
| AgentPhantomPort (MCAgentSetters) | "Verify the interface exists" (`sonic_agent.go:394`) | HSET has created the key by then |
| AgentRollbackFile (MCAgentSetters) | "rollback admin status" (`sonic_agent.go:415`) | the file keeps the refused value; a reboot brings it back |
| AgentAliasDefaults (MCAgentSetters) | "If state info is not available, use default values" (`sonic_agent.go:784`) | `err` is still set, and the alias is rolled back |
| AgentRollbackEmpty (MCAgentSetters) | "rollback admin status" (`sonic_agent.go:415`) | an admin status that was not set reads as "", and the rollback sets it to that |
| AgentAliasLost (MCAgentSetters) | "store the current s Alias name for rollback" (`sonic_agent.go:741`) | the port was gone at the read and is back at the rollback, which blanks its alias |
| ConnPoolBroken (ConnPool) | "Close the dead connection" (`sonic_agent.go:128`) | a failing Close leaves the closed client in the pool for good |
| NameHandleUnique (NameConversion) | "Handle uniquely identifies this interface" (`switchinterface_types.go:22`) | eth0-4 is a second name of eth1-0 |
| NameNativeHandle (NameConversion) | "(e.g. `Ethernet0`)" (`docs/concepts/resources.md:25`) | the client refuses a handle in that form |
| NameLoose (NameConversion) | "<interface-name>" (`set_interface_status.go:26`) | a loosely spelled name is a port to the commands that convert it and none to the others |
| OnieFilesAtRoot (Onie) | "served ... at HTTP root" (`docs/usage/provisioning.md:165`) | the mux answers 404 outside /onie and /ztp |

## 7. Not modelled

- The accessor's getters that are one read each, and ParseSupportedSpeeds, a
  conversion whose result nothing in the repository acts on.
- The hashes of a Sync and those of the single commands are kept apart in
  DBAccessor; no operation reads both.
- Two SwitchInterface objects with the same handle: the model has one object per
  port. Each would enforce its own admin state in turn.
- The list of ports in a Switch's status, operational state, and the contents
  of neighbors: copied, never decided upon.
- CLI printing and flag handling, the gNOI stub, logging, metrics, TLS, leader
  election, health checks, the standalone provisioning main.
- Generated protobuf, deepcopy and apply-configuration code.
- More than one Switch: Switches share nothing but the workers, which a hanging
  request of one of them keeps from all.
- Numbers in a name so large that `4*port+vport` overflows an `int`.

## 8. Plan

Order of the work so far: pool and set requests (where data can be lost), then
the controllers and their composition, names, read requests, Syncs,
provisioning; then the rest of the database accessor, the proofs of convergence
and discovery, and those of the provisioning modules; then the promise of the
set requests and the theorems that bound the disagreements of section 6. Next:

1. Two Switches, and two objects for one port, in the operator with a reduced
   set of disturbances; the ports of the Switch's status.
2. The agent inside the operator: a refinement between `AgentSetters` and the
   set requests of `SwitchInterfaceController`, which take effect in one step
   there.
3. A second Sync in DBSync, in place of the single writes of `Meddle`.
