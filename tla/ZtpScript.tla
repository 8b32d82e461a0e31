------------------------------- MODULE ZtpScript -------------------------------
(***************************************************************************)
(* Generated ZTP: the provisioning server renders a script from a Switch,  *)
(* and the switch runs it, command by command.  Commands fail, the power   *)
(* fails, and what was written is safe only once it was synced.  The       *)
(* switch asks for the script again until a run of it succeeds.            *)
(***************************************************************************)
EXTENDS Naturals, Sequences

CONSTANTS Container,  \* names of containers
          Switches,   \* the Switch specs to provision from
          MaxFaults,  \* bound: failing commands
          MaxOutages  \* bound: power failures

\* A volume has an absolute path, a relative one or no hostPath; a mount names
\* a volume and a path in the container.
Paths == {"abs", "rel"}
VolumeType == [name : STRING, path : Paths \cup {"none"}]
MountType == [name : STRING, at : STRING, path : Paths]
ContainerType == [name : Container, inject : BOOLEAN, user : BOOLEAN,
                  group : BOOLEAN, mounts : Seq(MountType)]

\* The API server admits distinct names of containers and of volumes, and None
\* or InstallOS as boot mode.
ASSUME ZtpScriptAssumption ==
  /\ MaxFaults \in Nat /\ MaxOutages \in Nat
  /\ \A s \in Switches :
       /\ s.boot \in {"None", "InstallOS"}
       /\ s.containers \in Seq(ContainerType) /\ s.volumes \in Seq(VolumeType)
       /\ \A i, j \in DOMAIN s.containers :
            s.containers[i].name = s.containers[j].name => i = j

Elements(q) == {q[i] : i \in DOMAIN q}

-----------------------------------------------------------------------------
\* Rendering.  A container's user is given by runAsUser; runAsGroup needs it.
ContainerDockerUser(c) == c.group => c.user
HostPathVolumes(s) == \A v \in Elements(s.volumes) : v.path = "abs"
ContainerVolumeMounts(s, c) ==
  /\ \A m \in Elements(c.mounts) :
       m.path = "abs" /\ \E v \in Elements(s.volumes) : v.name = m.name
  /\ \A i, j \in DOMAIN c.mounts : c.mounts[i].at = c.mounts[j].at => i = j

\* The volumes matter only when there are containers, the kubeconfig file only
\* when one of them opts in.
Renders(s, kubeconfig) ==
  /\ s.containers # <<>> => HostPathVolumes(s)
  /\ \A c \in Elements(s.containers) :
       /\ c.inject => kubeconfig /\ c.user
       /\ ContainerDockerUser(c) /\ ContainerVolumeMounts(s, c)

-----------------------------------------------------------------------------
VARIABLES spec,        \* the Switch
          kubeconfig,  \* the manager has a readable control kubeconfig
          pc,          \* the command to run next
          next,        \* index of the container it is about
          mem, disk,   \* what the switch sees of its files, and what is safe
          pulled,      \* containers whose image this run has pulled
          logged,      \* containers this run reported as failed
          faults, outages

switch == <<mem, disk>>
vars == <<spec, kubeconfig, pc, next, switch, pulled, logged, faults, outages>>

\* The ONIE units are written and enabled, the boot entry is set; hostname and
\* startup configuration are as wanted; credentials are written and handed to
\* the container's user; a container is absent, from before or new.
FileType == [units : BOOLEAN, enabled : BOOLEAN, armed : BOOLEAN,
             hostname : BOOLEAN, saved : BOOLEAN,
             cred : [Container -> {"none", "written", "owned"}],
             run : [Container -> {"none", "old", "new"}]]

PCs == {"ask", "units", "enable", "arm", "hostname", "save", "container",
        "cred", "chown", "pull", "rm", "run", "sync", "exit"}

\* Type invariant: the script never runs past its last container.
TypeOK == /\ spec \in Switches /\ kubeconfig \in BOOLEAN
          /\ pc \in PCs /\ next \in 1..Len(spec.containers) + 1
          /\ pc \in {"cred", "chown", "pull", "rm", "run"}
               => next \in DOMAIN spec.containers
          /\ mem \in FileType /\ disk \in FileType
          /\ pulled \subseteq Container /\ logged \subseteq Container
          /\ faults \in 0..MaxFaults /\ outages \in 0..MaxOutages

\* A switch with a fresh SONiC, or one provisioned earlier and reset to ask for
\* ZTP again: its containers still run.
Fresh == [units |-> FALSE, enabled |-> FALSE, armed |-> FALSE,
          hostname |-> FALSE, saved |-> FALSE,
          cred |-> [c \in Container |-> "none"], run |-> [c \in Container |-> "none"]]

Init ==
  /\ spec \in Switches /\ kubeconfig \in BOOLEAN
  /\ pc = "ask" /\ next = 1
  /\ mem \in {Fresh, [Fresh EXCEPT !.run = [c \in Container |-> "old"]]}
  /\ disk = mem
  /\ pulled = {} /\ logged = {} /\ faults = 0 /\ outages = 0

C == spec.containers[next]
Fault == faults < MaxFaults /\ faults' = faults + 1

\* A command of the script proper: under set -e a failure, with or without
\* effect, ends the run, and the switch asks again.
Command(at, new, then) ==
  /\ pc = at
  /\ \/ mem' = new /\ pc' = then /\ UNCHANGED faults
     \/ Fault /\ mem' \in {mem, new} /\ pc' = "ask"
  /\ UNCHANGED <<spec, kubeconfig, next, disk, pulled, logged, outages>>

\* GET /ztp.  A script that does not render is an error, and the switch retries.
Ask ==
  /\ pc = "ask" /\ Renders(spec, kubeconfig)
  /\ pc' = IF spec.boot = "InstallOS" THEN "units" ELSE "hostname"
  /\ next' = 1 /\ pulled' = {} /\ logged' = {}
  /\ UNCHANGED <<spec, kubeconfig, switch, faults, outages>>

\* Mutant: mkdir without -p fails when an earlier run got this far.
WriteUnitsOnce ==
  /\ pc = "units" /\ mem' = [mem EXCEPT !.units = TRUE]
  /\ pc' = IF mem.units THEN "ask" ELSE "enable"
  /\ UNCHANGED <<spec, kubeconfig, next, disk, pulled, logged, faults, outages>>

WriteUnits == Command("units", [mem EXCEPT !.units = TRUE], "enable")
EnableMount == Command("enable", [mem EXCEPT !.enabled = TRUE], "arm")

\* Mutant: its failure is ignored.
EnableServiceIgnored ==
  /\ pc = "arm" /\ pc' = "hostname"
  /\ \/ mem' = [mem EXCEPT !.armed = TRUE] /\ UNCHANGED faults
     \/ Fault /\ UNCHANGED mem
  /\ UNCHANGED <<spec, kubeconfig, next, disk, pulled, logged, outages>>

\* Enabling the service now runs it: it sets both boot variables.
EnableService == Command("arm", [mem EXCEPT !.armed = TRUE], "hostname")
ConfigHostname == Command("hostname", [mem EXCEPT !.hostname = TRUE], "save")
ConfigSave == Command("save", [mem EXCEPT !.saved = mem.hostname], "container")

\* Mutant: the loop runs once too often.
OneContainerMore ==
  /\ pc = "container"
  /\ pc' = IF next > Len(spec.containers) + 1 THEN "sync" ELSE "pull"
  /\ UNCHANGED <<spec, kubeconfig, next, switch, pulled, logged, faults, outages>>

\* The loop over the containers.
EachContainer ==
  /\ pc = "container"
  /\ pc' = IF next > Len(spec.containers) THEN "sync"
           ELSE IF C.inject THEN "cred" ELSE "pull"
  /\ UNCHANGED <<spec, kubeconfig, next, switch, pulled, logged, faults, outages>>

\* Mutant: the failure of a container ends the run.
AttemptStrict(at, new, then) ==
  /\ pc = at
  /\ \/ mem' = new /\ pc' = then /\ UNCHANGED <<next, faults>>
     \/ Fault /\ pc' = "sync" /\ UNCHANGED <<mem, next>>
  /\ UNCHANGED <<spec, kubeconfig, disk, logged, outages>>

\* A command of a container's subshell: a failure is logged, and the loop goes
\* on with the next container.
Attempt(at, new, then) ==
  /\ pc = at
  /\ \/ /\ mem' = new /\ pc' = then /\ UNCHANGED <<logged, faults>>
        /\ next' = IF then = "container" THEN next + 1 ELSE next
     \/ /\ Fault /\ logged' = logged \cup {C.name} /\ pc' = "container"
        /\ next' = next + 1 /\ mem' \in {mem, new}
  /\ UNCHANGED <<spec, kubeconfig, disk, outages>>

WriteCredential ==
  Attempt("cred", [mem EXCEPT !.cred[C.name] = "written"], "chown") /\ UNCHANGED pulled
ChownCredential ==
  Attempt("chown", [mem EXCEPT !.cred[C.name] = "owned"], "pull") /\ UNCHANGED pulled

\* Mutant: a failed pull does not stop the replacement.
DockerPullIgnored ==
  /\ pc = "pull" /\ pc' = "rm"
  /\ \/ pulled' = pulled \cup {C.name} /\ UNCHANGED faults
     \/ Fault /\ UNCHANGED pulled
  /\ UNCHANGED <<spec, kubeconfig, next, switch, logged, outages>>

DockerPull ==
  /\ Attempt("pull", mem, "rm")
  /\ pulled' = IF pc' = "rm" THEN pulled \cup {C.name} ELSE pulled

\* The result of docker rm is ignored.
DockerRm ==
  /\ pc = "rm" /\ pc' = "run"
  /\ \/ mem' = [mem EXCEPT !.run[C.name] = "none"] /\ UNCHANGED faults
     \/ Fault /\ UNCHANGED mem
  /\ UNCHANGED <<spec, kubeconfig, next, disk, pulled, logged, outages>>

\* docker run refuses a name that is taken.
DockerRun ==
  /\ pc = "run"
  /\ \/ /\ mem.run[C.name] = "none"
        /\ Attempt("run", [mem EXCEPT !.run[C.name] = "new"], "container")
     \/ /\ mem.run[C.name] # "none"
        /\ logged' = logged \cup {C.name} /\ pc' = "container" /\ next' = next + 1
        /\ UNCHANGED <<spec, kubeconfig, switch, faults, outages>>
  /\ UNCHANGED pulled

\* Mutant: the script ends without it.
SyncOmitted ==
  /\ pc = "sync" /\ pc' = "exit"
  /\ UNCHANGED <<spec, kubeconfig, next, switch, pulled, logged, faults, outages>>

Sync ==
  /\ pc = "sync" /\ disk' = mem /\ pc' = "exit"
  /\ UNCHANGED <<spec, kubeconfig, next, mem, pulled, logged, faults, outages>>

\* The kernel writes a file back in its own time.
Written(f) ==
  /\ disk[f] # mem[f] /\ disk' = [disk EXCEPT ![f] = mem[f]]
  /\ UNCHANGED <<spec, kubeconfig, pc, next, mem, pulled, logged, faults, outages>>

\* The power fails.  The switch comes up with what is on disk; with the boot
\* entry set it enters ONIE, which installs SONiC afresh.
PowerFails ==
  /\ outages < MaxOutages /\ outages' = outages + 1
  /\ disk' = IF disk.armed THEN Fresh ELSE [disk EXCEPT !.hostname = disk.saved]
  /\ mem' = disk'
  /\ pc' = IF pc = "exit" /\ ~disk.armed THEN "exit" ELSE "ask"
  /\ UNCHANGED <<spec, kubeconfig, next, pulled, logged, faults>>

Step == \/ Ask \/ WriteUnits \/ EnableMount \/ EnableService
        \/ ConfigHostname \/ ConfigSave
        \/ EachContainer \/ WriteCredential \/ ChownCredential
        \/ DockerPull \/ DockerRm \/ DockerRun \/ Sync

Next == Step \/ PowerFails \/ \E f \in DOMAIN mem : Written(f)

Spec == Init /\ [][Next]_vars

\* The switch keeps running the script, and asks again after a failure.
FairSpec == Spec /\ WF_vars(Step)

-----------------------------------------------------------------------------
\* "Boot lifecycle intent is strict and appears before fallible switch or
\* workload configuration" (generated_mode.go:82): a run that goes past it has
\* set the boot entry, also when an earlier run failed half-way.
StrictBoot ==
  spec.boot = "InstallOS" /\ pc \notin {"ask", "units", "enable", "arm"} => mem.armed

\* "Containers are best effort" (docs/usage/provisioning.md:78): when the script
\* is through, every container runs as declared or was reported, none is
\* skipped because of another one.
AllAttempted ==
  pc = "exit" => \A c \in Elements(spec.containers) :
                   \/ c.name \in logged
                   \/ /\ mem.run[c.name] = "new"
                      /\ c.inject => mem.cred[c.name] = "owned"

\* A run that is through has put on disk all that it has set up, hostname, boot
\* entry and containers (the final sync of the template), so that a power
\* failure takes none of it back.  It says nothing of an OS that ONIE installs
\* afterwards.
DoneIsDurable == pc = "exit" => disk = mem /\ disk.saved

\* An unreachable registry costs no running container: the script removes the
\* old one only with the new image at hand.
OldContainerKept ==
  [][\A c \in Container : mem.run[c] = "old" /\ mem'.run[c] # "old" /\ outages' = outages
       => c \in pulled]_vars

\* A script that renders runs to its end once commands stop failing and the
\* power stays: what earlier runs left behind (units, files, containers with
\* the same name) is in no later run's way.
Finishes == Renders(spec, kubeconfig) => <>[](pc = "exit")
=============================================================================
