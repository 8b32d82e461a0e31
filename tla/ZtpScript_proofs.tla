--------------------------- MODULE ZtpScript_proofs ---------------------------
(***************************************************************************)
(* Proofs about the generated script for any Switches, any containers and  *)
(* any number of failing commands and power failures: its order, that no   *)
(* container is passed over, and that what it has done stays done.         *)
(***************************************************************************)
EXTENDS ZtpScript, TLAPS

InContainer == {"cred", "chown", "pull", "rm", "run"}
InLoop == InContainer \cup {"container", "sync", "exit"}

Attempted(c) == \/ c.name \in logged
                \/ /\ mem.run[c.name] = "new"
                   /\ c.inject => mem.cred[c.name] = "owned"

\* Where the script is says what it has done: the containers before next have
\* been attempted, the one at next is ready for the command at hand.
Progress ==
  /\ pc \in {"units", "enable", "arm", "hostname", "save"} => next = 1
  /\ pc = "save" => mem.hostname = TRUE
  /\ pc \in InLoop => /\ mem.saved = TRUE
                      /\ \A i \in DOMAIN spec.containers :
                           i < next => Attempted(spec.containers[i])
  /\ pc \in {"sync", "exit"} => next = Len(spec.containers) + 1
  /\ pc \in {"pull", "rm", "run"} => (C.inject => mem.cred[C.name] = "owned")
  /\ pc \in {"rm", "run"} => C.name \in pulled
  /\ pc = "exit" => disk = mem

Armed == spec.boot = "InstallOS" /\ pc \notin {"ask", "units", "enable", "arm"}
           => mem.armed = TRUE

IInv == TypeOK /\ Progress /\ Armed

USE ZtpScriptAssumption

-----------------------------------------------------------------------------
\* The container at an index, and the one at next while it is worked on.
LEMMA ContainerAt ==
  ASSUME TypeOK, NEW i \in DOMAIN spec.containers
  PROVE  /\ spec.containers[i].name \in Container
         /\ i \in 1..Len(spec.containers)
         /\ \A j \in DOMAIN spec.containers :
              spec.containers[i].name = spec.containers[j].name => i = j
<1>1. spec.containers \in Seq(ContainerType)
  BY DEF TypeOK
<1>2. spec.containers[i] \in ContainerType
  BY <1>1
<1>3. spec.containers[i].name \in Container
  BY <1>2 DEF ContainerType
<1>4. i \in 1..Len(spec.containers)
  BY <1>1
<1>5. QED
  BY <1>3, <1>4 DEF TypeOK

\* The length of the list is a number, and it is indexed up to there.
LEMMA Containers ==
  ASSUME TypeOK
  PROVE  /\ Len(spec.containers) \in Nat
         /\ DOMAIN spec.containers = 1..Len(spec.containers)
         /\ next \in Nat
  BY DEF TypeOK

\* What a switch starts with.
LEMMA ScriptInit == Init => IInv
<1> SUFFICES ASSUME Init PROVE IInv
  OBVIOUS
<1>1. Fresh \in FileType /\ [Fresh EXCEPT !.run = [c \in Container |-> "old"]] \in FileType
  BY Zenon DEF Fresh, FileType
<1>2. Len(spec.containers) \in Nat
  BY DEF Init
<1>3. TypeOK
  BY <1>1, <1>2 DEF Init, TypeOK, PCs
<1>4. Progress /\ Armed
  BY DEF Init, Progress, Armed, InLoop, InContainer
<1>5. QED
  BY <1>3, <1>4 DEF IInv

\* A run that ends early leaves its traces, and the switch asks again.
LEMMA BackToAsk ==
  ASSUME IInv, pc' = "ask", mem' \in FileType, disk' \in FileType,
         UNCHANGED <<spec, kubeconfig, next, pulled, logged>>,
         faults' \in 0..MaxFaults, outages' \in 0..MaxOutages
  PROVE  IInv'
<1>1. TypeOK'
  BY DEF IInv, TypeOK, PCs
<1>2. Progress' /\ Armed'
  BY DEF Progress, Armed, InLoop, InContainer
<1>3. QED
  BY <1>1, <1>2 DEF IInv

\* Counting a fault.
LEMMA FaultType == ASSUME TypeOK, Fault PROVE faults' \in 0..MaxFaults
  BY DEF TypeOK, Fault

\* A new run starts from the beginning.
LEMMA AskInv == IInv /\ Ask => IInv'
<1> SUFFICES ASSUME IInv, Ask PROVE IInv'
  OBVIOUS
<1>1. /\ TypeOK /\ next' = 1 /\ pc' \in {"units", "hostname"}
      /\ spec.boot = "InstallOS" => pc' = "units"
      /\ pulled' = {} /\ logged' = {}
      /\ UNCHANGED <<spec, kubeconfig, mem, disk, faults, outages>>
  BY DEF Ask, IInv, switch
<1>2. TypeOK'
  BY <1>1, Containers DEF TypeOK, PCs
<1>3. Progress' /\ Armed'
  BY <1>1 DEF Progress, Armed, InLoop, InContainer
<1>4. QED
  BY <1>2, <1>3 DEF IInv

\* A command before the containers: it fails, or does its part.
LEMMA CommandInv ==
  ASSUME IInv, NEW at \in {"units", "enable", "arm", "hostname", "save"},
         NEW new \in FileType,
         NEW then \in {"enable", "arm", "hostname", "save", "container"},
         Command(at, new, then),
         then = "save" => new.hostname = TRUE,
         then = "container" => at = "save" /\ new.saved = TRUE,
         spec.boot = "InstallOS" /\ then \notin {"enable", "arm"} => new.armed = TRUE
  PROVE  IInv'
<1>1. /\ TypeOK /\ next = 1 /\ UNCHANGED <<spec, kubeconfig, next, disk, pulled, logged, outages>>
      /\ mem \in FileType /\ disk \in FileType /\ outages \in 0..MaxOutages
  BY DEF IInv, TypeOK, Progress, Command
<1>2. CASE Fault /\ mem' \in {mem, new} /\ pc' = "ask"
  BY <1>1, <1>2, BackToAsk, FaultType
<1>3. CASE mem' = new /\ pc' = then /\ UNCHANGED faults
  <2>1. TypeOK'
    BY <1>1, <1>3 DEF TypeOK, PCs
  <2>2. Progress'
    BY <1>1, <1>3, Containers DEF Progress, InLoop, InContainer
  <2>3. Armed'
    BY <1>1, <1>3 DEF Armed
  <2>4. QED
    BY <2>1, <2>2, <2>3 DEF IInv
<1>4. QED
  BY <1>2, <1>3 DEF Command

\* The commands before the containers, in their order.
LEMMA PreambleInv ==
  ASSUME IInv,
         WriteUnits \/ EnableMount \/ EnableService \/ ConfigHostname \/ ConfigSave
  PROVE  IInv'
<1>1. TypeOK /\ mem \in FileType /\ Progress /\ Armed
  BY DEF IInv, TypeOK
<1>2. CASE WriteUnits
  <2>1. [mem EXCEPT !.units = TRUE] \in FileType
    BY <1>1, Zenon DEF FileType
  <2>2. QED
    BY <1>2, <2>1, CommandInv, Zenon DEF WriteUnits
<1>3. CASE EnableMount
  <2>1. [mem EXCEPT !.enabled = TRUE] \in FileType
    BY <1>1, Zenon DEF FileType
  <2>2. QED
    BY <1>3, <2>1, CommandInv, Zenon DEF EnableMount
<1>4. CASE EnableService
  <2>1. [mem EXCEPT !.armed = TRUE] \in FileType
        /\ [mem EXCEPT !.armed = TRUE].armed = TRUE
    BY <1>1, Zenon DEF FileType
  <2>2. QED
    BY <1>4, <2>1, CommandInv, Zenon DEF EnableService
<1>5. CASE ConfigHostname
  <2>1. /\ [mem EXCEPT !.hostname = TRUE] \in FileType
        /\ [mem EXCEPT !.hostname = TRUE].hostname = TRUE
        /\ [mem EXCEPT !.hostname = TRUE].armed = mem.armed
    BY <1>1, Zenon DEF FileType
  <2>2. spec.boot = "InstallOS" => mem.armed = TRUE
    BY <1>1, <1>5 DEF Armed, ConfigHostname, Command
  <2>3. QED
    BY <1>5, <2>1, <2>2, CommandInv, Zenon DEF ConfigHostname
<1>6. CASE ConfigSave
  <2>1. mem.hostname = TRUE /\ (spec.boot = "InstallOS" => mem.armed = TRUE)
    BY <1>1, <1>6 DEF Armed, Progress, ConfigSave, Command
  <2>2. /\ [mem EXCEPT !.saved = mem.hostname] \in FileType
        /\ [mem EXCEPT !.saved = mem.hostname].saved = TRUE
        /\ [mem EXCEPT !.saved = mem.hostname].armed = mem.armed
    BY <1>1, <2>1 DEF FileType
  <2>3. QED
    BY <1>6, <2>1, <2>2, CommandInv, Zenon DEF ConfigSave
<1>7. QED
  BY <1>2, <1>3, <1>4, <1>5, <1>6

\* The head of the loop.
LEMMA EachContainerInv == IInv /\ EachContainer => IInv'
<1> SUFFICES ASSUME IInv, EachContainer PROVE IInv'
  OBVIOUS
<1>1. /\ TypeOK /\ Progress /\ Armed /\ pc = "container"
      /\ UNCHANGED <<spec, kubeconfig, next, mem, disk, pulled, logged, faults, outages>>
  BY DEF EachContainer, IInv, switch
<1>2. \/ next = Len(spec.containers) + 1 /\ pc' = "sync"
      \/ next \in DOMAIN spec.containers /\ pc' = "cred"
      \/ next \in DOMAIN spec.containers /\ pc' = "pull" /\ ~C.inject
  BY <1>1, Containers DEF EachContainer, TypeOK
<1>3. TypeOK'
  BY <1>1, <1>2 DEF TypeOK, PCs
<1>4. Progress'
  BY <1>1, <1>2 DEF Progress, InLoop, InContainer, Attempted, C
<1>5. Armed'
  BY <1>1, <1>2 DEF Armed
<1>6. QED
  BY <1>3, <1>4, <1>5 DEF IInv

-----------------------------------------------------------------------------
\* The commands of a container change what belongs to that container.
Touches(m) ==
  /\ m \in FileType /\ m.saved = mem.saved /\ m.armed = mem.armed
  /\ \A c \in Container : c # C.name => m.run[c] = mem.run[c] /\ m.cred[c] = mem.cred[c]

\* What does not concern the loop.
Aside == UNCHANGED <<spec, kubeconfig, disk, outages>>

\* The containers before the one at hand are not undone.
LEMMA EarlierKept ==
  ASSUME IInv, pc \in InContainer, Aside, Touches(mem'), logged \subseteq logged',
         NEW i \in DOMAIN spec.containers, i < next
  PROVE  \/ spec.containers[i].name \in logged'
         \/ /\ mem'.run[spec.containers[i].name] = "new"
            /\ spec.containers[i].inject => mem'.cred[spec.containers[i].name] = "owned"
<1>1. TypeOK /\ next \in DOMAIN spec.containers
  BY DEF IInv, TypeOK, InContainer
<1>2. Attempted(spec.containers[i])
  BY DEF IInv, Progress, InLoop
<1>3. i # next
  BY <1>1, Containers
<1>4. spec.containers[i].name \in Container /\ spec.containers[i].name # C.name
  BY <1>1, <1>3, ContainerAt DEF C
<1>5. QED
  BY <1>2, <1>4 DEF Attempted, Touches

\* The container is done with, started or reported.
LEMMA ToNextContainer ==
  ASSUME IInv, pc \in InContainer, pc' = "container", next' = next + 1, Aside,
         Touches(mem'), logged \subseteq logged', logged' \subseteq Container,
         pulled' = pulled, faults' \in 0..MaxFaults,
         \/ C.name \in logged'
         \/ /\ mem'.run[C.name] = "new"
            /\ C.inject => mem'.cred[C.name] = "owned"
  PROVE  IInv'
<1>1. TypeOK /\ Progress /\ Armed /\ next \in DOMAIN spec.containers
      /\ DOMAIN spec.containers = 1..Len(spec.containers) /\ next \in Nat
      /\ Len(spec.containers) \in Nat
  BY Containers DEF IInv, TypeOK, InContainer
<1>2. TypeOK'
  BY <1>1 DEF TypeOK, PCs, Touches, Aside
<1>3. \A i \in DOMAIN spec.containers : i < next + 1 =>
         \/ spec.containers[i].name \in logged'
         \/ /\ mem'.run[spec.containers[i].name] = "new"
            /\ spec.containers[i].inject => mem'.cred[spec.containers[i].name] = "owned"
  <2> SUFFICES ASSUME NEW i \in DOMAIN spec.containers, i < next + 1
               PROVE \/ spec.containers[i].name \in logged'
                     \/ /\ mem'.run[spec.containers[i].name] = "new"
                        /\ spec.containers[i].inject
                             => mem'.cred[spec.containers[i].name] = "owned"
    OBVIOUS
  <2>1. i < next \/ i = next
    BY <1>1
  <2>2. QED
    BY <2>1, EarlierKept DEF C
<1>4. mem'.saved = TRUE
  BY <1>1 DEF Progress, InLoop, Touches
<1>5. Progress'
  BY <1>3, <1>4 DEF Progress, InLoop, InContainer, Attempted, Aside
<1>6. Armed'
  BY <1>1 DEF Armed, InContainer, Touches, Aside
<1>7. QED
  BY <1>2, <1>5, <1>6 DEF IInv

\* The next command for the same container.
LEMMA ToNextCommand ==
  ASSUME IInv, pc \in InContainer, pc' \in {"chown", "pull", "rm", "run"},
         next' = next, Aside,
         Touches(mem'), logged' = logged, pulled' \subseteq Container,
         faults' \in 0..MaxFaults,
         pc' \in {"pull", "rm", "run"} => (C.inject => mem'.cred[C.name] = "owned"),
         pc' \in {"rm", "run"} => C.name \in pulled'
  PROVE  IInv'
<1>1. TypeOK /\ Progress /\ Armed /\ next \in DOMAIN spec.containers /\ C' = C
  BY DEF IInv, TypeOK, InContainer, Aside, C
<1>2. TypeOK'
  BY <1>1 DEF TypeOK, PCs, Touches, Aside
<1>3. \A i \in DOMAIN spec.containers : i < next =>
         \/ spec.containers[i].name \in logged'
         \/ /\ mem'.run[spec.containers[i].name] = "new"
            /\ spec.containers[i].inject => mem'.cred[spec.containers[i].name] = "owned"
  BY EarlierKept
<1>4. mem'.saved = TRUE
  BY <1>1 DEF Progress, InLoop, Touches
<1>5. Progress'
  BY <1>1, <1>3, <1>4 DEF Progress, InLoop, InContainer, Attempted, Aside
<1>6. Armed'
  BY <1>1 DEF Armed, InContainer, Touches, Aside
<1>7. QED
  BY <1>2, <1>5, <1>6 DEF IInv

\* A failing command of a container is reported.
LEMMA Reported ==
  ASSUME IInv, pc \in InContainer, pc' = "container", next' = next + 1, Aside,
         Touches(mem'), logged' = logged \cup {C.name}, pulled' = pulled,
         faults' \in 0..MaxFaults
  PROVE  IInv'
<1>1. C.name \in Container /\ logged \subseteq Container
  BY ContainerAt DEF IInv, TypeOK, InContainer, C
<1>2. QED
  BY <1>1, ToNextContainer

\* The facts the actions of the loop start from.
LEMMA AtContainer ==
  ASSUME IInv, pc \in InContainer
  PROVE  /\ TypeOK /\ Progress /\ mem \in FileType /\ C.name \in Container
         /\ Touches(mem) /\ faults \in 0..MaxFaults
         /\ logged \subseteq Container /\ pulled \subseteq Container
  BY ContainerAt DEF IInv, TypeOK, InContainer, C, Touches

\* Credentials are written and handed over.
LEMMA CredentialInv == ASSUME IInv, WriteCredential \/ ChownCredential PROVE IInv'
<1>1. pc \in InContainer /\ pulled' = pulled
  BY DEF WriteCredential, ChownCredential, Attempt, InContainer
<1>2. ASSUME NEW v \in {"written", "owned"}
      PROVE  /\ Touches([mem EXCEPT !.cred[C.name] = v])
             /\ [mem EXCEPT !.cred[C.name] = v].cred[C.name] = v
  BY <1>1, AtContainer DEF Touches, FileType
<1>3. CASE WriteCredential
  <2> DEFINE new == [mem EXCEPT !.cred[C.name] = "written"]
  <2>1. Touches(new)
    BY <1>2
  <2>2. Attempt("cred", new, "chown")
    BY <1>3 DEF WriteCredential
  <2> HIDE DEF new
  <2>3. CASE mem' = new /\ pc' = "chown" /\ UNCHANGED <<logged, faults>> /\ next' = next
    BY <1>1, <2>1, <2>2, <2>3, AtContainer, ToNextCommand DEF Attempt, Aside
  <2>4. CASE Fault /\ logged' = logged \cup {C.name} /\ pc' = "container"
             /\ next' = next + 1 /\ mem' \in {mem, new}
    BY <1>1, <2>1, <2>2, <2>4, AtContainer, Reported, FaultType DEF Attempt, Aside
  <2>5. QED
    BY <2>2, <2>3, <2>4 DEF Attempt
<1>4. CASE ChownCredential
  <2> DEFINE new == [mem EXCEPT !.cred[C.name] = "owned"]
  <2>1. Touches(new) /\ new.cred[C.name] = "owned"
    BY <1>2
  <2>2. Attempt("chown", new, "pull")
    BY <1>4 DEF ChownCredential
  <2> HIDE DEF new
  <2>3. CASE mem' = new /\ pc' = "pull" /\ UNCHANGED <<logged, faults>> /\ next' = next
    BY <1>1, <2>1, <2>2, <2>3, AtContainer, ToNextCommand DEF Attempt, Aside
  <2>4. CASE Fault /\ logged' = logged \cup {C.name} /\ pc' = "container"
             /\ next' = next + 1 /\ mem' \in {mem, new}
    BY <1>1, <2>1, <2>2, <2>4, AtContainer, Reported, FaultType DEF Attempt, Aside
  <2>5. QED
    BY <2>2, <2>3, <2>4 DEF Attempt
<1>5. QED
  BY <1>3, <1>4

\* The image is pulled, or the container is left as it is.
LEMMA PullInv == ASSUME IInv, DockerPull PROVE IInv'
<1>1. pc \in InContainer /\ pc = "pull" /\ Attempt("pull", mem, "rm")
  BY DEF DockerPull, Attempt, InContainer
<1>2. CASE mem' = mem /\ pc' = "rm" /\ UNCHANGED <<logged, faults>> /\ next' = next
  <2>1. pulled' = pulled \cup {C.name}
    BY <1>2 DEF DockerPull
  <2>2. C.inject => mem.cred[C.name] = "owned"
    BY <1>1 DEF IInv, Progress
  <2>3. QED
    BY <1>1, <1>2, <2>1, <2>2, AtContainer, ToNextCommand DEF Attempt, Aside
<1>3. CASE Fault /\ logged' = logged \cup {C.name} /\ pc' = "container"
           /\ next' = next + 1 /\ mem' \in {mem, mem}
  <2>1. pulled' = pulled
    BY <1>3 DEF DockerPull
  <2>2. QED
    BY <1>1, <1>3, <2>1, AtContainer, Reported, FaultType DEF Attempt, Aside
<1>4. QED
  BY <1>1, <1>2, <1>3 DEF Attempt

\* The old container goes, or stays in the way.
LEMMA RmInv == ASSUME IInv, DockerRm PROVE IInv'
<1>1. pc \in InContainer /\ pc = "rm" /\ pc' = "run" /\ Aside
      /\ UNCHANGED <<next, pulled, logged>>
  BY DEF DockerRm, InContainer, Aside
<1>2. C.name \in pulled /\ (C.inject => mem.cred[C.name] = "owned")
  BY <1>1 DEF IInv, Progress
<1>3. CASE mem' = [mem EXCEPT !.run[C.name] = "none"] /\ UNCHANGED faults
  <2>1. Touches(mem') /\ mem'.cred = mem.cred
    BY <1>1, <1>3, AtContainer DEF Touches, FileType
  <2>2. QED
    BY <1>1, <1>2, <1>3, <2>1, AtContainer, ToNextCommand
<1>4. CASE Fault /\ UNCHANGED mem
  BY <1>1, <1>2, <1>4, AtContainer, FaultType, ToNextCommand
<1>5. QED
  BY <1>3, <1>4 DEF DockerRm

\* The new container starts, or is reported.
LEMMA RunInv == ASSUME IInv, DockerRun PROVE IInv'
<1>1. pc \in InContainer /\ pc = "run" /\ pulled' = pulled /\ Aside
  BY DEF DockerRun, Attempt, InContainer, Aside, switch
<1>2. C.inject => mem.cred[C.name] = "owned"
  BY <1>1 DEF IInv, Progress
<1>3. CASE /\ logged' = logged \cup {C.name} /\ pc' = "container" /\ next' = next + 1
           /\ UNCHANGED <<switch, faults>>
  BY <1>1, <1>3, AtContainer, Reported DEF switch
<1>4. CASE Attempt("run", [mem EXCEPT !.run[C.name] = "new"], "container")
  <2> DEFINE new == [mem EXCEPT !.run[C.name] = "new"]
  <2>1. Touches(new) /\ new.cred = mem.cred /\ new.run[C.name] = "new"
    BY <1>1, AtContainer DEF Touches, FileType
  <2>2. Attempt("run", new, "container")
    BY <1>4
  <2> HIDE DEF new
  <2>3. CASE mem' = new /\ pc' = "container" /\ UNCHANGED <<logged, faults>>
             /\ next' = next + 1
    BY <1>1, <1>2, <2>1, <2>3, AtContainer, ToNextContainer
  <2>4. CASE Fault /\ logged' = logged \cup {C.name} /\ pc' = "container"
             /\ next' = next + 1 /\ mem' \in {mem, new}
    BY <1>1, <2>1, <2>4, AtContainer, Reported, FaultType
  <2>5. QED
    BY <2>2, <2>3, <2>4 DEF Attempt
<1>5. QED
  BY <1>3, <1>4 DEF DockerRun

-----------------------------------------------------------------------------
\* Everything is on disk before the script ends.
LEMMA SyncInv == IInv /\ Sync => IInv'
<1> SUFFICES ASSUME IInv, Sync PROVE IInv'
  OBVIOUS
<1>1. /\ TypeOK /\ Progress /\ Armed /\ pc = "sync" /\ pc' = "exit" /\ disk' = mem
      /\ UNCHANGED <<spec, kubeconfig, next, mem, pulled, logged, faults, outages>>
  BY DEF Sync, IInv
<1>2. TypeOK'
  BY <1>1 DEF TypeOK, PCs
<1>3. Progress'
  BY <1>1 DEF Progress, InLoop, InContainer, Attempted
<1>4. Armed'
  BY <1>1 DEF Armed
<1>5. QED
  BY <1>2, <1>3, <1>4 DEF IInv

\* Writing back a file changes the disk only, and nothing once all is synced.
LEMMA WrittenInv == ASSUME IInv, NEW f \in DOMAIN mem, Written(f) PROVE IInv'
<1>1. /\ TypeOK /\ Progress /\ Armed /\ mem \in FileType /\ disk \in FileType
      /\ disk[f] # mem[f] /\ disk' = [disk EXCEPT ![f] = mem[f]]
      /\ UNCHANGED <<spec, kubeconfig, pc, next, mem, pulled, logged, faults, outages>>
  BY DEF Written, IInv, TypeOK
<1>2. f \in {"units", "enabled", "armed", "hostname", "saved", "cred", "run"}
  BY <1>1 DEF FileType
<1>3. disk' \in FileType
  BY <1>1, <1>2 DEF FileType
<1>4. TypeOK'
  BY <1>1, <1>3 DEF TypeOK
<1>5. pc # "exit"
  BY <1>1 DEF Progress
<1>6. Progress'
  BY <1>1, <1>5 DEF Progress, InLoop, InContainer, Attempted, C
<1>7. Armed'
  BY <1>1 DEF Armed
<1>8. QED
  BY <1>4, <1>6, <1>7 DEF IInv

\* A power failure ends a run, and takes nothing from one that is through
\* unless the switch is to be installed afresh.
LEMMA PowerInv == IInv /\ PowerFails => IInv'
<1> SUFFICES ASSUME IInv, PowerFails PROVE IInv'
  OBVIOUS
<1>1. /\ TypeOK /\ Progress /\ Armed /\ mem \in FileType /\ disk \in FileType
      /\ mem' = disk' /\ outages' \in 0..MaxOutages /\ faults' \in 0..MaxFaults
      /\ UNCHANGED <<spec, kubeconfig, next, pulled, logged, faults>>
  BY DEF PowerFails, IInv, TypeOK
<1>2. disk' \in FileType
  <2>1. Fresh \in FileType
    BY DEF Fresh, FileType
  <2>2. [disk EXCEPT !.hostname = disk.saved] \in FileType
    BY <1>1 DEF FileType
  <2>3. QED
    BY <2>1, <2>2 DEF PowerFails
<1>3. CASE pc' = "ask"
  BY <1>1, <1>2, <1>3, BackToAsk
<1>4. CASE pc = "exit" /\ ~disk.armed /\ pc' = "exit"
  <2>1. disk = mem /\ disk.saved = TRUE /\ disk' = [disk EXCEPT !.hostname = disk.saved]
    BY <1>1, <1>4 DEF Progress, InLoop, PowerFails
  <2>2. mem'.run = mem.run /\ mem'.cred = mem.cred /\ mem'.saved = TRUE
    BY <1>1, <2>1 DEF FileType
  <2>3. spec.boot # "InstallOS"
    BY <1>1, <1>4, <2>1 DEF Armed
  <2>4. TypeOK'
    BY <1>1, <1>2, <1>4 DEF TypeOK, PCs
  <2>5. Progress'
    BY <1>1, <1>4, <2>2 DEF Progress, InLoop, InContainer, Attempted
  <2>6. Armed'
    BY <1>1, <2>3 DEF Armed
  <2>7. QED
    BY <2>4, <2>5, <2>6 DEF IInv
<1>5. QED
  BY <1>3, <1>4 DEF PowerFails

\* Every command, write-back and power failure preserves it.
LEMMA ScriptNext == IInv /\ [Next]_vars => IInv'
<1> SUFFICES ASSUME IInv, [Next]_vars PROVE IInv'
  OBVIOUS
<1>1. CASE Step
  BY <1>1, AskInv, PreambleInv, EachContainerInv, CredentialInv, PullInv, RmInv,
     RunInv, SyncInv, SMTT(30) DEF Step
<1>2. CASE UNCHANGED vars
  BY <1>2 DEF vars, switch, IInv, TypeOK, Progress, Armed, InLoop, InContainer,
     Attempted, C
<1>3. QED
  BY <1>1, <1>2, PowerInv, WrittenInv DEF Next

\* Where the script is says what it has done, throughout.
THEOREM ScriptInvariant == Spec => []IInv
  BY ScriptInit, ScriptNext, PTL DEF Spec

\* The script runs within its list of containers, and the files of the switch
\* keep their types.
THEOREM ScriptTypeOK == Spec => []TypeOK
<1>1. IInv => TypeOK
  BY DEF IInv
<1>2. QED
  BY <1>1, ScriptInvariant, PTL

\* No run of the script goes past the boot intent without having set the boot
\* entry, however many runs failed before it.
THEOREM BootIsStrict == Spec => []StrictBoot
<1>1. IInv => StrictBoot
  BY DEF IInv, Armed, StrictBoot
<1>2. QED
  BY <1>1, ScriptInvariant, PTL

\* At the end of the script every container of any list runs as declared or
\* was reported.
THEOREM NoContainerSkipped == Spec => []AllAttempted
<1>1. IInv => AllAttempted
  <2> SUFFICES ASSUME IInv, pc = "exit", NEW i \in DOMAIN spec.containers
               PROVE  Attempted(spec.containers[i])
    BY DEF AllAttempted, Elements, Attempted
  <2>1. i < next
    BY Containers DEF IInv, Progress
  <2>2. QED
    BY <2>1 DEF IInv, Progress, InLoop
<1>2. QED
  BY <1>1, ScriptInvariant, PTL

\* What a run that is through has done is on disk.
THEOREM DoneStaysDone == Spec => []DoneIsDurable
<1>1. IInv => DoneIsDurable
  BY DEF IInv, Progress, InLoop, DoneIsDurable
<1>2. QED
  BY <1>1, ScriptInvariant, PTL

\* A step of the script that takes away an old container has its new image.
LEMMA OldKept ==
  ASSUME IInv, [Next]_vars, NEW c \in Container, mem.run[c] = "old",
         mem'.run[c] # "old", outages' = outages
  PROVE  c \in pulled
<1>1. mem \in FileType /\ outages \in Nat /\ Progress
  BY DEF IInv, TypeOK
<1>2. ASSUME NEW at, NEW new, NEW then, Command(at, new, then), new.run = mem.run
      PROVE  FALSE
  BY <1>2 DEF Command
<1>3. ASSUME NEW at, NEW new, NEW then, Attempt(at, new, then), new.run = mem.run
      PROVE  FALSE
  BY <1>3 DEF Attempt
<1>4. CASE WriteUnits \/ EnableMount \/ EnableService \/ ConfigHostname \/ ConfigSave
  <2>1. /\ [mem EXCEPT !.units = TRUE].run = mem.run
        /\ [mem EXCEPT !.enabled = TRUE].run = mem.run
        /\ [mem EXCEPT !.armed = TRUE].run = mem.run
        /\ [mem EXCEPT !.hostname = TRUE].run = mem.run
        /\ [mem EXCEPT !.saved = mem.hostname].run = mem.run
    BY <1>1 DEF FileType
  <2>2. QED
    BY <1>2, <1>4, <2>1, Zenon DEF WriteUnits, EnableMount, EnableService, ConfigHostname,
       ConfigSave
<1>5. CASE WriteCredential \/ ChownCredential \/ DockerPull
  <2>1. /\ [mem EXCEPT !.cred[C.name] = "written"].run = mem.run
        /\ [mem EXCEPT !.cred[C.name] = "owned"].run = mem.run
    BY <1>1 DEF FileType
  <2>2. QED
    BY <1>3, <1>5, <2>1, Zenon DEF WriteCredential, ChownCredential, DockerPull
<1>6. CASE DockerRm
  <2>1. c = C.name
    BY <1>1, <1>6 DEF DockerRm, FileType
  <2>2. QED
    BY <1>1, <1>6, <2>1 DEF DockerRm, Progress
<1>7. CASE DockerRun
  <2>1. c = C.name
    BY <1>1, <1>7 DEF DockerRun, Attempt, FileType, switch
  <2>2. QED
    BY <1>1, <1>7, <2>1 DEF DockerRun, Progress
<1>8. CASE PowerFails
  BY <1>1, <1>8 DEF PowerFails
<1>9. QED
  BY <1>4, <1>5, <1>6, <1>7, <1>8
     DEF Next, Step, Ask, EachContainer, Sync, Written, vars, switch

\* For any containers and any faults, an old container goes only after the
\* image that replaces it has come.
THEOREM OldContainersKept == Spec => OldContainerKept
<1>1. IInv /\ [Next]_vars
        => [\A c \in Container : mem.run[c] = "old" /\ mem'.run[c] # "old"
                                 /\ outages' = outages => c \in pulled]_vars
  BY OldKept
<1>2. QED
  BY <1>1, ScriptInvariant, PTL DEF Spec, OldContainerKept
=============================================================================
