------------------------------- MODULE PortList -------------------------------
(***************************************************************************)
(* ListPortNames and ListPortTableEntries of the database accessor: SCAN   *)
(* for the keys of the ports, and in ListPortTableEntries one HGETALL for  *)
(* each.  SONiC adds and removes ports in between.  A list is the set of   *)
(* its elements.                                                           *)
(***************************************************************************)
CONSTANT PortName

VARIABLES lists,    \* which of the two operations this is about
          ports,    \* the ports of the table it lists
          lpc,      \* where the call is
          unseen,   \* ports SCAN has not visited
          keys,     \* ports it has returned, yet to be read
          listed,   \* the answer: ports with their fields
          blank,    \* the answer: ports with an empty map
          always, ever  \* history: ports there all along, and at some time

answer == <<unseen, keys, listed, blank>>
listing == <<lists, ports, lpc, answer, always, ever>>

\* The type of a listing, part of the type invariant of DBAccessor.
ListTypeOK ==
  /\ lists \in {"ListPortNames", "ListPortTableEntries"}
  /\ lpc \in {"idle", "scan", "read", "ok", "error"}
  /\ {ports, unseen, keys, listed, blank, always, ever} \subseteq SUBSET PortName

ListInit ==
  /\ lists \in {"ListPortNames", "ListPortTableEntries"}
  /\ ports \in SUBSET PortName /\ lpc = "idle"
  /\ unseen = {} /\ keys = {} /\ listed = {} /\ blank = {}
  /\ always = {} /\ ever = {}

ListStart ==
  /\ lpc \in {"idle", "ok", "error"} /\ lpc' = "scan"
  /\ unseen' = PortName /\ keys' = {} /\ listed' = {} /\ blank' = {}
  /\ always' = ports /\ ever' = ports /\ UNCHANGED <<lists, ports>>

\* Mutant: the first batch is taken for all of them.
ListScanOnce ==
  /\ lpc = "scan"
  /\ \E B \in (SUBSET unseen) \ {{}} : keys' = keys \cup (B \cap ports)
  /\ unseen' = {} /\ lpc' = "read"
  /\ UNCHANGED <<lists, ports, listed, blank, always, ever>>

\* A batch; the cursor is zero again when every key has been visited.
ListScan ==
  /\ lpc = "scan"
  /\ \E B \in SUBSET unseen :
       /\ unseen' = unseen \ B /\ keys' = keys \cup (B \cap ports)
       /\ lpc' = IF unseen' = {} THEN "read" ELSE "scan"
  /\ UNCHANGED <<lists, ports, listed, blank, always, ever>>

\* HGETALL of a hash that is gone answers with no fields, and no error.
ListRead ==
  /\ lpc = "read" /\ lists = "ListPortTableEntries"
  /\ \E k \in keys :
       /\ keys' = keys \ {k}
       /\ listed' = listed \cup ({k} \cap ports) /\ blank' = blank \cup ({k} \ ports)
  /\ UNCHANGED <<lists, ports, lpc, unseen, always, ever>>

ListDone ==
  /\ lpc = "read" /\ lpc' = "ok"
  /\ \/ lists = "ListPortNames" /\ listed' = keys /\ keys' = {}
     \/ lists = "ListPortTableEntries" /\ keys = {} /\ UNCHANGED <<listed, keys>>
  /\ UNCHANGED <<lists, ports, unseen, blank, always, ever>>

\* The first command that fails ends the call.
ListFails ==
  /\ lpc \in {"scan", "read"} /\ lpc' = "error"
  /\ lpc = "read" => lists = "ListPortTableEntries" /\ keys # {}
  /\ UNCHANGED <<lists, ports, answer, always, ever>>

\* SONiC adds or removes a port.  The histories are about the call only.
PortChanges ==
  /\ \E k \in PortName : ports' = (ports \ {k}) \cup ({k} \ ports)
  /\ IF lpc \in {"scan", "read"}
       THEN always' = always \cap ports' /\ ever' = ever \cup ports'
       ELSE UNCHANGED <<always, ever>>
  /\ UNCHANGED <<lists, lpc, answer>>

ListNext == \/ ListStart \/ ListScan \/ ListRead \/ ListDone \/ ListFails
            \/ PortChanges

-----------------------------------------------------------------------------
\* A listing that succeeds has every port that was there all along, with its
\* fields; it has no port that was not there at some time; and a port with an
\* empty map, which a reader of the answer would take for a port without
\* attributes, is one that has gone in between.
ListedIsReal ==
  lpc = "ok" => /\ always \subseteq listed /\ listed \cup blank \subseteq ever
                /\ blank \cap always = {}
=============================================================================
