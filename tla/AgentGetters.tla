----------------------------- MODULE AgentGetters -----------------------------
(***************************************************************************)
(* The read requests, from the client in the manager through the agent's   *)
(* gRPC server to the Redis databases and back.  A request reads several   *)
(* tables one after the other while SONiC adds and removes ports, so each  *)
(* read is a step of its own.  Any of them may fail.                       *)
(*                                                                         *)
(* Reads do not disturb each other: one request at a time is enough.       *)
(***************************************************************************)
EXTENDS Naturals

CONSTANTS Port,        \* ports by native name
          Unnamed,     \* those without an abstract name, e.g. Ethernet-BP0
          MaxChanges   \* bound: changes SONiC makes

ASSUME AgentGettersAssumption ==
  Port # {} /\ Unnamed \subseteq Port /\ MaxChanges \in Nat

Codes == {"OK", "BAD_REQUEST", "NOT_FOUND", "REDIS_KEY_CHECK_FAIL"}
Ops == {"ListInterfaces", "GetInterface", "GetInterfaceNeighbor", "ListPorts",
        "GetDeviceInfo"}
Lists == {"ListInterfaces", "ListPorts"}

\* Table entries.  A PORT key may lack its alias; an APPL_DB port may be part
\* of another one; an LLDP entry may lack the system name.
ConfigEntry == {"none", "bare", "full"}
ApplEntry == {"none", "part", "physical"}
LldpEntry == {"none", "partial", "full"}

VARIABLES config, appl, lldp, \* per port, its entry in each table
          link,               \* ports with a netlink interface and its MAC
          mac,                \* DEVICE_METADATA holds the MAC
          changes,            \* changes made so far
          c,                  \* the request under way
          always, ever        \* history: ports whose entry of the table the
                              \* request is about was complete all along, or
                              \* at some time since it began

db == <<config, appl, lldp, link, mac>>
vars == <<config, appl, lldp, link, mac, changes, c, always, ever>>

\* The ports a request may answer with, going by the tables right now.
Present(op) ==
  {q \in Port : \/ op \in {"ListInterfaces", "GetInterface"} /\ config[q] = "full"
                \/ op = "GetInterfaceNeighbor" /\ lldp[q] = "full"
                \/ op = "ListPorts" /\ appl[q] = "physical"}

\* A request: todo are the keys listed and not yet read, items what it has
\* collected, code and got what the agent and the client make of it.
Requests == [op : Ops, pc : {"idle", "begin", "each", "state", "appl", "link",
                             "alias", "lldp", "port", "served", "done"},
             q : Port, todo : SUBSET Port, items : SUBSET Port,
             code : Codes, err : BOOLEAN]

\* Type invariant: a request works on names of ports, and its answer has one of
\* the codes of errors.go.
TypeOK ==
  /\ config \in [Port -> ConfigEntry] /\ appl \in [Port -> ApplEntry]
  /\ lldp \in [Port -> LldpEntry] /\ link \subseteq Port /\ mac \in BOOLEAN
  /\ changes \in 0..MaxChanges
  /\ c \in Requests
  /\ always \subseteq Port /\ ever \subseteq Port

NewRequest(op, q, pc) == [op |-> op, pc |-> pc, q |-> q, todo |-> {},
                          items |-> {}, code |-> "OK", err |-> FALSE]

\* The switch is up, with or without the ports that have no abstract name.
Init ==
  /\ \E e \in {"none", "full"} :
       config = [q \in Port |-> IF q \in Unnamed THEN e ELSE "full"]
  /\ link = Port
  /\ \E q \in Port : appl = [r \in Port |-> IF r = q THEN "part" ELSE "physical"]
  /\ \E e \in {"none", "full"} : lldp = [q \in Port |-> e]
  /\ mac \in BOOLEAN /\ changes = 0
  /\ c = NewRequest("GetDeviceInfo", CHOOSE q \in Port : TRUE, "idle")
  /\ always = {} /\ ever = {}

-----------------------------------------------------------------------------
\* The agent returns a status; on OK the items collected so far go with it.
Return(code) == [c EXCEPT !.pc = "served", !.code = code, !.todo = {},
                          !.items = IF code = "OK" THEN @ ELSE {}]
Goto(pc) == [c EXCEPT !.pc = pc]
Collect(q) == [c EXCEPT !.items = @ \cup {q}]
Serve(q) == [Collect(q) EXCEPT !.pc = "served"]  \* OK with the one item asked for

\* A Redis request may fail whatever is stored.
Fails(code) == c' = Return(code)

Call(op, q) ==
  /\ c.pc = "idle"
  /\ c' = NewRequest(op, q, "begin")
  /\ always' = Present(op) /\ ever' = Present(op)
  /\ UNCHANGED <<db, changes>>

Reading(pc) == c.pc = pc /\ UNCHANGED <<db, changes, always, ever>>

GetDeviceInfo ==
  /\ Reading("begin") /\ c.op = "GetDeviceInfo"
  /\ \/ Fails("BAD_REQUEST")
     \/ c' = Return(IF mac THEN "OK" ELSE "NOT_FOUND")

\* KEYS PORT|* and KEYS PORT_TABLE:*.
KeysAsMap ==   \* mutant: the entries are kept in place of the names
  /\ Reading("begin") /\ c.op \in Lists
  /\ c' = [c EXCEPT !.pc = "each", !.todo = {config[q] : q \in Port}]

Keys ==
  /\ Reading("begin") /\ c.op \in Lists
  /\ \/ Fails("BAD_REQUEST")
     \/ c' = [c EXCEPT !.pc = "each",
                !.todo = IF c.op = "ListPorts"
                         THEN {q \in Port : appl[q] # "none"}
                         ELSE {q \in Port : config[q] # "none"}]

\* The loop over the keys, in the order Redis returned them.
Each ==
  /\ Reading("each")
  /\ \/ c.todo = {} /\ c' = Return("OK")
     \/ \E q \in c.todo :
          c' = [c EXCEPT !.q = q, !.todo = @ \ {q},
                  !.pc = IF c.op = "ListPorts" THEN "port" ELSE "state"]

\* EXISTS of the key, after the name has been converted.
Exists ==
  /\ Reading("begin") /\ c.op \in {"GetInterface", "GetInterfaceNeighbor"}
  /\ \/ Fails("BAD_REQUEST")
     \/ c' = IF c.op = "GetInterface"
             THEN IF config[c.q] = "none" THEN Return("NOT_FOUND") ELSE Goto("state")
             ELSE IF lldp[c.q] = "none" THEN Return("NOT_FOUND") ELSE Goto("lldp")

\* STATE_DB: whatever happens, there is a default.
ReadState == Reading("state") /\ c' = Goto("appl")

\* APPL_DB: a failed read ends a listing, and GetInterface has a default for
\* it; a failed connection ends GetInterface, too.
ReadAppl ==
  /\ Reading("appl")
  /\ c' = Goto("link") \/ Fails("BAD_REQUEST")

\* Mutant: an interface without a netlink device is left out of the listing.
SkipWithoutLink ==
  /\ Reading("link")
  /\ c' = IF c.q \notin link
          THEN IF c.op = "ListInterfaces" THEN Goto("each") ELSE Return("NOT_FOUND")
          ELSE IF c.op = "ListInterfaces" /\ c.q \in Unnamed
               THEN Return("BAD_REQUEST")
          ELSE Goto("alias")

\* The MAC address, and in a listing the abstract name.
ReadLink ==
  /\ Reading("link")
  /\ c' = IF c.q \notin link THEN Return("NOT_FOUND")
          ELSE IF c.op = "ListInterfaces" /\ c.q \in Unnamed
               THEN Return("BAD_REQUEST")
          ELSE Goto("alias")

\* HGET of the alias, which fails when the field is absent.
ReadAlias ==
  /\ Reading("alias")
  /\ \/ Fails("REDIS_KEY_CHECK_FAIL")
     \/ /\ config[c.q] = "full"
        /\ c' = IF c.op = "ListInterfaces"
                THEN [Collect(c.q) EXCEPT !.pc = "each"]
                ELSE IF c.q \in Unnamed THEN Return("BAD_REQUEST")
                ELSE Serve(c.q)

\* Mutant: an incomplete entry is taken for a neighbor.
ReadAnyLldp ==
  /\ Reading("lldp")
  /\ c' = Serve(c.q)

\* HGETALL of the LLDP entry, which may have changed since EXISTS; the name of
\* the remote interface may not convert.
ReadLldp ==
  /\ Reading("lldp")
  /\ \/ Fails("BAD_REQUEST")
     \/ c' = IF lldp[c.q] = "full" THEN Serve(c.q)
             ELSE Return("NOT_FOUND")

\* HGETALL of a PORT_TABLE entry: what cannot be read is skipped, and so is
\* what is not a physical port.
ReadPort ==
  /\ Reading("port")
  /\ \/ c' = Goto("each")
     \/ appl[c.q] = "physical" /\ c' = [Collect(c.q) EXCEPT !.pc = "each"]

\* Mutant: no client method looks at the status of the answer.
AnswerUnchecked ==
  /\ Reading("served") /\ c.op \in {"GetInterface", "GetInterfaceNeighbor"}
  /\ c' = [c EXCEPT !.pc = "done"]

\* GetInterfaceByAbstractName and GetInterfaceNeighbor of the client turn a
\* code other than OK into an error.
AnswerSingle ==
  /\ Reading("served") /\ c.op \in {"GetInterface", "GetInterfaceNeighbor"}
  /\ c' = [c EXCEPT !.pc = "done", !.err = c.code # "OK"]

\* GetDeviceInfo and the listings ignore the code.
AnswerUncoded ==
  /\ Reading("served") /\ c.op \notin {"GetInterface", "GetInterfaceNeighbor"}
  /\ c' = [c EXCEPT !.pc = "done"]

\* No connection, or the call fails.
CallFails ==
  /\ Reading("served")
  /\ c' = [c EXCEPT !.pc = "done", !.err = TRUE, !.items = {}]

Answer == AnswerSingle \/ AnswerUncoded \/ CallFails

Finish ==
  /\ Reading("done")
  /\ c' = NewRequest("GetDeviceInfo", CHOOSE q \in Port : TRUE, "idle")

-----------------------------------------------------------------------------
\* SONiC, LLDP and the other users of the databases; the history follows.
Change ==
  /\ changes < MaxChanges /\ changes' = changes + 1
  /\ UNCHANGED c
  /\ always' = always \cap Present(c.op)'
  /\ ever' = IF c.pc = "idle" THEN {} ELSE ever \cup Present(c.op)'

ConfigChanges(q) ==
  /\ \E e \in ConfigEntry \ {config[q]} : config' = [config EXCEPT ![q] = e]
  /\ UNCHANGED <<appl, lldp, link, mac>>
  /\ Change

ApplChanges(q) ==
  /\ \E e \in ApplEntry \ {appl[q]} : appl' = [appl EXCEPT ![q] = e]
  /\ UNCHANGED <<config, lldp, link, mac>>
  /\ Change

LldpChanges(q) ==
  /\ \E e \in LldpEntry \ {lldp[q]} : lldp' = [lldp EXCEPT ![q] = e]
  /\ UNCHANGED <<config, appl, link, mac>>
  /\ Change

LinkChanges(q) ==
  /\ link' = IF q \in link THEN link \ {q} ELSE link \cup {q}
  /\ UNCHANGED <<config, appl, lldp, mac>>
  /\ Change

Next ==
  \/ \E op \in Ops, q \in Port : Call(op, q)
  \/ GetDeviceInfo \/ Keys \/ Each \/ Exists
  \/ ReadState \/ ReadAppl \/ ReadLink \/ ReadAlias \/ ReadLldp \/ ReadPort
  \/ Answer \/ Finish
  \/ \E q \in Port : \/ ConfigChanges(q) \/ ApplChanges(q)
                     \/ LldpChanges(q) \/ LinkChanges(q)

Spec == Init /\ [][Next]_vars

-----------------------------------------------------------------------------
\* An answer never names a port, a neighbor or an interface that was not
\* there, complete, at some time during the request: KEYS or EXISTS and the
\* reads that follow may see different states of the tables.
AnswerIsReal == c.pc = "done" => c.items \subseteq ever

\* A listing the agent calls a success has every interface that was configured
\* all the time the agent was reading.
ListingComplete ==
  c.pc = "done" /\ c.op = "ListInterfaces" /\ c.code = "OK" /\ ~c.err =>
    always \subseteq c.items

\* A request for one interface or neighbor succeeds at the client only with
\* exactly what was asked for: no failure on the way, in the agent or in the
\* call, turns into an empty success.
ExactAnswer ==
  c.pc = "done" /\ ~c.err /\ c.op \in {"GetInterface", "GetInterfaceNeighbor"} =>
    c.items = {c.q}
=============================================================================
