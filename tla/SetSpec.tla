------------------------------- MODULE SetSpec -------------------------------
(***************************************************************************)
(* What the agent promises about a request to set a field of a port.  It   *)
(* writes that field and no other: the value asked for once, and after     *)
(* that at most the value it had found.  It succeeds only if it wrote, and *)
(* only if the value is in CONFIG_DB and in config_db.json unless others   *)
(* wrote the field meanwhile.  A request that is refused may have taken    *)
(* effect.                                                                 *)
(***************************************************************************)
CONSTANTS Proc, Port, Field, Settable, Value, NoField

VARIABLES conf,  \* CONFIG_DB: port -> field -> value or NoField
          file,  \* config_db.json, what a reboot loads
          req,   \* the request of each client, and the value it had found
          st,    \* how far it is
          alone  \* nobody else wrote its field since it did

vars == <<conf, file, req, st, alone>>

Init ==
  /\ conf \in [Port -> [Field -> Value \cup {NoField}]] /\ file = conf
  /\ st = [p \in Proc |-> "idle"]
  /\ alone = [p \in Proc |-> FALSE]

\* The field of p's request as it is, absent or not.
Found(p) == conf[req[p].port][req[p].field]

Put(p, v) ==
  LET q == req[p].port  f == req[p].field IN
  /\ conf' = [conf EXCEPT ![q][f] = v]
  /\ alone' = [r \in Proc |-> \/ r = p
                              \/ alone[r] /\ (req[r].port # q \/ req[r].field # f)]

Left == UNCHANGED <<conf, alone>>

\* What the others have asked for stays as it is.
Step(p) == \A r \in Proc \ {p} : st'[r] = st[r] /\ req'[r] = req[r]

Ask(p) ==
  /\ st[p] \in {"idle", "ok", "refused"}
  /\ st'[p] \in {"asked", "refused"} /\ Step(p)
  /\ req'[p].port \in Port /\ req'[p].field \in Settable
  /\ alone' = [alone EXCEPT ![p] = FALSE]
  /\ UNCHANGED <<conf, file>>

\* The old value; an absent one counts as empty.
Note(p) ==
  /\ st[p] = "asked"
  /\ st' = [st EXCEPT ![p] = "noted"]
  /\ req' = [req EXCEPT ![p].old = IF Found(p) = NoField THEN "" ELSE Found(p)]
  /\ Left /\ UNCHANGED file

Set(p) ==
  /\ st[p] = "noted"
  /\ st' = [st EXCEPT ![p] = "set"]
  /\ Put(p, req[p].val)
  /\ UNCHANGED <<file, req>>

Succeed(p) ==
  /\ st[p] = "set" /\ st'[p] = "ok" /\ Step(p)
  /\ alone[p] => /\ Found(p) = req[p].val
                 /\ file[req[p].port][req[p].field] = req[p].val
  /\ Left /\ UNCHANGED file

Refuse(p) ==
  /\ st[p] \in {"asked", "noted", "set"} /\ st'[p] = "refused" /\ Step(p)
  /\ \/ Left
     \/ st[p] = "noted" /\ Put(p, req[p].val)
     \/ st[p] = "set" /\ Put(p, req[p].old)
  /\ UNCHANGED file

Save == file' = conf /\ UNCHANGED <<st, conf, alone, req>>

\* The switch's own tools replace the entry of a port.
Configure(q) ==
  /\ UNCHANGED <<st, file>>
  /\ alone' = [p \in Proc |-> alone[p] /\ req[p].port # q]
  /\ conf' = [conf EXCEPT ![q] = conf'[q]]
  /\ UNCHANGED req

Reboot ==
  /\ st' = [p \in Proc |-> "idle"]
  /\ conf' = file
  /\ alone' = [p \in Proc |-> FALSE]
  /\ UNCHANGED file

Next ==
  \/ \E q \in Port : Configure(q)
  \/ Save \/ Reboot
  \/ \E p \in Proc : Ask(p) \/ Note(p) \/ Set(p) \/ Succeed(p) \/ Refuse(p)

Spec == Init /\ [][Next]_vars
=============================================================================
