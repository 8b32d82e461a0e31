---------------------------- MODULE AgentSetters ----------------------------
(***************************************************************************)
(* SetInterfaceAdminStatus, SetInterfaceAliasName and SaveConfig of the    *)
(* SONiC agent (internal/agent/sonic/sonic_agent.go).  Each handler reads  *)
(* the old value of one field of PORT|<name>, writes the new one, has the  *)
(* host service save CONFIG_DB to config_db.json, and only then looks      *)
(* whether the port exists and reads back what it reports.  Several        *)
(* handlers run at once; any Redis or D-Bus call may fail, and one that    *)
(* times out may have taken effect all the same.                           *)
(***************************************************************************)
EXTENDS Naturals

CONSTANTS Proc,    \* handler goroutines
          Port,    \* native port names that requests mention
          HwPort,  \* the ones the switch has
          Alias,   \* alias names
          Admin,   \* admin statuses that requests ask for; the agent checks none
          NoField  \* a hash field that is not there

Field == {"lanes", "admin_status", "alias"}
Settable == {"admin_status", "alias"}
Value == Admin \cup Alias \cup {"up", "", "lanes", "name"}
Wanted(f) == IF f = "alias" THEN Alias \cup {""} ELSE Admin

ASSUME AgentSettersAssumption ==
  /\ HwPort \subseteq Port
  /\ NoField \notin Value
  /\ Port # {}

ASSUME AliasAssumption == "" \notin Alias

VARIABLES config,  \* CONFIG_DB: port -> field -> value or NoField
          saved,   \* config_db.json, what a reboot loads
          h,       \* the request each handler works on
          clean,   \* history: nobody else wrote the field since the handler did
          acked,   \* history: value last acknowledged and not overwritten since
          doomed   \* history: ports that came back under a request which had
                   \* found them gone and may yet put that back

vars == <<config, saved, h, clean, acked, doomed>>

Store == [Port -> [Field -> Value \cup {NoField}]]

Code == {"none", "OK", "BAD_REQUEST", "NOT_FOUND", "REDIS_HSET_FAIL",
         "REDIS_KEY_CHECK_FAIL"}
Label == {"idle", "read", "write", "save", "undoSave", "verify", "state",
          "appl", "alias", "undoRead", "answered"}
Handler == [pc : Label, port : Port, field : Settable, val : Value,
            old : Value, code : Code]

\* Type invariant: what the handlers remember and write are values of fields,
\* never the absence of one.
TypeOK ==
  /\ config \in Store /\ saved \in Store
  /\ h \in [Proc -> Handler]
  /\ clean \in [Proc -> BOOLEAN]
  /\ acked \in [Port -> [Settable -> Value \cup {NoField}]]
  /\ doomed \subseteq Port

\* A key of a Redis hash exists as long as one of its fields does.
Exists(db, q) == \E f \in Field : db[q][f] # NoField

\* An absent field reads as the empty string from the map HGetAll returns.
Read(v) == IF v = NoField THEN "" ELSE v

FutureAsAsked(f, v) == v   \* mutant: an empty alias is written as it is

\* An empty alias stands for the name of the interface; a status is written as
\* it is asked for, the empty one too.
Future(f, v) == IF f = "alias" /\ v = "" THEN "name" ELSE v

Request(q, f, v) == [pc |-> "read", port |-> q, field |-> f, val |-> Future(f, v),
                     old |-> "", code |-> "none"]
NoRequest == [Request(CHOOSE q \in Port : TRUE, "alias", "") EXCEPT !.pc = "idle"]

\* Every port has lanes and an alias; the admin status may be left out.
Entry(a, s) == [f \in Field |-> IF f = "alias" THEN a
                                ELSE IF f = "lanes" THEN "lanes" ELSE s]
NoEntry == [f \in Field |-> NoField]
FirstStatus == {"up", NoField}

Init ==
  /\ \E a \in Alias, s \in FirstStatus :
       config = [q \in Port |-> IF q \in HwPort THEN Entry(a, s) ELSE NoEntry]
  /\ saved = config
  /\ h = [p \in Proc |-> NoRequest]
  /\ clean = [p \in Proc |-> FALSE]
  /\ acked = [q \in Port |-> [f \in Settable |-> NoField]]
  /\ doomed = {}

Goto(p, label) == h' = [h EXCEPT ![p].pc = label]

\* A handler that has returned keeps nothing.
Answered(code) == [NoRequest EXCEPT !.pc = "answered", !.code = code]
Answer(p, code) == h' = [h EXCEPT ![p] = Answered(code)]

\* HSet of v to the field of p's request, with its traces in the histories.
HSet(p, v) ==
  LET q == h[p].port  f == h[p].field IN
  /\ config' = [config EXCEPT ![q][f] = v]
  /\ clean' = [r \in Proc |-> \/ r = p
                              \/ clean[r] /\ (h[r].port # q \/ h[r].field # f)]
  /\ acked' = [acked EXCEPT ![q][f] = NoField]
  /\ UNCHANGED doomed

Unwritten == UNCHANGED <<config, clean, acked, doomed>>

-----------------------------------------------------------------------------
\* A request arrives.  A name that is neither Ethernet<n> nor eth<p>-<v>, or
\* does not convert, is refused before anything is read.
Call(p) ==
  /\ h[p].pc \in {"idle", "answered"}
  /\ \/ \E q \in Port, f \in Settable : \E v \in Wanted(f) :
          h' = [h EXCEPT ![p] = Request(q, f, v)]
     \/ Answer(p, "BAD_REQUEST")
  /\ clean' = [clean EXCEPT ![p] = FALSE]
  /\ UNCHANGED <<config, saved, acked, doomed>>

\* Mutant: an absent field is remembered as such.
ReadOldRaw(p) ==
  /\ h[p].pc = "read"
  /\ h' = [h EXCEPT ![p].pc = "write",
                    ![p].old = config[h[p].port][h[p].field]]
  /\ Unwritten /\ UNCHANGED saved

\* Mutant: the old value is taken for granted instead of read.
ReadOldAssumed(p) ==
  /\ h[p].pc = "read"
  /\ h' = [h EXCEPT ![p].pc = "write", ![p].old = "up"]
  /\ Unwritten /\ UNCHANGED saved

ReadOld(p) ==
  /\ h[p].pc = "read"
  /\ \/ h' = [h EXCEPT ![p].pc = "write",
                       ![p].old = Read(config[h[p].port][h[p].field])]
     \/ \E code \in {"BAD_REQUEST", "REDIS_KEY_CHECK_FAIL"} : Answer(p, code)
  /\ Unwritten /\ UNCHANGED saved

Write(p) ==
  /\ h[p].pc = "write"
  /\ \/ HSet(p, h[p].val) /\ Goto(p, "save")
     \/ HSet(p, h[p].val) /\ Answer(p, "REDIS_HSET_FAIL")
     \/ Unwritten /\ Answer(p, "REDIS_HSET_FAIL")
  /\ UNCHANGED saved

\* Mutant: a failed save is not noticed.
SaveUnchecked(p) ==
  /\ h[p].pc = "save"
  /\ saved' \in {config, saved}
  /\ Goto(p, "verify")
  /\ Unwritten

\* SaveConfig: the D-Bus call saves the whole of CONFIG_DB.
SaveConfig(p) ==
  /\ h[p].pc = "save"
  /\ \/ saved' = config /\ Goto(p, "verify")
     \/ saved' \in {config, saved} /\ Goto(p, "undoSave")
  /\ Unwritten

\* The rollback after a failed save.  SetInterfaceAdminStatus ignores its
\* error, SetInterfaceAliasName reports it.
UndoSave(p) ==
  /\ h[p].pc = "undoSave"
  /\ \/ HSet(p, h[p].old) /\ Answer(p, "BAD_REQUEST")
     \/ /\ HSet(p, h[p].old) \/ Unwritten
        /\ Answer(p, IF h[p].field = "alias" THEN "REDIS_HSET_FAIL"
                                             ELSE "BAD_REQUEST")
  /\ UNCHANGED saved

Verify(p) ==
  /\ h[p].pc = "verify"
  /\ \/ /\ Exists(config, h[p].port)
        /\ Goto(p, IF h[p].field = "alias" THEN "appl" ELSE "state")
     \/ ~Exists(config, h[p].port) /\ Answer(p, "NOT_FOUND")
     \/ Answer(p, "REDIS_KEY_CHECK_FAIL")
  /\ Unwritten /\ UNCHANGED saved

\* After the sleep: STATE_DB is read only to see that it can be.
ReadState(p) ==
  /\ h[p].pc = "state"
  /\ \/ Goto(p, "appl") \/ Goto(p, "undoRead") \/ Answer(p, "BAD_REQUEST")
  /\ Unwritten /\ UNCHANGED saved

\* A failed read of APPL_DB means default values to SetInterfaceAdminStatus
\* and a rollback to SetInterfaceAliasName.
ReadAppl(p) ==
  /\ h[p].pc = "appl"
  /\ \/ h[p].field = "admin_status" /\ Goto(p, "alias")
     \/ h[p].field = "alias" /\ Goto(p, "undoRead")
     \/ Answer(p, "BAD_REQUEST")
  /\ Unwritten /\ UNCHANGED saved

\* The success return, recorded when no other request wrote the field.
AnswerOK(p) ==
  /\ Answer(p, "OK")
  /\ acked' = IF clean[p]
              THEN [acked EXCEPT ![h[p].port][h[p].field] = h[p].val]
              ELSE acked
  /\ UNCHANGED <<config, clean, saved, doomed>>

FinishAlias(p) ==
  /\ h[p].pc = "appl" /\ h[p].field = "alias"
  /\ AnswerOK(p)

\* The alias is read back last; a port without one makes the request fail.
FinishAdmin(p) ==
  /\ h[p].pc = "alias"
  /\ \/ config[h[p].port]["alias"] # NoField /\ AnswerOK(p)
     \/ Answer(p, "REDIS_KEY_CHECK_FAIL") /\ Unwritten /\ UNCHANGED saved

UndoRead(p) ==
  /\ h[p].pc = "undoRead"
  /\ \/ HSet(p, h[p].old) /\ Answer(p, "REDIS_KEY_CHECK_FAIL")
     \/ (HSet(p, h[p].old) \/ Unwritten) /\ Answer(p, "REDIS_HSET_FAIL")
  /\ UNCHANGED saved

\* The SaveConfig request on its own; one that fails without a trace is no step.
SaveRequest == saved' = config /\ UNCHANGED <<config, h, clean, acked, doomed>>

\* Environment: the switch's own tools replace a whole PORT entry.
Configure(q, entry) ==
  /\ config' = [config EXCEPT ![q] = entry]
  /\ clean' = [p \in Proc |-> clean[p] /\ h[p].port # q]
  /\ acked' = [acked EXCEPT ![q] = [f \in Settable |-> NoField]]
  /\ UNCHANGED <<saved, h>>

\* The port is taken out of the configuration (breakout).
RemovePort(q) ==
  /\ Exists(config, q)
  /\ Configure(q, NoEntry)
  /\ UNCHANGED doomed

\* A request from its read of the old value to its answer, that found none.
FoundNothing(p) ==
  h[p].pc \notin {"idle", "read", "answered"} /\ h[p].old = ""

\* The port comes back, whatever requests on it are under way.
AddPort(q) ==
  /\ q \in HwPort /\ config[q]["lanes"] = NoField
  /\ \E a \in Alias, s \in FirstStatus : Configure(q, Entry(a, s))
  /\ doomed' = IF \E p \in Proc : /\ h[p].port = q /\ h[p].field = "alias"
                                  /\ FoundNothing(p)
               THEN doomed \cup {q} ELSE doomed

\* Environment: the switch reboots; CONFIG_DB is loaded from config_db.json
\* and the handlers are gone.
Reboot ==
  /\ config' = saved
  /\ h' = [p \in Proc |-> NoRequest]
  /\ clean' = [p \in Proc |-> FALSE]
  /\ UNCHANGED <<saved, acked, doomed>>

SetInterfaceAdminStatus(p) ==
  /\ h[p].field = "admin_status"
  /\ \/ ReadOld(p) \/ Write(p) \/ SaveConfig(p) \/ UndoSave(p) \/ Verify(p)
     \/ ReadState(p) \/ ReadAppl(p) \/ FinishAdmin(p) \/ UndoRead(p)

SetInterfaceAliasName(p) ==
  /\ h[p].field = "alias"
  /\ \/ ReadOld(p) \/ Write(p) \/ SaveConfig(p) \/ UndoSave(p) \/ Verify(p)
     \/ ReadAppl(p) \/ FinishAlias(p) \/ UndoRead(p)

Next ==
  \/ \E p \in Proc : \/ Call(p) \/ SetInterfaceAdminStatus(p)
                     \/ SetInterfaceAliasName(p)
  \/ \E q \in Port : RemovePort(q) \/ AddPort(q)
  \/ SaveRequest \/ Reboot

Spec == Init /\ [][Next]_vars

-----------------------------------------------------------------------------
\* A value the agent acknowledged, and that no later request or removal
\* touched, is in CONFIG_DB and in config_db.json: other requests on other
\* fields, failed ones included, and reboots do not lose it.
AckedIsDurable ==
  \A q \in Port, f \in Settable :
    acked[q][f] # NoField =>
      config[q][f] = acked[q][f] /\ saved[q][f] = acked[q][f]

\* However requests fail, race and roll back, a port the switch has keeps a
\* name in its alias field, without which every listing fails: what a request
\* writes is never empty, and what it puts back is only if it had found the port
\* gone and the port has come back since (sonic_agent.go:746, 761, 790).
KeepsAlias ==
  \A q \in Port \ doomed : config[q]["lanes"] # NoField
                             => config[q]["alias"] \notin {"", NoField}

\* Where a request is, as far as its client and the databases can tell.
Stage(r) ==
  IF r.pc = "answered" THEN IF r.code = "OK" THEN "ok" ELSE "refused"
  ELSE IF r.pc = "read" THEN "asked"
  ELSE IF r.pc = "write" THEN "noted"
  ELSE IF r.pc = "idle" THEN "idle" ELSE "set"

Stages == [p \in Proc |-> Stage(h[p])]
Requests == [p \in Proc |-> [port |-> h[p].port, field |-> h[p].field,
                             val |-> h[p].val, old |-> h[p].old]]

Promise == INSTANCE SetSpec WITH
             conf <- config, file <- saved, req <- Requests,
             st <- Stages, alone <- clean

\* SetInterfaceAdminStatus and SetInterfaceAliasName implement SetSpec: however
\* requests race and fail, each writes its own field only, first the value
\* asked for and then at most the one it had found, and answers OK only for a
\* value that is set and saved or that others have overwritten.
Implements == Promise!Spec

\* What the comments of the handlers say, and the code does not do.

\* "Verify the interface exists" (sonic_agent.go:394): a request brings no
\* port into being, every PORT key is one of the switch's ports.
NoPhantomPort ==
  \A q \in Port : Exists(config, q) => config[q]["lanes"] # NoField

\* "rollback admin status" (sonic_agent.go:415): once a request that could not
\* read the state back has restored CONFIG_DB, a reboot does not bring the
\* refused value back.
RollbackReachesFile ==
  [][\A p \in Proc :
       LET q == h[p].port  f == h[p].field IN
       /\ h[p].pc = "undoRead" /\ h'[p].code = "REDIS_KEY_CHECK_FAIL"
       /\ clean[p] /\ config'[q][f] # h[p].val
       => saved'[q][f] # h[p].val]_vars

\* "store the current admin status for rollback" (sonic_agent.go:374): what a
\* request puts back is the current value, so the rollback does not take back
\* a value that another request was told is set.
RollbackSparesAcked ==
  [][\A p \in Proc :
       LET q == h[p].port  f == h[p].field IN
       /\ h[p].pc \in {"undoSave", "undoRead"} /\ h'[p].pc = "answered"
       /\ acked[q][f] # NoField
       => config'[q][f] = config[q][f]]_vars

\* "rollback admin status" (sonic_agent.go:415): a rollback leaves no empty
\* admin status behind, which is neither up nor down, on a port that had none.
RollbackRestoresAbsence ==
  [][\A p \in Proc :
       /\ h[p].pc \in {"undoSave", "undoRead"} /\ h[p].field = "admin_status"
       /\ config' # config
       => config'[h[p].port]["admin_status"] # ""]_vars

\* "store the current s Alias name for rollback" (sonic_agent.go:741): what is
\* stored is still the current alias at the rollback, which therefore leaves no
\* port without one, also where the port was gone for a while.
RollbackKeepsAlias ==
  \A q \in Port : config[q]["lanes"] # NoField => config[q]["alias"] # ""

\* "If state info is not available, use default values" (sonic_agent.go:784):
\* setting an alias does not roll back because APPL_DB could not be read.
AliasUsesDefaults ==
  \A p \in Proc : h[p].field = "alias" => h[p].pc # "undoRead"
=============================================================================
