------------------------- MODULE AgentSetters_proofs -------------------------
(***************************************************************************)
(* Proofs about the agent's set requests, for any number of handlers,      *)
(* ports and aliases.                                                      *)
(***************************************************************************)
EXTENDS AgentSetters, TLAPS

\* A handler whose write nobody has overwritten finds its value in CONFIG_DB,
\* and in config_db.json once the save has succeeded.
Standing(p) ==
  clean[p] =>
    /\ h[p].pc \in {"save", "verify", "state", "appl", "alias"} =>
         config[h[p].port][h[p].field] = h[p].val
    /\ h[p].pc \in {"verify", "state", "appl", "alias"} =>
         saved[h[p].port][h[p].field] = h[p].val

WriteStands == \A p \in Proc : Standing(p)

IInv == TypeOK /\ WriteStands /\ AckedIsDurable

USE AgentSettersAssumption

\* The entries the switch's tools write are well-typed, with an alias.
LEMMA EntryType ==
  /\ NoEntry \in [Field -> Value \cup {NoField}] /\ NoEntry["lanes"] = NoField
  /\ \A a \in Alias, s \in FirstStatus :
       /\ Entry(a, s) \in [Field -> Value \cup {NoField}]
       /\ Entry(a, s)["alias"] = a
<1>1. \A a \in Alias, s \in FirstStatus : {a, "lanes", s} \subseteq Value \cup {NoField}
  BY Zenon DEF Value, FirstStatus
<1>2. {"lanes", "alias"} \subseteq Field
  BY Zenon DEF Field
<1>3. QED
  BY <1>1, <1>2, Zenon DEF NoEntry, Entry

\* A port that goes or comes back has its whole entry replaced.
LEMMA Configured ==
  ASSUME NEW q \in Port, RemovePort(q) \/ AddPort(q)
  PROVE  \E e \in [Field -> Value \cup {NoField}] : Configure(q, e)
  BY EntryType, Zenon DEF RemovePort, AddPort

\* The invariant holds on a switch that has just booted.
LEMMA InitIInv == Init => IInv
<1> SUFFICES ASSUME Init PROVE IInv
  OBVIOUS
<1>1. NoRequest \in Handler
  BY Zenon DEF NoRequest, Request, Future, Handler, Label, Settable, Value, Code
<1>2. config \in Store
  BY EntryType DEF Init, Store
<1>3. TypeOK
  BY <1>1, <1>2 DEF Init, TypeOK
<1>4. QED
  BY <1>3 DEF Init, IInv, WriteStands, Standing, AckedIsDurable

\* An HSet keeps the type of the stores and of the histories.
LEMMA HSetType ==
  ASSUME TypeOK, NEW p \in Proc, NEW v \in Value, HSet(p, v)
  PROVE  /\ config' \in Store
         /\ clean' \in [Proc -> BOOLEAN]
         /\ acked' \in [Port -> [Settable -> Value \cup {NoField}]]
         /\ doomed' \subseteq Port
  BY DEF TypeOK, HSet, Store, Handler, Settable, Field

\* An HSet touches one field: what other handlers rely on, or was
\* acknowledged for another field, stands.
LEMMA HSetFrame ==
  ASSUME TypeOK, NEW p \in Proc, NEW v \in Value, HSet(p, v)
  PROVE  /\ config'[h[p].port][h[p].field] = v
         /\ acked'[h[p].port][h[p].field] = NoField
         /\ \A q \in Port, f \in Settable :
              (q # h[p].port \/ f # h[p].field) =>
                config'[q][f] = config[q][f] /\ acked'[q][f] = acked[q][f]
         /\ \A r \in Proc : r # p /\ clean'[r] =>
              clean[r] /\ (h[r].port # h[p].port \/ h[r].field # h[p].field)
  BY DEF TypeOK, HSet, Store, Handler, Settable, Field

\* A handler without a request, and one that has returned.
LEMMA Returned ==
  /\ NoRequest \in Handler
  /\ NoRequest.pc = "idle" /\ NoRequest.val = "name"
  /\ \A c : /\ Answered(c).pc = "answered" /\ Answered(c).val = "name"
            /\ Answered(c).code = c /\ (c \in Code => Answered(c) \in Handler)
<1>1. /\ NoRequest \in Handler /\ NoRequest.pc = "idle" /\ NoRequest.val = "name"
  BY Zenon DEF NoRequest, Request, Future, Handler, Label, Settable, Value, Code
<1>2. "answered" \in Label
  BY Zenon DEF Label
<1>3. ASSUME NEW c
      PROVE  /\ Answered(c).pc = "answered" /\ Answered(c).val = "name"
             /\ Answered(c).code = c /\ (c \in Code => Answered(c) \in Handler)
  BY <1>1, <1>2 DEF Answered, Handler
<1>4. QED
  BY <1>1, <1>3

\* A handler goes on.
LEMMA GotoStep ==
  ASSUME TypeOK, NEW p \in Proc, NEW l, Goto(p, l)
  PROVE  /\ h'[p].pc = l /\ h'[p].val = h[p].val /\ h'[p].old = h[p].old
         /\ h'[p].port = h[p].port /\ h'[p].field = h[p].field
         /\ \A r \in Proc : r # p => h'[r] = h[r]
         /\ l \in Label => h' \in [Proc -> Handler]
  BY SMTT(30) DEF TypeOK, Goto, Handler

\* A handler returns.
LEMMA AnswerStep ==
  ASSUME TypeOK, NEW p \in Proc, NEW c, Answer(p, c)
  PROVE  /\ h'[p].pc = "answered" /\ h'[p].val = "name" /\ h'[p].code = c
         /\ \A r \in Proc : r # p => h'[r] = h[r]
         /\ c \in Code => h' \in [Proc -> Handler]
  BY Returned DEF TypeOK, Answer

\* A call starts a request of its process, or ends it at once.
LEMMA CallStep ==
  ASSUME TypeOK, NEW p \in Proc, Call(p)
  PROVE  /\ h'[p].pc \in {"read", "answered"}
         /\ h'[p].field = "alias" => h'[p].val # ""
         /\ h'[p].pc = "answered" => h'[p].code = "BAD_REQUEST"
         /\ \A r \in Proc : r # p => h'[r] = h[r]
         /\ h' \in [Proc -> Handler]
<1>1. CASE Answer(p, "BAD_REQUEST")
  <2>1. "BAD_REQUEST" \in Code
    BY Zenon DEF Code
  <2>2. QED
    BY <1>1, <2>1, AnswerStep
<1>2. ASSUME NEW q \in Port, NEW f \in Settable, NEW v \in Wanted(f),
             h' = [h EXCEPT ![p] = Request(q, f, v)]
      PROVE  /\ h'[p].pc = "read" /\ (h'[p].field = "alias" => h'[p].val # "")
             /\ \A r \in Proc : r # p => h'[r] = h[r]
             /\ h' \in [Proc -> Handler]
  <2>1. v \in Value
    BY Zenon DEF Wanted, Value
  <2>2. Request(q, f, v) \in Handler
    BY <2>1, Zenon DEF Request, Future, Handler, Label, Value, Code
  <2>3. /\ Request(q, f, v).pc = "read"
        /\ Request(q, f, v).field = "alias" => Request(q, f, v).val # ""
    BY DEF Request, Future
  <2>4. QED
    BY <1>2, <2>2, <2>3 DEF TypeOK
<1>3. QED
  BY <1>1, <1>2 DEF Call

\* Every step of a handler and of the switch preserves the types.
LEMMA NextType == IInv /\ [Next]_vars => TypeOK'
<1> SUFFICES ASSUME IInv, [Next]_vars PROVE TypeOK'
  OBVIOUS
<1> USE DEF IInv
<1>0. TypeOK
  OBVIOUS
<1>h. ASSUME NEW p \in Proc PROVE h[p] \in Handler /\ h[p].val \in Value
                                 /\ h[p].old \in Value
  BY DEF TypeOK, Handler
<1>r. NoRequest \in Handler
  BY Returned
<1>g. ASSUME NEW p \in Proc, NEW l \in Label, Goto(p, l)
      PROVE  h' \in [Proc -> Handler]
  BY <1>g, GotoStep
<1>a. ASSUME NEW p \in Proc, NEW c \in Code, Answer(p, c)
      PROVE  h' \in [Proc -> Handler]
  BY <1>a, AnswerStep
<1>1. ASSUME NEW p \in Proc, Call(p) PROVE TypeOK'
  BY <1>1, CallStep DEF Call, TypeOK
<1>2. ASSUME NEW p \in Proc, ReadOld(p) PROVE TypeOK'
  <2>1. h[p].port \in Port /\ h[p].field \in Field
    BY <1>h DEF Handler, Settable, Field
  <2>2. config[h[p].port][h[p].field] \in Value \cup {NoField}
    BY <2>1 DEF TypeOK, Store
  <2>3. Read(config[h[p].port][h[p].field]) \in Value
    BY <2>2, Zenon DEF Read, Value
  <2>4. ASSUME NEW o \in Value, h' = [h EXCEPT ![p].pc = "write", ![p].old = o]
        PROVE  h' \in [Proc -> Handler]
    <3>1. "write" \in Label
      BY DEF Label
    <3>2. [h[p] EXCEPT !.pc = "write", !.old = o] \in Handler
      BY <1>h, <2>4, <3>1 DEF Handler
    <3>3. QED
      BY <2>4, <3>2 DEF TypeOK
  <2>5. h' \in [Proc -> Handler]
    BY <1>2, <1>a, <2>3, <2>4 DEF ReadOld, Code
  <2>6. QED
    BY <1>2, <2>5 DEF ReadOld, TypeOK, Unwritten
<1>3. ASSUME NEW p \in Proc, Write(p) PROVE TypeOK'
  <2>1. h' \in [Proc -> Handler]
    BY <1>3, <1>g, <1>a DEF Write, Label, Code
  <2>2. QED
    BY <1>3, <1>h, <2>1, HSetType DEF Write, Unwritten, TypeOK
<1>4. ASSUME NEW p \in Proc, SaveConfig(p) PROVE TypeOK'
  <2>1. h' \in [Proc -> Handler]
    BY <1>4, <1>g DEF SaveConfig, Label
  <2>2. QED
    BY <1>4, <2>1 DEF SaveConfig, Unwritten, TypeOK
<1>5. ASSUME NEW p \in Proc, UndoSave(p) PROVE TypeOK'
  <2>1. h' \in [Proc -> Handler]
    BY <1>5, <1>a DEF UndoSave, Code
  <2>2. QED
    BY <1>5, <1>h, <2>1, HSetType DEF UndoSave, Unwritten, TypeOK
<1>6. ASSUME NEW p \in Proc, Verify(p) PROVE TypeOK'
  <2>1. h' \in [Proc -> Handler]
    BY <1>6, <1>g, <1>a DEF Verify, Label, Code
  <2>2. QED
    BY <1>6, <2>1 DEF Verify, Unwritten, TypeOK
<1>7. ASSUME NEW p \in Proc, ReadState(p) \/ ReadAppl(p) PROVE TypeOK'
  <2>1. h' \in [Proc -> Handler]
    BY <1>7, <1>g, <1>a DEF ReadState, ReadAppl, Label, Code
  <2>2. QED
    BY <1>7, <2>1 DEF ReadState, ReadAppl, Unwritten, TypeOK
<1>8. ASSUME NEW p \in Proc, AnswerOK(p) PROVE TypeOK'
  <2>1. h' \in [Proc -> Handler]
    BY <1>8, <1>a DEF AnswerOK, Code
  <2>2. acked' \in [Port -> [Settable -> Value \cup {NoField}]]
    BY <1>8, <1>h DEF AnswerOK, TypeOK, Handler
  <2>3. QED
    BY <1>8, <2>1, <2>2 DEF AnswerOK, TypeOK
<1>9. ASSUME NEW p \in Proc, FinishAdmin(p) PROVE TypeOK'
  <2>1. CASE AnswerOK(p)
    BY <2>1, <1>8
  <2>2. CASE Answer(p, "REDIS_KEY_CHECK_FAIL") /\ Unwritten /\ UNCHANGED saved
    BY <2>2, <1>a DEF Unwritten, TypeOK, Code
  <2>3. QED
    BY <1>9, <2>1, <2>2 DEF FinishAdmin
<1>10. ASSUME NEW p \in Proc, UndoRead(p) PROVE TypeOK'
  <2>1. h' \in [Proc -> Handler]
    BY <1>10, <1>a DEF UndoRead, Code
  <2>2. QED
    BY <1>10, <1>h, <2>1, HSetType DEF UndoRead, Unwritten, TypeOK
<1>11. ASSUME NEW q \in Port, RemovePort(q) \/ AddPort(q) PROVE TypeOK'
  <2>1. PICK e \in [Field -> Value \cup {NoField}] : Configure(q, e)
    BY <1>11, Configured
  <2>2. config' \in Store
    BY <2>1 DEF Configure, TypeOK, Store
  <2>3. doomed' \subseteq Port
    BY <1>11 DEF RemovePort, AddPort, TypeOK
  <2>4. QED
    BY <2>1, <2>2, <2>3 DEF Configure, TypeOK
<1>s. CASE SaveRequest
  BY <1>s DEF SaveRequest, TypeOK
<1>12. CASE Reboot
  BY <1>12, <1>r DEF Reboot, TypeOK
<1>13. CASE UNCHANGED vars
  BY <1>13 DEF vars, TypeOK
<1>14. QED
  BY <1>1, <1>2, <1>3, <1>4, <1>5, <1>6, <1>7, <1>8, <1>9, <1>10, <1>11,
     <1>s, <1>12, <1>13
  DEF Next, SetInterfaceAdminStatus, SetInterfaceAliasName, FinishAlias

\* A handler that only moves on, within the labels that the invariant treats
\* alike, or to a label about which it says nothing, keeps it.
LEMMA QuietStep ==
  ASSUME IInv, TypeOK', NEW p \in Proc, Unwritten, UNCHANGED saved,
         \A r \in Proc : r # p => h'[r] = h[r],
         h'[p].pc \in {"read", "write", "undoSave", "undoRead", "answered", "idle"}
  PROVE  WriteStands' /\ AckedIsDurable'
  BY DEF IInv, WriteStands, Standing, AckedIsDurable, Unwritten, TypeOK

\* An HSet by p, after which p is at a label that only relies on the write.
LEMMA WriteStep ==
  ASSUME IInv, TypeOK', NEW p \in Proc, NEW v \in Value, HSet(p, v),
         UNCHANGED saved,
         \A r \in Proc : r # p => h'[r] = h[r],
         \/ h'[p].pc = "answered"
         \/ /\ h'[p].pc = "save" /\ v = h'[p].val
            /\ h'[p].port = h[p].port /\ h'[p].field = h[p].field
  PROVE  WriteStands' /\ AckedIsDurable'
<1> USE HSetFrame DEF IInv
<1>1. \A r \in Proc : h[r].port \in Port /\ h[r].field \in Settable
  BY DEF TypeOK, Handler
<1>2. WriteStands'
  <2> SUFFICES ASSUME NEW r \in Proc PROVE Standing(r)'
    BY DEF WriteStands
  <2>1. CASE r = p
    BY <2>1 DEF Standing
  <2>2. CASE r # p
    BY <2>2, <1>1 DEF WriteStands, Standing
  <2>3. QED
    BY <2>1, <2>2
<1>3. AckedIsDurable'
  BY DEF AckedIsDurable
<1>4. QED
  BY <1>2, <1>3

\* Every step of a handler and of the switch preserves the invariant.
LEMMA NextIInv == IInv /\ [Next]_vars => IInv'
<1> SUFFICES ASSUME IInv, [Next]_vars PROVE IInv'
  OBVIOUS
<1>0. TypeOK /\ TypeOK'
  BY NextType DEF IInv
<1> SUFFICES WriteStands' /\ AckedIsDurable'
  BY <1>0 DEF IInv
<1>h. ASSUME NEW p \in Proc
      PROVE  /\ h[p].val \in Value /\ h[p].old \in Value
             /\ h[p].port \in Port /\ h[p].field \in Settable
  BY <1>0 DEF TypeOK, Handler
<1>g. ASSUME NEW p \in Proc, NEW l, Goto(p, l)
      PROVE  /\ h'[p].pc = l /\ h'[p].val = h[p].val
             /\ h'[p].port = h[p].port /\ h'[p].field = h[p].field
             /\ \A r \in Proc : r # p => h'[r] = h[r]
  BY <1>0, <1>g, GotoStep
<1>a. ASSUME NEW p \in Proc, NEW c, Answer(p, c)
      PROVE  /\ h'[p].pc = "answered"
             /\ \A r \in Proc : r # p => h'[r] = h[r]
  BY <1>0, <1>a, AnswerStep
<1>1. ASSUME NEW p \in Proc, Call(p) PROVE WriteStands' /\ AckedIsDurable'
  <2>1. /\ UNCHANGED <<config, saved, acked>> /\ clean' = [clean EXCEPT ![p] = FALSE]
        /\ \A r \in Proc : r # p => h'[r] = h[r]
    BY <1>0, <1>1, CallStep DEF Call
  <2>2. QED
    BY <1>0, <2>1 DEF IInv, WriteStands, Standing, AckedIsDurable, TypeOK
<1>2. ASSUME NEW p \in Proc, ReadOld(p) PROVE WriteStands' /\ AckedIsDurable'
  <2>1. /\ h'[p].pc \in {"write", "answered"}
        /\ \A r \in Proc : r # p => h'[r] = h[r]
    BY <1>0, <1>2, <1>a DEF ReadOld, TypeOK, Handler
  <2>2. QED
    BY <1>0, <1>2, <2>1, QuietStep DEF ReadOld
<1>3. ASSUME NEW p \in Proc, Write(p) PROVE WriteStands' /\ AckedIsDurable'
  <2>1. CASE HSet(p, h[p].val) /\ Goto(p, "save")
    BY <1>0, <1>3, <1>h, <1>g, <2>1, WriteStep DEF Write
  <2>2. CASE HSet(p, h[p].val) /\ Answer(p, "REDIS_HSET_FAIL")
    BY <1>0, <1>3, <1>h, <1>a, <2>2, WriteStep DEF Write
  <2>3. CASE Unwritten /\ Answer(p, "REDIS_HSET_FAIL")
    BY <1>0, <1>3, <1>a, <2>3, QuietStep DEF Write
  <2>4. QED
    BY <1>3, <2>1, <2>2, <2>3 DEF Write
<1>4. ASSUME NEW p \in Proc, SaveConfig(p) PROVE WriteStands' /\ AckedIsDurable'
  <2>1. saved' \in {config, saved} /\ Unwritten
    BY <1>4 DEF SaveConfig
  <2>2. AckedIsDurable'
    BY <2>1 DEF IInv, AckedIsDurable, Unwritten
  <2>3. ASSUME NEW r \in Proc PROVE Standing(r)'
    <3>1. CASE r = p
      BY <1>0, <1>4, <1>g, <2>1, <3>1
      DEF SaveConfig, IInv, WriteStands, Standing, Unwritten
    <3>2. CASE r # p
      BY <1>0, <1>4, <1>g, <2>1, <3>2
      DEF SaveConfig, IInv, WriteStands, Standing, Unwritten
    <3>3. QED
      BY <3>1, <3>2
  <2>4. QED
    BY <2>2, <2>3 DEF WriteStands
<1>5. ASSUME NEW p \in Proc, UndoSave(p) PROVE WriteStands' /\ AckedIsDurable'
  <2>1. /\ h'[p].pc = "answered"
        /\ \A r \in Proc : r # p => h'[r] = h[r]
    BY <1>5, <1>a DEF UndoSave
  <2>2. CASE HSet(p, h[p].old)
    BY <1>0, <1>5, <1>h, <2>1, <2>2, WriteStep DEF UndoSave
  <2>3. CASE Unwritten
    BY <1>0, <1>5, <2>1, <2>3, QuietStep DEF UndoSave
  <2>4. QED
    BY <1>5, <2>2, <2>3 DEF UndoSave
<1>6. ASSUME NEW p \in Proc, Verify(p) \/ ReadState(p) \/ ReadAppl(p)
      PROVE  WriteStands' /\ AckedIsDurable'
  <2>1. Unwritten /\ UNCHANGED saved
    BY <1>6 DEF Verify, ReadState, ReadAppl
  <2>2. AckedIsDurable'
    BY <2>1 DEF IInv, AckedIsDurable, Unwritten
  <2>3. \/ /\ h[p].pc \in {"verify", "state", "appl"}
           /\ h'[p].val = h[p].val
           /\ h'[p].port = h[p].port /\ h'[p].field = h[p].field
        \/ h'[p].pc = "answered"
    BY <1>6, <1>a, <1>g DEF Verify, ReadState, ReadAppl
  <2>4. \A r \in Proc : r # p => h'[r] = h[r]
    BY <1>6, <1>a, <1>g DEF Verify, ReadState, ReadAppl
  <2>5. WriteStands'
    BY <2>1, <2>3, <2>4 DEF IInv, WriteStands, Standing, Unwritten
  <2>6. QED
    BY <2>2, <2>5
<1>7. ASSUME NEW p \in Proc, AnswerOK(p), h[p].pc \in {"appl", "alias"}
      PROVE  WriteStands' /\ AckedIsDurable'
  <2>1. /\ h'[p].pc = "answered"
        /\ \A r \in Proc : r # p => h'[r] = h[r]
        /\ UNCHANGED <<config, saved, clean>>
    BY <1>7, <1>a DEF AnswerOK
  <2>2. WriteStands'
    BY <2>1 DEF IInv, WriteStands, Standing
  <2>3. CASE ~clean[p]
    BY <1>7, <2>1, <2>2, <2>3 DEF IInv, AnswerOK, AckedIsDurable
  <2>4. CASE clean[p]
    <3>1. /\ config[h[p].port][h[p].field] = h[p].val
          /\ saved[h[p].port][h[p].field] = h[p].val
      BY <1>7, <2>4 DEF IInv, WriteStands, Standing
    <3>2. AckedIsDurable'
      BY <1>0, <1>7, <1>h, <2>1, <2>4, <3>1
      DEF IInv, AnswerOK, AckedIsDurable, TypeOK
    <3>3. QED
      BY <2>2, <3>2
  <2>5. QED
    BY <1>0, <2>3, <2>4 DEF TypeOK
<1>8. ASSUME NEW p \in Proc, FinishAlias(p) \/ FinishAdmin(p)
      PROVE  WriteStands' /\ AckedIsDurable'
  <2>1. CASE AnswerOK(p)
    BY <1>7, <1>8, <2>1 DEF FinishAlias, FinishAdmin
  <2>2. CASE Answer(p, "REDIS_KEY_CHECK_FAIL") /\ Unwritten /\ UNCHANGED saved
    BY <1>0, <1>a, <2>2, QuietStep
  <2>3. QED
    BY <1>8, <2>1, <2>2 DEF FinishAlias, FinishAdmin
<1>9. ASSUME NEW p \in Proc, UndoRead(p) PROVE WriteStands' /\ AckedIsDurable'
  <2>1. /\ h'[p].pc = "answered"
        /\ \A r \in Proc : r # p => h'[r] = h[r]
    BY <1>9, <1>a DEF UndoRead
  <2>2. CASE HSet(p, h[p].old)
    BY <1>0, <1>9, <1>h, <2>1, <2>2, WriteStep DEF UndoRead
  <2>3. CASE Unwritten
    BY <1>0, <1>9, <2>1, <2>3, QuietStep DEF UndoRead
  <2>4. QED
    BY <1>9, <2>2, <2>3 DEF UndoRead
<1>10. ASSUME NEW q \in Port, RemovePort(q) \/ AddPort(q)
       PROVE  WriteStands' /\ AckedIsDurable'
  <2>0. PICK e \in [Field -> Value \cup {NoField}] : Configure(q, e)
    BY <1>10, Configured
  <2>1. WriteStands'
    BY <1>0, <2>0, <1>h, Zenon DEF Configure, IInv, WriteStands, Standing, TypeOK, Store
  <2>2. AckedIsDurable'
    BY <1>0, <2>0 DEF Configure, IInv, AckedIsDurable, TypeOK, Store
  <2>3. QED
    BY <2>1, <2>2
<1>s. CASE SaveRequest
  BY <1>s DEF SaveRequest, IInv, WriteStands, Standing, AckedIsDurable
<1>11. CASE Reboot
  BY <1>0, <1>11 DEF Reboot, IInv, WriteStands, Standing, AckedIsDurable
<1>12. CASE UNCHANGED vars
  BY <1>12 DEF vars, IInv, WriteStands, Standing, AckedIsDurable
<1>13. QED
  BY <1>1, <1>2, <1>3, <1>4, <1>5, <1>6, <1>8, <1>9, <1>10, <1>s, <1>11, <1>12
  DEF Next, SetInterfaceAdminStatus, SetInterfaceAliasName

\* The inductive invariant of the set requests.
THEOREM SettersInvariant == Spec => []IInv
<1>1. QED
  BY InitIInv, NextIInv, PTL DEF Spec

\* The variables of the agent's set requests keep their types.
THEOREM SettersTypeOK == Spec => []TypeOK
<1>1. IInv => TypeOK
  BY DEF IInv
<1>2. QED
  BY <1>1, SettersInvariant, PTL

\* A value that SetInterfaceAdminStatus or SetInterfaceAliasName acknowledged
\* stays in CONFIG_DB and in config_db.json until that same field is written
\* again or its port removed, whatever fails and whenever the switch reboots.
THEOREM AcknowledgedValuesAreDurable == Spec => []AckedIsDurable
<1>1. IInv => AckedIsDurable
  BY DEF IInv
<1>2. QED
  BY <1>1, SettersInvariant, PTL

-----------------------------------------------------------------------------
\* The alias.  What a handler would put back is a name as long as the port is
\* there, unless the port was gone when the handler read and has come back.

Kept(db, q) == db[q]["lanes"] # NoField => db[q]["alias"] \notin {"", NoField}

\* From the read of the old value on.
HasOld == {"write", "save", "undoSave", "verify", "state", "appl", "alias", "undoRead"}

UndoIsValue(p) ==
  /\ h[p].field = "alias" /\ h[p].port \notin doomed
  /\ config[h[p].port]["lanes"] # NoField /\ h[p].pc \in HasOld
  => h[p].old # ""

AsksForName(p) == h[p].field = "alias" => h[p].val # ""

KInv ==
  /\ \A q \in Port \ doomed : Kept(config, q) /\ Kept(saved, q)
  /\ \A p \in Proc : AsksForName(p) /\ UndoIsValue(p)

\* A step that leaves CONFIG_DB alone, moves at most one handler on, and
\* leaves what it remembers alone or makes it irrelevant.
LEMMA KeptQuiet ==
  ASSUME TypeOK, KInv, NEW p \in Proc, UNCHANGED <<config, doomed>>,
         saved' \in {config, saved},
         \A r \in Proc : r # p => h'[r] = h[r],
         AsksForName(p)',
         \/ h'[p].pc \in {"idle", "read", "answered"}
         \/ /\ h'[p].port = h[p].port /\ h'[p].field = h[p].field
            /\ h'[p].old = h[p].old /\ h[p].pc \in HasOld
  PROVE  KInv'
<1>1. \A r \in Proc : UndoIsValue(r)'
  BY Zenon DEF KInv, UndoIsValue, HasOld
<1>2. \A r \in Proc : AsksForName(r)'
  BY Zenon DEF KInv, AsksForName
<1>3. QED
  BY <1>1, <1>2, Zenon DEF KInv, Kept

\* A write of a value, or of anything to another field, keeps the field.
LEMMA KeptWrite ==
  ASSUME TypeOK, KInv, NEW p \in Proc, NEW v \in Value, HSet(p, v), saved' = saved,
         \A r \in Proc : r # p => h'[r] = h[r],
         AsksForName(p)',
         \/ h'[p].pc = "answered"
         \/ /\ h'[p].port = h[p].port /\ h'[p].field = h[p].field
            /\ h'[p].old = h[p].old /\ h[p].pc = "write",
         /\ h[p].field = "alias" /\ h[p].port \notin doomed
         /\ config[h[p].port]["lanes"] # NoField
         => v # ""
  PROVE  KInv'
<1>1. /\ h[p].port \in Port /\ h[p].field \in Settable /\ v # NoField
      /\ \A r \in Proc : h[r].port \in Port
  BY Zenon DEF TypeOK, Handler
<1>2. \A q \in Port : /\ config'[q]["lanes"] = config[q]["lanes"]
                      /\ \/ config'[q]["alias"] = config[q]["alias"]
                         \/ q = h[p].port /\ h[p].field = "alias"
                            /\ config'[q]["alias"] = v
  <2> SUFFICES ASSUME NEW q \in Port
               PROVE  /\ config'[q]["lanes"] = config[q]["lanes"]
                      /\ \/ config'[q]["alias"] = config[q]["alias"]
                         \/ q = h[p].port /\ h[p].field = "alias"
                            /\ config'[q]["alias"] = v
    BY Zenon
  <2>1. config[q] \in [Field -> Value \cup {NoField}] /\ {"lanes", "alias"} \subseteq Field
        /\ h[p].field \in Field
        /\ h[p].field # "lanes"
    BY <1>1, Zenon DEF TypeOK, Store, Settable, Field
  <2>2. config' = [config EXCEPT ![h[p].port][h[p].field] = v]
    BY Zenon DEF HSet
  <2>3. config'[q] = IF q = h[p].port THEN [config[q] EXCEPT ![h[p].field] = v]
                     ELSE config[q]
    BY <1>1, <2>2, Zenon DEF TypeOK, Store
  <2>4. QED
    BY <2>1, <2>3, Zenon
<1>d. doomed' = doomed
  BY Zenon DEF HSet
<1>3. \A q \in Port \ doomed' : Kept(config', q)
  BY <1>1, <1>2, <1>d, ZenonT(40) DEF KInv, Kept
<1>4. ASSUME NEW r \in Proc PROVE UndoIsValue(r)'
  <2>1. config'[h[r].port]["lanes"] = config[h[r].port]["lanes"] /\ UndoIsValue(r)
    BY <1>1, <1>2, Zenon DEF KInv
  <2>2. CASE h'[r] = h[r]
    BY <1>d, <2>1, <2>2, Zenon DEF UndoIsValue
  <2>3. CASE r = p
    BY <1>d, <2>1, <2>3, Zenon DEF UndoIsValue, HasOld
  <2>4. QED
    BY <2>2, <2>3, Zenon
<1>5. \A r \in Proc : AsksForName(r)'
  BY Zenon DEF KInv, AsksForName
<1>6. QED
  BY <1>d, <1>3, <1>4, <1>5, Zenon DEF KInv, Kept

\* Every step of a handler and of the switch keeps the field.
LEMMA NextKInv == IInv /\ KInv /\ [Next]_vars => KInv'
<1> SUFFICES ASSUME IInv, KInv, [Next]_vars PROVE KInv'
  OBVIOUS
<1>0. TypeOK
  BY DEF IInv
<1>h. ASSUME NEW p \in Proc
      PROVE  /\ h[p].val \in Value /\ h[p].old \in Value /\ AsksForName(p)
             /\ h[p].port \in Port /\ h[p].field \in Settable
  BY <1>0, Zenon DEF TypeOK, Handler, KInv
<1>g. ASSUME NEW p \in Proc, NEW l, Goto(p, l)
      PROVE  /\ h'[p].val = h[p].val /\ h'[p].old = h[p].old /\ h'[p].pc = l
             /\ h'[p].port = h[p].port /\ h'[p].field = h[p].field
             /\ \A r \in Proc : r # p => h'[r] = h[r]
             /\ AsksForName(p)'
  <2>1. /\ h'[p].val = h[p].val /\ h'[p].old = h[p].old /\ h'[p].pc = l
        /\ h'[p].port = h[p].port /\ h'[p].field = h[p].field
        /\ \A r \in Proc : r # p => h'[r] = h[r]
    BY <1>0, <1>g, GotoStep
  <2>2. QED
    BY <1>h, <2>1, Zenon DEF AsksForName
<1>a. ASSUME NEW p \in Proc, NEW c, Answer(p, c)
      PROVE  /\ h'[p].pc = "answered" /\ AsksForName(p)'
             /\ \A r \in Proc : r # p => h'[r] = h[r]
  BY <1>0, <1>a, AnswerStep DEF AsksForName
<1>1. ASSUME NEW p \in Proc, Call(p) PROVE KInv'
  <2>2. /\ h'[p].pc \in {"read", "answered"} /\ AsksForName(p)'
        /\ \A r \in Proc : r # p => h'[r] = h[r]
    BY <1>0, <1>1, CallStep DEF AsksForName
  <2>4. QED
    BY <1>0, <1>1, <2>2, KeptQuiet, Zenon DEF Call
<1>2. ASSUME NEW p \in Proc, ReadOld(p) PROVE KInv'
  <2>1. CASE h' = [h EXCEPT ![p].pc = "write",
                            ![p].old = Read(config[h[p].port][h[p].field])]
    <3>1. /\ h'[p].port = h[p].port /\ h'[p].field = h[p].field /\ h'[p].val = h[p].val
          /\ h'[p].old = Read(config[h[p].port][h[p].field])
          /\ \A r \in Proc : r # p => h'[r] = h[r]
      BY <1>0, <2>1 DEF TypeOK, Handler
    <3>2. UNCHANGED <<config, saved, doomed>>
      BY <1>2 DEF ReadOld, Unwritten
    <3>3. UndoIsValue(p)'
      BY <1>h, <3>1, <3>2, ZenonT(40) DEF UndoIsValue, KInv, Kept, Read
    <3>4. \A r \in Proc : r # p => UndoIsValue(r)'
      BY <3>1, <3>2, Zenon DEF UndoIsValue, KInv
    <3>5. \A r \in Proc : AsksForName(r)'
      BY <1>h, <3>1, Zenon DEF AsksForName
    <3>6. QED
      BY <3>2, <3>3, <3>4, <3>5, Zenon DEF KInv, Kept
  <2>2. ASSUME NEW c, Answer(p, c) PROVE KInv'
    BY <1>0, <1>2, <1>a, <1>h, <2>2, KeptQuiet, Zenon DEF ReadOld, Unwritten
  <2>3. QED
    BY <1>2, <2>1, <2>2 DEF ReadOld
<1>3. ASSUME NEW p \in Proc, Write(p) PROVE KInv'
  <2>1. CASE HSet(p, h[p].val) /\ Goto(p, "save")
    BY <1>0, <1>3, <1>h, <1>g, <2>1, KeptWrite, ZenonT(40) DEF Write, AsksForName
  <2>2. CASE HSet(p, h[p].val) /\ Answer(p, "REDIS_HSET_FAIL")
    BY <1>0, <1>3, <1>h, <1>a, <2>2, KeptWrite, Zenon DEF Write, AsksForName
  <2>3. CASE Unwritten /\ Answer(p, "REDIS_HSET_FAIL")
    BY <1>0, <1>3, <1>h, <1>a, <2>3, KeptQuiet, Zenon DEF Write, Unwritten
  <2>4. QED
    BY <1>3, <2>1, <2>2, <2>3 DEF Write
<1>4. ASSUME NEW p \in Proc, SaveConfig(p) PROVE KInv'
  BY <1>0, <1>4, <1>h, <1>g, KeptQuiet, ZenonT(40) DEF SaveConfig, Unwritten, HasOld
<1>5. ASSUME NEW p \in Proc, UndoSave(p) \/ UndoRead(p) PROVE KInv'
  <2>1. h'[p].pc = "answered" /\ AsksForName(p)' /\ saved' = saved
        /\ \A r \in Proc : r # p => h'[r] = h[r]
    BY <1>5, <1>a, <1>h, Zenon DEF UndoSave, UndoRead
  <2>2. CASE HSet(p, h[p].old)
    <3>1. /\ h[p].field = "alias" /\ h[p].port \notin doomed
          /\ config[h[p].port]["lanes"] # NoField
          => h[p].old # ""
      BY <1>5, Zenon DEF KInv, UndoIsValue, UndoSave, UndoRead, HasOld
    <3>2. QED
      BY <1>0, <1>h, <2>1, <2>2, <3>1, KeptWrite, Zenon
  <2>3. CASE Unwritten
    BY <1>0, <2>1, <2>3, KeptQuiet, Zenon DEF Unwritten
  <2>4. QED
    BY <1>5, <2>2, <2>3 DEF UndoSave, UndoRead
<1>6. ASSUME NEW p \in Proc, Verify(p) \/ ReadAppl(p) \/ ReadState(p)
      PROVE  KInv'
  <2>1. UNCHANGED <<config, saved, doomed>> /\ AsksForName(p)'
        /\ \A r \in Proc : r # p => h'[r] = h[r]
    BY <1>6, <1>a, <1>g, <1>h, Zenon DEF Verify, ReadAppl, ReadState, Unwritten
  <2>2. \/ h'[p].pc = "answered"
        \/ /\ h'[p].port = h[p].port /\ h'[p].field = h[p].field
           /\ h'[p].old = h[p].old /\ h[p].pc \in HasOld
    BY <1>6, <1>a, <1>g DEF Verify, ReadAppl, ReadState, HasOld
  <2>3. QED
    BY <1>0, <2>1, <2>2, KeptQuiet, Zenon
<1>7. ASSUME NEW p \in Proc, FinishAlias(p) \/ FinishAdmin(p) PROVE KInv'
  <2>1. UNCHANGED <<config, saved, doomed>> /\ AsksForName(p)' /\ h'[p].pc = "answered"
        /\ \A r \in Proc : r # p => h'[r] = h[r]
    BY <1>7, <1>a, <1>h, Zenon DEF FinishAlias, FinishAdmin, AnswerOK, Unwritten
  <2>2. QED
    BY <1>0, <2>1, KeptQuiet, Zenon
<1>8. ASSUME NEW q \in Port, RemovePort(q) PROVE KInv'
  <2>1. /\ UNCHANGED <<saved, h, doomed>>
        /\ \A r \in Port : \/ config'[r]["lanes"] = NoField
                           \/ config'[r] = config[r]
    BY <1>0, <1>8, EntryType DEF RemovePort, Configure, TypeOK, Store
  <2>2. \A r \in Proc : AsksForName(r)' /\ UndoIsValue(r)'
    BY <1>h, <2>1, Zenon DEF KInv, UndoIsValue, AsksForName
  <2>3. QED
    BY <2>1, <2>2, Zenon DEF KInv, Kept
<1>b. ASSUME NEW q \in Port, AddPort(q) PROVE KInv'
  <2>1. PICK a \in Alias, s \in FirstStatus : Configure(q, Entry(a, s))
    BY <1>b DEF AddPort
  <2>2. /\ UNCHANGED <<saved, h>> /\ config'[q]["alias"] = a
        /\ \A r \in Port : r # q => config'[r] = config[r]
    BY <1>0, <2>1, EntryType DEF Configure, TypeOK, Store
  <2>3. a \notin {"", NoField}
    BY AliasAssumption, Zenon DEF Value
  <2>4. doomed \subseteq doomed'
    BY <1>b, Zenon DEF AddPort
  <2>5. ASSUME NEW p \in Proc, h[p].field = "alias", h[p].port = q, h[p].pc \in HasOld,
               h[p].old = ""
        PROVE  q \in doomed'
    <3>1. FoundNothing(p)
      BY <2>5 DEF FoundNothing, HasOld
    <3>2. QED
      BY <1>b, <2>5, <3>1, Zenon DEF AddPort
  <2>6. \A p \in Proc : AsksForName(p)' /\ UndoIsValue(p)'
    BY <1>h, <2>2, <2>4, <2>5, ZenonT(40) DEF KInv, UndoIsValue, AsksForName
  <2>7. \A r \in Port \ doomed' : Kept(config', r) /\ Kept(saved', r)
    BY <2>2, <2>3, <2>4, ZenonT(40) DEF KInv, Kept
  <2>8. QED
    BY <2>6, <2>7, Zenon DEF KInv
<1>9. CASE SaveRequest
  BY <1>9, Zenon DEF SaveRequest, KInv, Kept, UndoIsValue, AsksForName
<1>10. CASE Reboot
  <2>1. NoRequest.pc = "idle" /\ NoRequest.val = "name"
    BY DEF NoRequest, Request, Future
  <2>2. QED
    BY <1>10, <2>1, Zenon DEF Reboot, KInv, Kept, UndoIsValue, AsksForName, HasOld
<1>11. CASE UNCHANGED vars
  BY <1>11, Zenon DEF vars, KInv, Kept, UndoIsValue, AsksForName
<1>12. QED
  BY <1>1, <1>2, <1>3, <1>4, <1>5, <1>6, <1>7, <1>8, <1>b, <1>9, <1>10, <1>11
  DEF Next, SetInterfaceAdminStatus, SetInterfaceAliasName, Verify, ReadAppl, ReadState

\* No interleaving of failing requests, rollbacks, removals and reboots leaves
\* a port of the switch without an alias, but for a port that came back under a
\* request which had found it gone.
THEOREM SettersKeepAlias == Spec => []KeepsAlias
<1>1. Init => KInv
  <2> SUFFICES ASSUME Init PROVE KInv
    OBVIOUS
  <2>1. PICK a \in Alias, s \in FirstStatus :
          config = [q \in Port |-> IF q \in HwPort THEN Entry(a, s) ELSE NoEntry]
    BY DEF Init
  <2>2. a \notin {"", NoField}
    BY AliasAssumption, Zenon DEF Value
  <2>3. \A q \in Port : Kept(config, q) /\ Kept(saved, q)
    BY <2>1, <2>2, EntryType, Zenon DEF Kept, Init
  <2>4. \A p \in Proc : h[p].pc = "idle" /\ h[p].val = "name"
    BY Returned, Zenon DEF Init
  <2>5. QED
    BY <2>3, <2>4, Zenon DEF KInv, AsksForName, UndoIsValue, HasOld
<1>2. KInv => KeepsAlias
  BY Zenon DEF KInv, Kept, KeepsAlias
<1>3. QED
  BY <1>1, <1>2, NextKInv, SettersInvariant, PTL DEF Spec

-----------------------------------------------------------------------------
\* Rollbacks.  The race of two requests is all that makes a rollback take back
\* an acknowledged value.

Busy(p) == h[p].pc \notin {"idle", "answered"}

\* No two requests are under way on one field.
Serial ==
  \A p, r \in Proc : p # r /\ Busy(p) /\ Busy(r)
    => h[p].port # h[r].port \/ h[p].field # h[r].field

\* From the write on.
HasWritten == HasOld \ {"write"}

\* Nobody has been told of a value that a request could take back.
NothingAcked ==
  \A p \in Proc : h[p].pc \in HasWritten => acked[h[p].port][h[p].field] = NoField

\* A request that goes on, or ends, without an acknowledgement.
LEMMA SerialStep ==
  ASSUME TypeOK, NothingAcked, NEW p \in Proc,
         \A r \in Proc : r # p => h'[r] = h[r],
         \A q \in Port, f \in Settable : acked'[q][f] \in {acked[q][f], NoField},
         \/ h'[p].pc \notin HasWritten
         \/ /\ h'[p].port = h[p].port /\ h'[p].field = h[p].field
            /\ h[p].pc \in HasWritten \/ acked'[h[p].port][h[p].field] = NoField
  PROVE  NothingAcked'
<1>1. \A r \in Proc : h[r].port \in Port /\ h[r].field \in Settable
  BY DEF TypeOK, Handler
<1>2. ASSUME NEW r \in Proc, h'[r].pc \in HasWritten
      PROVE  acked'[h'[r].port][h'[r].field] = NoField
  <2>1. CASE r = p
    BY <1>1, <1>2, <2>1 DEF NothingAcked
  <2>2. CASE r # p
    BY <1>1, <1>2, <2>2 DEF NothingAcked
  <2>3. QED
    BY <2>1, <2>2
<1>3. QED
  BY <1>2 DEF NothingAcked

\* Every step preserves this while requests on one field come one by one.
LEMMA NextNothingAcked ==
  TypeOK /\ Serial /\ NothingAcked /\ [Next]_vars => NothingAcked'
<1> SUFFICES ASSUME TypeOK, Serial, NothingAcked, [Next]_vars PROVE NothingAcked'
  OBVIOUS
<1>h. ASSUME NEW p \in Proc
      PROVE  /\ h[p].val \in Value /\ h[p].old \in Value
             /\ h[p].port \in Port /\ h[p].field \in Settable
  BY DEF TypeOK, Handler
<1>g. ASSUME NEW p \in Proc, NEW l, Goto(p, l)
      PROVE  /\ h'[p].pc = l /\ h'[p].port = h[p].port /\ h'[p].field = h[p].field
             /\ \A r \in Proc : r # p => h'[r] = h[r]
  BY <1>g, GotoStep
<1>a. ASSUME NEW p \in Proc, NEW c, Answer(p, c)
      PROVE  /\ h'[p].pc = "answered"
             /\ \A r \in Proc : r # p => h'[r] = h[r]
  BY <1>a, AnswerStep
<1>l. {"answered", "read", "write", "idle"} \cap HasWritten = {}
  BY Zenon DEF HasWritten, HasOld
<1>w. ASSUME NEW p \in Proc, NEW v \in Value, HSet(p, v)
      PROVE  /\ acked'[h[p].port][h[p].field] = NoField
             /\ \A q \in Port, f \in Settable : acked'[q][f] \in {acked[q][f], NoField}
  BY <1>h, <1>w, HSetFrame
<1>u. Unwritten => \A q \in Port, f \in Settable : acked'[q][f] \in {acked[q][f], NoField}
  BY Zenon DEF Unwritten
<1>1. ASSUME NEW p \in Proc, Call(p) PROVE NothingAcked'
  <2>1. h'[p].pc \in {"read", "answered"} /\ \A r \in Proc : r # p => h'[r] = h[r]
    BY <1>1, CallStep
  <2>2. acked' = acked
    BY <1>1 DEF Call
  <2>3. QED
    BY <1>l, <2>1, <2>2, SerialStep, Zenon
<1>2. ASSUME NEW p \in Proc, ReadOld(p) PROVE NothingAcked'
  <2>1. h'[p].pc \in {"write", "answered"} /\ \A r \in Proc : r # p => h'[r] = h[r]
    BY <1>2, <1>a DEF ReadOld, TypeOK, Handler
  <2>2. QED
    BY <1>2, <1>l, <1>u, <2>1, SerialStep, Zenon DEF ReadOld
<1>3. ASSUME NEW p \in Proc, Write(p) PROVE NothingAcked'
  <2>1. CASE HSet(p, h[p].val) /\ Goto(p, "save")
    BY <1>h, <1>g, <1>w, <2>1, SerialStep, Zenon
  <2>2. CASE Answer(p, "REDIS_HSET_FAIL") /\ (HSet(p, h[p].val) \/ Unwritten)
    BY <1>h, <1>a, <1>l, <1>w, <1>u, <2>2, SerialStep, Zenon
  <2>3. QED
    BY <1>3, <2>1, <2>2 DEF Write
<1>4. ASSUME NEW p \in Proc,
             SaveConfig(p) \/ Verify(p) \/ ReadState(p) \/ ReadAppl(p)
      PROVE  NothingAcked'
  <2>1. Unwritten /\ h[p].pc \in HasWritten
    BY <1>4, Zenon DEF SaveConfig, Verify, ReadState, ReadAppl, HasWritten, HasOld
  <2>2. /\ \A r \in Proc : r # p => h'[r] = h[r]
        /\ \/ h'[p].pc = "answered"
           \/ h'[p].port = h[p].port /\ h'[p].field = h[p].field
    BY <1>4, <1>a, <1>g, Zenon DEF SaveConfig, Verify, ReadState, ReadAppl
  <2>3. QED
    BY <1>l, <1>u, <2>1, <2>2, SerialStep, Zenon
<1>5. ASSUME NEW p \in Proc, UndoSave(p) \/ UndoRead(p) PROVE NothingAcked'
  <2>1. /\ h'[p].pc = "answered" /\ \A r \in Proc : r # p => h'[r] = h[r]
        /\ HSet(p, h[p].old) \/ Unwritten
    BY <1>5, <1>a, Zenon DEF UndoSave, UndoRead
  <2>2. QED
    BY <1>h, <1>l, <1>w, <1>u, <2>1, SerialStep, Zenon
<1>6. ASSUME NEW p \in Proc, AnswerOK(p), Busy(p) PROVE NothingAcked'
  <2>1. h'[p].pc = "answered" /\ \A r \in Proc : r # p => h'[r] = h[r]
    BY <1>6, <1>a, Zenon DEF AnswerOK
  <2>2. \A q \in Port, f \in Settable :
          q # h[p].port \/ f # h[p].field => acked'[q][f] = acked[q][f]
    BY <1>6, <1>h DEF AnswerOK, TypeOK
  <2>3. ASSUME NEW r \in Proc, h'[r].pc \in HasWritten
        PROVE  acked'[h'[r].port][h'[r].field] = NoField
    <3>1. r # p /\ h'[r] = h[r]
      BY <1>l, <2>1, <2>3
    <3>2. Busy(r)
      BY <1>l, <2>3, <3>1 DEF Busy
    <3>3. h[p].port # h[r].port \/ h[p].field # h[r].field
      BY <1>6, <3>1, <3>2 DEF Serial
    <3>4. QED
      BY <1>h, <2>2, <2>3, <3>1, <3>3 DEF NothingAcked
  <2>4. QED
    BY <2>3 DEF NothingAcked
<1>7. ASSUME NEW p \in Proc, FinishAlias(p) \/ FinishAdmin(p) PROVE NothingAcked'
  <2>1. CASE AnswerOK(p)
    BY <1>6, <1>7, <2>1 DEF FinishAlias, FinishAdmin, Busy
  <2>2. CASE Answer(p, "REDIS_KEY_CHECK_FAIL") /\ Unwritten
    BY <1>a, <1>l, <1>u, <2>2, SerialStep, Zenon
  <2>3. QED
    BY <1>7, <2>1, <2>2 DEF FinishAlias, FinishAdmin
<1>8. ASSUME NEW q \in Port, RemovePort(q) \/ AddPort(q) PROVE NothingAcked'
  <2>1. h' = h /\ \A r \in Port, f \in Settable : acked'[r][f] \in {acked[r][f], NoField}
    BY <1>8, Configured DEF Configure, TypeOK
  <2>2. QED
    BY <1>h, <2>1, Zenon DEF NothingAcked
<1>9. CASE Reboot
  <2>1. NoRequest.pc = "idle"
    BY DEF NoRequest, Request
  <2>2. QED
    BY <1>9, <1>l, <2>1, Zenon DEF Reboot, NothingAcked
<1>10. CASE SaveRequest \/ UNCHANGED vars
  BY <1>10 DEF SaveRequest, vars, NothingAcked
<1>11. QED
  BY <1>1, <1>2, <1>3, <1>4, <1>5, <1>7, <1>8, <1>9, <1>10
  DEF Next, SetInterfaceAdminStatus, SetInterfaceAliasName

\* Were the requests on one field served one after the other, a rollback would
\* never take back a value that another request was told is set: the race that
\* the code leaves open is the only way to lose one.
THEOREM SerialRollbackSparesAcked == Spec /\ []Serial => RollbackSparesAcked
<1>1. Init => NothingAcked
  <2>1. NoRequest.pc = "idle" /\ "idle" \notin HasWritten
    BY DEF NoRequest, Request, HasWritten, HasOld
  <2>2. Init => \A p \in Proc : h[p] = NoRequest
    BY Zenon DEF Init
  <2>3. QED
    BY <2>1, <2>2 DEF NothingAcked
<1>2. TypeOK /\ NothingAcked =>
        [\A p \in Proc :
           LET q == h[p].port  f == h[p].field IN
           /\ h[p].pc \in {"undoSave", "undoRead"} /\ h'[p].pc = "answered"
           /\ acked[q][f] # NoField
           => config'[q][f] = config[q][f]]_vars
  BY DEF NothingAcked, HasWritten, HasOld
<1>3. QED
  BY <1>1, <1>2, NextNothingAcked, SettersTypeOK, PTL DEF Spec, RollbackSparesAcked

-----------------------------------------------------------------------------
\* The requests implement their promise.

\* The labels between the write and the answer are one stage.
LEMMA StageOf ==
  ASSUME NEW r
  PROVE  /\ r.pc = "idle" => Stage(r) = "idle"
         /\ r.pc = "read" => Stage(r) = "asked"
         /\ r.pc = "write" => Stage(r) = "noted"
         /\ r.pc \in HasWritten => Stage(r) = "set"
         /\ r.pc = "answered" /\ r.code = "OK" => Stage(r) = "ok"
         /\ r.pc = "answered" /\ r.code # "OK" => Stage(r) = "refused"
  BY DEF Stage, HasWritten, HasOld

\* What the mapping shows of a request.
LEMMA Shown ==
  ASSUME NEW p \in Proc
  PROVE  /\ Stages[p] = Stage(h[p]) /\ Stages'[p] = Stage(h'[p])
         /\ Requests[p].port = h[p].port /\ Requests[p].field = h[p].field
         /\ Requests[p].val = h[p].val /\ Requests[p].old = h[p].old
         /\ Requests'[p].port = h'[p].port /\ Requests'[p].field = h'[p].field
         /\ Requests'[p].val = h'[p].val /\ Requests'[p].old = h'[p].old
  BY DEF Stages, Requests

\* The others' requests stay as they are.
LEMMA PromiseStep ==
  ASSUME NEW p \in Proc, \A r \in Proc : r # p => h'[r] = h[r]
  PROVE  Promise!Step(p)
  BY DEF Promise!Step, Stages, Requests

\* An HSet is a write of the promise.
LEMMA PromisePut ==
  ASSUME NEW p \in Proc, NEW v, HSet(p, v)
  PROVE  Promise!Put(p, v)
<1>1. \A r \in Proc : Requests[r].port = h[r].port /\ Requests[r].field = h[r].field
  BY Shown
<1>2. QED
  BY <1>1 DEF Promise!Put, HSet

\* A handler that goes on without a trace, or with a save.
LEMMA PromiseGoesOn ==
  ASSUME TypeOK, NEW p \in Proc, NEW l, Goto(p, l), Unwritten, saved' \in {config, saved},
         h[p].pc \in HasWritten, l \in HasWritten
  PROVE  [Promise!Next]_(Promise!vars)
<1>1. /\ h'[p].pc = l /\ h'[p].val = h[p].val /\ h'[p].old = h[p].old
      /\ h'[p].port = h[p].port /\ h'[p].field = h[p].field
      /\ \A r \in Proc : r # p => h'[r] = h[r]
  BY GotoStep
<1>2. Stage(h'[p]) = "set" /\ Stage(h[p]) = "set"
  BY <1>1, StageOf
<1>3. UNCHANGED <<Stages, Requests>>
  BY <1>1, <1>2 DEF Stages, Requests
<1>4. QED
  BY <1>3 DEF Unwritten, Promise!Next, Promise!Save, Promise!vars

\* A handler that refuses.
LEMMA PromiseRefuses ==
  ASSUME TypeOK, NEW p \in Proc, NEW c, Answer(p, c), c # "OK", UNCHANGED saved,
         \/ Unwritten /\ h[p].pc \in {"read", "write"} \cup HasWritten
         \/ h[p].pc = "write" /\ HSet(p, h[p].val)
         \/ h[p].pc \in HasWritten /\ HSet(p, h[p].old)
  PROVE  Promise!Refuse(p)
<1>1. /\ h'[p].pc = "answered" /\ h'[p].code # "OK"
      /\ \A r \in Proc : r # p => h'[r] = h[r]
  BY AnswerStep
<1>2. Stages'[p] = "refused" /\ Promise!Step(p)
  BY <1>1, Shown, StageOf, PromiseStep
<1>3. /\ h[p].pc = "read" => Stages[p] = "asked"
      /\ h[p].pc = "write" => Stages[p] = "noted"
      /\ h[p].pc \in HasWritten => Stages[p] = "set"
      /\ Requests[p].val = h[p].val /\ Requests[p].old = h[p].old
  BY Shown, StageOf
<1>4. CASE Unwritten /\ h[p].pc \in {"read", "write"} \cup HasWritten
  BY <1>2, <1>3, <1>4 DEF Promise!Refuse, Promise!Left, Unwritten
<1>5. CASE h[p].pc = "write" /\ HSet(p, h[p].val)
  BY <1>2, <1>3, <1>5, PromisePut DEF Promise!Refuse
<1>6. CASE h[p].pc \in HasWritten /\ HSet(p, h[p].old)
  BY <1>2, <1>3, <1>6, PromisePut DEF Promise!Refuse
<1>7. QED
  BY <1>4, <1>5, <1>6

\* A handler that answers OK has its value set and saved.
LEMMA PromiseSucceeds ==
  ASSUME IInv, NEW p \in Proc, AnswerOK(p), h[p].pc \in {"appl", "alias"}
  PROVE  Promise!Succeed(p)
<1>1. /\ h'[p].pc = "answered" /\ h'[p].code = "OK"
      /\ \A r \in Proc : r # p => h'[r] = h[r]
      /\ UNCHANGED <<config, clean, saved>>
  BY AnswerStep DEF AnswerOK, IInv
<1>2. Stages'[p] = "ok" /\ Promise!Step(p)
  BY <1>1, Shown, StageOf, PromiseStep
<1>3. h[p].pc \in HasWritten
  BY DEF HasWritten, HasOld
<1>4. Stages[p] = "set"
  BY <1>3, Shown, StageOf
<1>5. clean[p] => /\ config[h[p].port][h[p].field] = h[p].val
                  /\ saved[h[p].port][h[p].field] = h[p].val
  BY DEF IInv, WriteStands, Standing
<1>6. QED
  BY <1>1, <1>2, <1>4, <1>5, Shown DEF Promise!Succeed, Promise!Found, Promise!Left

\* Every step of the agent and of the switch is one of the promise, or none.
LEMMA PromiseNext == IInv /\ IInv' /\ [Next]_vars => [Promise!Next]_(Promise!vars)
<1> SUFFICES ASSUME IInv, IInv', [Next]_vars PROVE [Promise!Next]_(Promise!vars)
  OBVIOUS
<1>0. TypeOK /\ TypeOK'
  BY DEF IInv
<1>l. {"save", "undoSave", "verify", "state", "appl", "alias", "undoRead"} \subseteq HasWritten
  BY DEF HasWritten, HasOld
<1>p. ASSUME NEW p \in Proc,
             \/ Promise!Ask(p) \/ Promise!Note(p) \/ Promise!Set(p)
             \/ Promise!Succeed(p) \/ Promise!Refuse(p)
      PROVE  Promise!Next
  BY <1>p DEF Promise!Next
<1>1. ASSUME NEW p \in Proc, Call(p) PROVE Promise!Ask(p)
  <2>1. /\ h'[p].pc \in {"read", "answered"} /\ (h'[p].pc = "answered" => h'[p].code # "OK")
        /\ \A r \in Proc : r # p => h'[r] = h[r]
    BY <1>0, <1>1, CallStep
  <2>2. Stages'[p] \in {"asked", "refused"} /\ Promise!Step(p)
    BY <2>1, Shown, StageOf, PromiseStep
  <2>3. Stages[p] \in {"idle", "ok", "refused"}
    BY <1>1, Shown, StageOf DEF Call
  <2>4. Requests'[p].port \in Port /\ Requests'[p].field \in Settable
    BY <1>0, Shown DEF TypeOK, Handler
  <2>5. QED
    BY <1>1, <2>2, <2>3, <2>4 DEF Promise!Ask, Call
<1>2. ASSUME NEW p \in Proc, ReadOld(p) PROVE Promise!Note(p) \/ Promise!Refuse(p)
  <2>1. CASE h' = [h EXCEPT ![p].pc = "write",
                            ![p].old = Read(config[h[p].port][h[p].field])]
    <3> DEFINE o == Read(config[h[p].port][h[p].field])
    <3>1. /\ h'[p].pc = "write" /\ h'[p].old = o /\ h'[p].val = h[p].val
          /\ h'[p].port = h[p].port /\ h'[p].field = h[p].field
          /\ \A r \in Proc : r # p => h'[r] = h[r]
      BY <1>0, <2>1 DEF TypeOK, Handler
    <3>2. Stages[p] = "asked" /\ Stage(h'[p]) = "noted"
      BY <1>2, <3>1, Shown, StageOf DEF ReadOld
    <3>3. Stages' = [Stages EXCEPT ![p] = "noted"]
      BY <3>1, <3>2 DEF Stages
    <3>4. o = IF Promise!Found(p) = NoField THEN "" ELSE Promise!Found(p)
      BY Shown DEF Promise!Found, Read
    <3> HIDE DEF o
    <3>5. Requests' = [Requests EXCEPT ![p].old = o]
      BY <3>1 DEF Requests
    <3>6. QED
      BY <1>2, <3>2, <3>3, <3>4, <3>5 DEF Promise!Note, Promise!Left, ReadOld, Unwritten
  <2>2. ASSUME NEW c \in {"BAD_REQUEST", "REDIS_KEY_CHECK_FAIL"}, Answer(p, c)
        PROVE  Promise!Refuse(p)
    BY <1>0, <1>2, <2>2, PromiseRefuses DEF ReadOld
  <2>3. QED
    BY <1>2, <2>1, <2>2 DEF ReadOld
<1>3. ASSUME NEW p \in Proc, Write(p) PROVE Promise!Set(p) \/ Promise!Refuse(p)
  <2>1. CASE HSet(p, h[p].val) /\ Goto(p, "save")
    <3>1. /\ h'[p].pc = "save" /\ h'[p].val = h[p].val /\ h'[p].old = h[p].old
          /\ h'[p].port = h[p].port /\ h'[p].field = h[p].field
          /\ \A r \in Proc : r # p => h'[r] = h[r]
      BY <1>0, <2>1, GotoStep
    <3>2. Stages[p] = "noted" /\ Stage(h'[p]) = "set"
      BY <1>3, <1>l, <3>1, Shown, StageOf DEF Write
    <3>3. Stages' = [Stages EXCEPT ![p] = "set"] /\ Requests' = Requests
      BY <3>1, <3>2 DEF Stages, Requests
    <3>4. Promise!Put(p, Requests[p].val)
      BY <2>1, PromisePut, Shown
    <3>5. QED
      BY <1>3, <3>2, <3>3, <3>4 DEF Promise!Set, Write
  <2>2. CASE Answer(p, "REDIS_HSET_FAIL") /\ (HSet(p, h[p].val) \/ Unwritten)
    BY <1>0, <1>3, <2>2, PromiseRefuses DEF Write
  <2>3. QED
    BY <1>3, <2>1, <2>2 DEF Write
<1>4. ASSUME NEW p \in Proc, SaveConfig(p) PROVE [Promise!Next]_(Promise!vars)
  BY <1>0, <1>4, <1>l, PromiseGoesOn DEF SaveConfig
<1>5. ASSUME NEW p \in Proc, Verify(p) \/ ReadState(p) \/ ReadAppl(p)
      PROVE  [Promise!Next]_(Promise!vars)
  <2>1. Unwritten /\ UNCHANGED saved /\ h[p].pc \in HasWritten
    BY <1>5, <1>l DEF Verify, ReadState, ReadAppl
  <2>2. \/ \E l \in HasWritten : Goto(p, l)
        \/ \E c \in Code \ {"OK"} : Answer(p, c)
    BY <1>5, <1>l DEF Verify, ReadState, ReadAppl, Code
  <2>3. QED
    BY <1>0, <1>p, <2>1, <2>2, PromiseGoesOn, PromiseRefuses
<1>6. ASSUME NEW p \in Proc, UndoSave(p) \/ UndoRead(p) PROVE Promise!Refuse(p)
  <2>1. /\ h[p].pc \in HasWritten /\ UNCHANGED saved
        /\ HSet(p, h[p].old) \/ Unwritten
    BY <1>6, <1>l DEF UndoSave, UndoRead
  <2>2. \E c \in Code \ {"OK"} : Answer(p, c)
    BY <1>6 DEF UndoSave, UndoRead, Code
  <2>3. QED
    BY <1>0, <2>1, <2>2, PromiseRefuses
<1>7. ASSUME NEW p \in Proc, FinishAlias(p) \/ FinishAdmin(p)
      PROVE  Promise!Succeed(p) \/ Promise!Refuse(p)
  <2>1. h[p].pc \in {"appl", "alias"} /\ h[p].pc \in HasWritten
    BY <1>7, <1>l DEF FinishAlias, FinishAdmin
  <2>2. CASE AnswerOK(p)
    BY <2>1, <2>2, PromiseSucceeds
  <2>3. CASE Answer(p, "REDIS_KEY_CHECK_FAIL") /\ Unwritten /\ UNCHANGED saved
    BY <1>0, <2>1, <2>3, PromiseRefuses
  <2>4. QED
    BY <1>7, <2>2, <2>3 DEF FinishAlias, FinishAdmin
<1>8. ASSUME NEW q \in Port, RemovePort(q) \/ AddPort(q) PROVE Promise!Configure(q)
  <2>1. PICK e \in [Field -> Value \cup {NoField}] : Configure(q, e)
    BY <1>8, Configured
  <2>2. UNCHANGED <<Stages, Requests>>
    BY <2>1 DEF Configure, Stages, Requests
  <2>3. config' = [config EXCEPT ![q] = config'[q]]
    BY <1>0, <2>1 DEF Configure, TypeOK, Store
  <2>4. QED
    BY <2>1, <2>2, <2>3, Shown DEF Configure, Promise!Configure
<1>9. ASSUME Reboot PROVE Promise!Reboot
  <2>1. Stages' = [p \in Proc |-> "idle"]
    BY <1>9, Returned, StageOf DEF Reboot, Stages
  <2>2. QED
    BY <1>9, <2>1 DEF Reboot, Promise!Reboot
<1>10. ASSUME SaveRequest PROVE Promise!Save
  BY <1>10 DEF SaveRequest, Promise!Save, Stages, Requests
<1>11. CASE UNCHANGED vars
  BY <1>11 DEF vars, Promise!vars, Stages, Requests
<1>12. QED
  BY <1>p, <1>1, <1>2, <1>3, <1>4, <1>5, <1>6, <1>7, <1>8, <1>9, <1>10, <1>11
  DEF Next, SetInterfaceAdminStatus, SetInterfaceAliasName, Promise!Next

\* SetInterfaceAdminStatus and SetInterfaceAliasName implement their promise,
\* for any number of requests that race, fail at any step, and roll back.
THEOREM SettersImplementPromise == Spec => Implements
<1>1. Init => Promise!Init
  <2> SUFFICES ASSUME Init PROVE Promise!Init
    OBVIOUS
  <2>1. config \in Store
    BY InitIInv DEF IInv, TypeOK
  <2>2. Stages = [p \in Proc |-> "idle"]
    BY Returned, StageOf DEF Init, Stages
  <2>3. QED
    BY <2>1, <2>2 DEF Init, Promise!Init, Store
<1>2. QED
  BY <1>1, PromiseNext, SettersInvariant, PTL DEF Spec, Implements, Promise!Spec
=============================================================================
