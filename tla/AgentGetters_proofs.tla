------------------------- MODULE AgentGetters_proofs -------------------------
(***************************************************************************)
(* Proofs about the agent's read requests for any set of ports and any     *)
(* number of changes while they run.                                       *)
(***************************************************************************)
EXTENDS AgentGetters, TLAPS

Single == {"GetInterface", "GetInterfaceNeighbor"}
ReadingPort == {"state", "appl", "link", "alias"}

\* Which requests a step belongs to.
OpAtStep ==
  /\ c.pc = "each" => c.op \in Lists
  /\ c.pc \in ReadingPort => c.op \in {"ListInterfaces", "GetInterface"}
  /\ c.pc = "lldp" => c.op = "GetInterfaceNeighbor"
  /\ c.pc = "port" => c.op = "ListPorts"

\* The history brackets the tables while a request runs.
Bracketed ==
  c.pc # "idle" => always \subseteq Present(c.op) /\ Present(c.op) \subseteq ever

\* What has been collected was there.
CollectedWasThere == c.pc # "idle" => c.items \subseteq ever

\* A listing has, or has still to read, every interface that stayed.
ListingOnTrack ==
  c.op = "ListInterfaces" =>
    /\ c.pc = "each" => always \subseteq c.items \cup c.todo
    /\ c.pc \in ReadingPort => always \subseteq c.items \cup c.todo \cup {c.q}
    /\ c.pc \in {"served", "done"} /\ c.code = "OK" /\ ~c.err =>
         always \subseteq c.items

\* A request for one port has collected nothing until it has its answer.
SingleOnTrack ==
  c.op \in Single =>
    /\ c.pc \in {"begin", "lldp"} \cup ReadingPort => c.items = {}
    /\ c.pc \in {"served", "done"} /\ c.code = "OK" /\ ~c.err => c.items = {c.q}

\* The client has looked at the code of a single answer.
SingleChecked == c.op \in Single /\ c.pc = "done" /\ ~c.err => c.code = "OK"

\* err is only set at the end.
NoErrYet == c.pc # "done" => ~c.err

IInv == /\ TypeOK /\ OpAtStep /\ Bracketed /\ CollectedWasThere
        /\ ListingOnTrack /\ SingleOnTrack /\ SingleChecked /\ NoErrYet

USE AgentGettersAssumption

\* A new request has collected nothing and has no error.
LEMMA NewRequestFields ==
  ASSUME NEW op \in Ops, NEW q \in Port, NEW pc \in {"idle", "begin"}
  PROVE  /\ NewRequest(op, q, pc) \in Requests
         /\ NewRequest(op, q, pc).op = op /\ NewRequest(op, q, pc).pc = pc
         /\ NewRequest(op, q, pc).items = {} /\ ~NewRequest(op, q, pc).err
         /\ NewRequest(op, q, pc).q = q
  BY DEF NewRequest, Requests, Codes, Ops

\* The fields of a request the agent has answered: items only with an OK.
LEMMA ReturnFields ==
  ASSUME c \in Requests, NEW code \in Codes
  PROVE  /\ Return(code) \in Requests
         /\ Return(code).pc = "served" /\ Return(code).op = c.op
         /\ Return(code).q = c.q /\ Return(code).err = c.err
         /\ Return(code).code = code
         /\ Return(code).items = IF code = "OK" THEN c.items ELSE {}
<1> DEFINE items == IF code = "OK" THEN c.items ELSE {}
<1>1. items \subseteq Port
  BY DEF Requests
<1>2. Return(code) = [c EXCEPT !.pc = "served", !.code = code, !.todo = {},
                               !.items = items]
  BY DEF Return, Requests
<1> HIDE DEF items
<1>3. QED
  BY <1>1, <1>2, Zenon DEF Requests, items

\* Moving on to the next read changes nothing else of the request.
LEMMA GotoFields ==
  ASSUME c \in Requests, NEW pc \in {"each", "state", "appl", "link", "alias", "lldp"}
  PROVE  /\ Goto(pc) \in Requests
         /\ Goto(pc).pc = pc /\ Goto(pc).op = c.op /\ Goto(pc).q = c.q
         /\ Goto(pc).todo = c.todo /\ Goto(pc).items = c.items
         /\ Goto(pc).code = c.code /\ Goto(pc).err = c.err
  BY DEF Goto, Requests

\* Collecting a port adds it to the items.
LEMMA CollectFields ==
  ASSUME c \in Requests, NEW pc \in {"each", "served"}, NEW r,
         r = [Collect(c.q) EXCEPT !.pc = pc]
  PROVE  /\ r \in Requests
         /\ r.pc = pc /\ r.op = c.op /\ r.q = c.q /\ r.todo = c.todo
         /\ r.items = c.items \cup {c.q} /\ r.code = c.code /\ r.err = c.err
<1> DEFINE items == c.items \cup {c.q}
<1>1. items \subseteq Port
  BY DEF Requests
<1>2. Collect(c.q) = [c EXCEPT !.items = items]
  BY DEF Collect, Requests
<1> HIDE DEF items
<1>3. r = [c EXCEPT !.items = items, !.pc = pc]
  BY <1>1, <1>2 DEF Requests
<1>4. QED
  BY <1>1, <1>3, Zenon DEF Requests, items

-----------------------------------------------------------------------------
\* A read leaves the tables and the history alone.
LEMMA ReadFrame ==
  ASSUME IInv, UNCHANGED <<db, changes, always, ever>>, c.pc # "idle",
         c' \in Requests, c'.op = c.op, c'.items \subseteq ever
  PROVE  TypeOK' /\ Bracketed' /\ CollectedWasThere'
  BY DEF IInv, TypeOK, Bracketed, CollectedWasThere, Present, db

\* The agent gives up, or has nothing left to read.
LEMMA ReturnStep ==
  ASSUME IInv, UNCHANGED <<db, changes, always, ever>>,
         c.pc \notin {"idle", "served", "done"},
         NEW code \in Codes, c' = Return(code),
         code = "OK" =>
           \/ c.op \notin Single \cup {"ListInterfaces"}
           \/ c.op = "ListInterfaces" /\ c.pc = "each" /\ c.todo = {}
  PROVE  IInv'
<1>1. c \in Requests /\ c.items \subseteq ever /\ ~c.err
  BY DEF IInv, TypeOK, CollectedWasThere, NoErrYet
<1>2. /\ c' \in Requests /\ c'.pc = "served" /\ c'.op = c.op /\ c'.q = c.q
      /\ c'.err = c.err /\ c'.code = code
      /\ c'.items = IF code = "OK" THEN c.items ELSE {}
  BY <1>1, ReturnFields
<1>3. TypeOK' /\ Bracketed' /\ CollectedWasThere'
  BY <1>1, <1>2, ReadFrame
<1>4. OpAtStep' /\ SingleOnTrack' /\ SingleChecked' /\ NoErrYet'
  BY <1>1, <1>2 DEF OpAtStep, SingleOnTrack, SingleChecked, NoErrYet, ReadingPort,
     Single
<1>5. ListingOnTrack'
  BY <1>1, <1>2 DEF IInv, ListingOnTrack, ReadingPort, Single
<1>6. QED
  BY <1>3, <1>4, <1>5 DEF IInv

\* On to the next read, with the port unchanged.
LEMMA GotoStep ==
  ASSUME IInv, UNCHANGED <<db, changes, always, ever>>,
         NEW pc, c' = Goto(pc),
         \/ c.pc \in ReadingPort /\ pc \in ReadingPort
         \/ c.pc = "begin" /\ c.op = "GetInterface" /\ pc = "state"
         \/ c.pc = "begin" /\ c.op = "GetInterfaceNeighbor" /\ pc = "lldp"
         \/ c.pc = "port" /\ pc = "each"
  PROVE  IInv'
<1>1. c \in Requests /\ c.items \subseteq ever /\ ~c.err /\ OpAtStep
  BY DEF IInv, TypeOK, CollectedWasThere, NoErrYet, ReadingPort
<1>2. pc \in {"each", "state", "appl", "link", "alias", "lldp"}
  BY DEF ReadingPort
<1>3. /\ c' \in Requests /\ c'.pc = pc /\ c'.op = c.op /\ c'.q = c.q
      /\ c'.todo = c.todo /\ c'.items = c.items
      /\ c'.code = c.code /\ c'.err = c.err
  BY <1>1, <1>2, GotoFields
<1>4. TypeOK' /\ Bracketed' /\ CollectedWasThere'
  BY <1>1, <1>3, ReadFrame DEF ReadingPort
<1>5. OpAtStep'
  BY <1>1, <1>3 DEF OpAtStep, ReadingPort, Lists
<1>6. ListingOnTrack'
  BY <1>1, <1>3 DEF IInv, ListingOnTrack, OpAtStep, ReadingPort
<1>7. SingleOnTrack' /\ SingleChecked' /\ NoErrYet'
  BY <1>1, <1>3 DEF IInv, SingleOnTrack, SingleChecked, NoErrYet, OpAtStep,
     ReadingPort, Single, Lists
<1>8. QED
  BY <1>4, <1>5, <1>6, <1>7 DEF IInv

\* The port is complete right now and joins the items.
LEMMA CollectStep ==
  ASSUME IInv, UNCHANGED <<db, changes, always, ever>>,
         NEW pc, c' = [Collect(c.q) EXCEPT !.pc = pc],
         c.q \in Present(c.op),
         \/ c.pc = "alias" /\ c.op = "ListInterfaces" /\ pc = "each"
         \/ c.pc \in {"alias", "lldp"} /\ c.op \in Single /\ pc = "served"
         \/ c.pc = "port" /\ pc = "each"
  PROVE  IInv'
<1>1. c \in Requests /\ c.items \subseteq ever /\ ~c.err /\ OpAtStep
      /\ c.q \in ever
  BY DEF IInv, TypeOK, CollectedWasThere, NoErrYet, Bracketed
<1>2. pc \in {"each", "served"}
  OBVIOUS
<1>3. /\ c' \in Requests /\ c'.pc = pc /\ c'.op = c.op /\ c'.q = c.q
      /\ c'.todo = c.todo /\ c'.items = c.items \cup {c.q}
      /\ c'.code = c.code /\ c'.err = c.err
  BY <1>1, <1>2, CollectFields, Zenon
<1>4. TypeOK' /\ Bracketed' /\ CollectedWasThere'
  BY <1>1, <1>3, ReadFrame
<1>5. OpAtStep'
  BY <1>1, <1>3 DEF OpAtStep, ReadingPort, Lists
<1>6. ListingOnTrack'
  BY <1>1, <1>3 DEF IInv, ListingOnTrack, OpAtStep, ReadingPort, Single
<1>7. SingleOnTrack' /\ SingleChecked' /\ NoErrYet'
  BY <1>1, <1>3 DEF IInv, SingleOnTrack, SingleChecked, NoErrYet, OpAtStep,
     ReadingPort, Single, Lists
<1>8. QED
  BY <1>4, <1>5, <1>6, <1>7 DEF IInv

-----------------------------------------------------------------------------
\* A new request starts its history with what is present.
LEMMA CallStep ==
  ASSUME IInv, NEW op \in Ops, NEW q \in Port, Call(op, q)
  PROVE  IInv'
<1>1. /\ c' \in Requests /\ c'.op = op /\ c'.pc = "begin" /\ c'.items = {} /\ ~c'.err
      /\ UNCHANGED <<db, changes>>
      /\ always' = Present(op) /\ ever' = Present(op)
  BY NewRequestFields DEF Call
<1>2. TypeOK' /\ Bracketed' /\ CollectedWasThere'
  BY <1>1 DEF IInv, TypeOK, Bracketed, CollectedWasThere, Present, db
<1>3. OpAtStep' /\ ListingOnTrack' /\ SingleOnTrack' /\ SingleChecked' /\ NoErrYet'
  BY <1>1 DEF OpAtStep, ListingOnTrack, SingleOnTrack, SingleChecked, NoErrYet,
              ReadingPort
<1>4. QED
  BY <1>2, <1>3 DEF IInv

\* KEYS lists every configured port, so every one that stays.
LEMMA KeysStep ==
  ASSUME IInv, Keys
  PROVE  IInv'
<1>1. UNCHANGED <<db, changes, always, ever>> /\ c.pc = "begin" /\ c.op \in Lists
      /\ c \in Requests /\ c.items \subseteq ever /\ ~c.err
  BY DEF Keys, Reading, IInv, TypeOK, CollectedWasThere, NoErrYet
<1>2. CASE Fails("BAD_REQUEST")
  BY <1>1, <1>2, ReturnStep DEF Fails, Codes
<1>3. CASE ~Fails("BAD_REQUEST")
  <2> DEFINE todo == IF c.op = "ListPorts" THEN {q \in Port : appl[q] # "none"}
                     ELSE {q \in Port : config[q] # "none"}
  <2>1. c' = [c EXCEPT !.pc = "each", !.todo = todo]
    BY <1>3 DEF Keys
  <2>2. todo \subseteq Port /\ (c.op = "ListInterfaces" => Present(c.op) \subseteq todo)
    BY DEF Present
  <2> HIDE DEF todo
  <2>3. /\ c' \in Requests /\ c'.pc = "each" /\ c'.op = c.op /\ c'.todo = todo
        /\ c'.items = c.items /\ c'.err = c.err
    BY <1>1, <2>1, <2>2, ZenonT(40) DEF Requests
  <2>4. TypeOK' /\ Bracketed' /\ CollectedWasThere'
    BY <1>1, <2>3, ReadFrame
  <2>5. ListingOnTrack'
    BY <1>1, <2>2, <2>3 DEF IInv, ListingOnTrack, Bracketed, ReadingPort
  <2>6. OpAtStep' /\ SingleOnTrack' /\ SingleChecked' /\ NoErrYet'
    BY <1>1, <2>3 DEF OpAtStep, SingleOnTrack, SingleChecked, NoErrYet, ReadingPort
  <2>7. QED
    BY <2>4, <2>5, <2>6 DEF IInv
<1>4. QED
  BY <1>2, <1>3

\* The loop over the keys hands out one port, or ends the listing.
LEMMA EachStep ==
  ASSUME IInv, Each
  PROVE  IInv'
<1>1. UNCHANGED <<db, changes, always, ever>> /\ c.pc = "each" /\ c.op \in Lists
      /\ c \in Requests /\ c.items \subseteq ever /\ ~c.err
  BY Zenon DEF Each, Reading, IInv, TypeOK, CollectedWasThere, NoErrYet, OpAtStep
<1>2. CASE c.todo = {} /\ c' = Return("OK")
  BY <1>1, <1>2, ReturnStep DEF Codes, Lists, Single
<1>3. ASSUME NEW q \in c.todo,
             c' = [c EXCEPT !.q = q, !.todo = @ \ {q},
                     !.pc = IF c.op = "ListPorts" THEN "port" ELSE "state"]
      PROVE  IInv'
  <2> DEFINE pc == IF c.op = "ListPorts" THEN "port" ELSE "state"
             todo == c.todo \ {q}
  <2>1. c' = [c EXCEPT !.q = q, !.todo = todo, !.pc = pc]
    BY <1>1, <1>3 DEF Requests
  <2>2. pc \in {"port", "state"} /\ (pc = "port" <=> c.op = "ListPorts")
    OBVIOUS
  <2>3. todo \subseteq Port /\ q \in Port
    BY <1>1 DEF Requests
  <2> HIDE DEF pc, todo
  <2>4. /\ c' \in Requests /\ c'.pc = pc /\ c'.op = c.op /\ c'.todo = todo
        /\ c'.items = c.items /\ c'.err = c.err /\ c'.q = q
    BY <1>1, <2>1, <2>2, <2>3, Zenon DEF Requests
  <2>5. TypeOK' /\ Bracketed' /\ CollectedWasThere'
    BY <1>1, <2>4, ReadFrame
  <2>6. ListingOnTrack'
    BY <1>1, <2>2, <2>4 DEF todo, IInv, ListingOnTrack, ReadingPort
  <2>7. OpAtStep' /\ SingleOnTrack' /\ SingleChecked' /\ NoErrYet'
    BY <1>1, <2>2, <2>4 DEF OpAtStep, SingleOnTrack, SingleChecked, NoErrYet,
       ReadingPort, Lists, Single
  <2>8. QED
    BY <2>5, <2>6, <2>7 DEF IInv
<1>4. QED
  BY <1>2, <1>3, Zenon DEF Each

\* Every other read goes on, gives up or collects the port it is about.
LEMMA ReadSteps ==
  ASSUME IInv,
         \/ GetDeviceInfo \/ Exists \/ ReadState \/ ReadAppl \/ ReadLink
         \/ ReadAlias \/ ReadLldp \/ ReadPort
  PROVE  IInv'
<1>1. UNCHANGED <<db, changes, always, ever>>
  BY DEF GetDeviceInfo, Exists, ReadState, ReadAppl, ReadLink, ReadAlias, ReadLldp,
         ReadPort, Reading
<1>2. OpAtStep /\ c \in Requests
  BY DEF IInv, TypeOK
<1>3. ASSUME NEW code \in Codes, c' = Return(code), code # "OK",
             c.pc \notin {"idle", "served", "done"}
      PROVE  IInv'
  BY <1>1, <1>3, ReturnStep
<1>4. CASE GetDeviceInfo
  <2>1. c.pc = "begin" /\ c.op = "GetDeviceInfo"
        /\ \E code \in Codes : c' = Return(code)
    BY <1>4 DEF GetDeviceInfo, Reading, Fails, Codes
  <2>2. QED
    BY <1>1, <2>1, ReturnStep DEF Single
<1>5. CASE Exists
  BY <1>1, <1>3, <1>5, GotoStep DEF Exists, Reading, Fails, Codes
<1>6. CASE ReadState
  BY <1>1, <1>6, GotoStep DEF ReadState, Reading, ReadingPort
<1>7. CASE ReadAppl
  BY <1>1, <1>3, <1>7, GotoStep DEF ReadAppl, Reading, Fails, Codes, ReadingPort
<1>8. CASE ReadLink
  BY <1>1, <1>3, <1>8, GotoStep DEF ReadLink, Reading, Codes, ReadingPort
<1>9. CASE ReadAlias
  <2>1. c.pc = "alias" /\ c.op \in {"ListInterfaces", "GetInterface"}
    BY <1>2, <1>9 DEF ReadAlias, Reading, OpAtStep, ReadingPort
  <2>2. config[c.q] = "full" => c.q \in Present(c.op)
    BY <1>2, <2>1 DEF Present, Requests
  <2>3. QED
    BY <1>1, <1>3, <1>9, <2>1, <2>2, CollectStep DEF ReadAlias, Serve, Fails, Codes, Single
<1>10. CASE ReadLldp
  <2>1. c.pc = "lldp" /\ c.op = "GetInterfaceNeighbor"
    BY <1>2, <1>10 DEF ReadLldp, Reading, OpAtStep
  <2>2. lldp[c.q] = "full" => c.q \in Present(c.op)
    BY <1>2, <2>1 DEF Present, Requests
  <2>3. QED
    BY <1>1, <1>3, <1>10, <2>1, <2>2, CollectStep DEF ReadLldp, Serve, Fails, Codes, Single
<1>11. CASE ReadPort
  <2>1. c.pc = "port" /\ c.op = "ListPorts"
    BY <1>2, <1>11 DEF ReadPort, Reading, OpAtStep
  <2>2. appl[c.q] = "physical" => c.q \in Present(c.op)
    BY <1>2, <2>1 DEF Present, Requests
  <2>3. QED
    BY <1>1, <1>11, <2>1, <2>2, CollectStep, GotoStep DEF ReadPort
<1>12. QED
  BY <1>4, <1>5, <1>6, <1>7, <1>8, <1>9, <1>10, <1>11

\* The client keeps the items, or reports an error and has none.
LEMMA AnswerStep ==
  ASSUME IInv, Answer
  PROVE  IInv'
<1>1. UNCHANGED <<db, changes, always, ever>> /\ c.pc = "served"
      /\ c \in Requests /\ c.items \subseteq ever /\ ~c.err
  BY SMTT(30) DEF Answer, AnswerSingle, AnswerUncoded, CallFails, Reading, IInv, TypeOK,
        CollectedWasThere, NoErrYet
<1>2. \E err \in BOOLEAN, items \in {c.items, {}} :
        /\ c' = [c EXCEPT !.pc = "done", !.err = err, !.items = items]
        /\ ~err => items = c.items /\ (c.op \in Single => c.code = "OK")
  <2>1. CASE AnswerSingle
    <3> DEFINE e == c.code # "OK"
    <3>1. c' = [c EXCEPT !.pc = "done", !.err = e, !.items = c.items]
      BY <1>1, <2>1, ZenonT(40) DEF AnswerSingle, Requests
    <3>2. e \in BOOLEAN /\ (~e => c.code = "OK")
      OBVIOUS
    <3> HIDE DEF e
    <3>3. QED
      BY <3>1, <3>2, Zenon
  <2>2. CASE AnswerUncoded
    <3>1. c.op \notin Single
      BY <2>2, Zenon DEF AnswerUncoded, Single
    <3>2. c' = [c EXCEPT !.pc = "done", !.err = FALSE, !.items = c.items]
      BY <1>1, <2>2 DEF AnswerUncoded, Requests
    <3>3. QED
      BY <3>1, <3>2, Zenon
  <2>3. CASE CallFails
    BY <2>3, Zenon DEF CallFails
  <2>4. QED
    BY <2>1, <2>2, <2>3, Zenon DEF Answer
<1>3. PICK err \in BOOLEAN, items \in {c.items, {}} :
        /\ c' = [c EXCEPT !.pc = "done", !.err = err, !.items = items]
        /\ ~err => items = c.items /\ (c.op \in Single => c.code = "OK")
  BY <1>2, Zenon
<1>4. /\ c' \in Requests /\ c'.pc = "done" /\ c'.op = c.op /\ c'.err = err
      /\ c'.items = items /\ c'.code = c.code /\ c'.q = c.q
  BY <1>1, <1>3, Zenon DEF Requests
<1>5. TypeOK' /\ Bracketed' /\ CollectedWasThere'
  BY <1>1, <1>4, ReadFrame
<1>6. ListingOnTrack' /\ SingleOnTrack'
  BY <1>1, <1>3, <1>4 DEF IInv, ListingOnTrack, SingleOnTrack, ReadingPort
<1>7. OpAtStep' /\ SingleChecked' /\ NoErrYet'
  BY <1>1, <1>3, <1>4 DEF OpAtStep, SingleChecked, NoErrYet, ReadingPort
<1>8. QED
  BY <1>5, <1>6, <1>7 DEF IInv

\* A request that is done makes room for the next.
LEMMA FinishStep ==
  ASSUME IInv, Finish
  PROVE  IInv'
<1> DEFINE r == CHOOSE q \in Port : TRUE
<1>1. r \in Port /\ "GetDeviceInfo" \in Ops
  BY DEF Ops
<1>2. c' = NewRequest("GetDeviceInfo", r, "idle")
      /\ UNCHANGED <<db, changes, always, ever>>
  BY DEF Finish, Reading
<1> HIDE DEF r
<1>3. c' \in Requests /\ c'.op = "GetDeviceInfo" /\ c'.pc = "idle" /\ ~c'.err
  BY <1>1, <1>2, NewRequestFields
<1>4. TypeOK'
  BY <1>2, <1>3 DEF IInv, TypeOK, db
<1>5. QED
  BY <1>3, <1>4 DEF IInv, OpAtStep, Bracketed, CollectedWasThere, ListingOnTrack,
     SingleOnTrack, SingleChecked, NoErrYet, ReadingPort, Single

\* A change narrows what was always there and widens what ever was.
LEMMA ChangeStep ==
  ASSUME IInv, NEW q \in Port,
         \/ ConfigChanges(q) \/ ApplChanges(q) \/ LldpChanges(q) \/ LinkChanges(q)
  PROVE  IInv'
<1>1. Change /\ c' = c /\ changes' \in 0..MaxChanges
  BY DEF IInv, TypeOK, ConfigChanges, ApplChanges, LldpChanges, LinkChanges, Change
<1>2. /\ config' \in [Port -> ConfigEntry] /\ appl' \in [Port -> ApplEntry]
      /\ lldp' \in [Port -> LldpEntry] /\ link' \subseteq Port /\ mac' \in BOOLEAN
  BY DEF IInv, TypeOK, ConfigChanges, ApplChanges, LldpChanges, LinkChanges
<1>3. always' \subseteq always /\ always' \subseteq Present(c.op)'
      /\ (c.pc # "idle" => ever' = ever \cup Present(c.op)')
      /\ ever' \subseteq Port /\ always' \subseteq Port
  BY <1>1 DEF Change, Present, IInv, TypeOK
<1>4. TypeOK'
  BY <1>1, <1>2, <1>3 DEF IInv, TypeOK
<1>5. Bracketed' /\ CollectedWasThere'
  BY <1>1, <1>3 DEF IInv, Bracketed, CollectedWasThere
<1>6. ListingOnTrack'
  BY <1>1, <1>3 DEF IInv, ListingOnTrack
<1>7. QED
  BY <1>1, <1>4, <1>5, <1>6 DEF IInv, OpAtStep, SingleOnTrack, SingleChecked, NoErrYet

\* The invariant holds before the first request.
LEMMA InitIInv == Init => IInv
<1> SUFFICES ASSUME Init PROVE IInv
  OBVIOUS
<1> DEFINE r == CHOOSE q \in Port : TRUE
<1>1. r \in Port /\ "GetDeviceInfo" \in Ops
  BY DEF Ops
<1>2. c = NewRequest("GetDeviceInfo", r, "idle")
  BY DEF Init
<1> HIDE DEF r
<1>3. c \in Requests /\ c.op = "GetDeviceInfo" /\ c.pc = "idle" /\ ~c.err
  BY <1>1, <1>2, NewRequestFields
<1>4. config \in [Port -> ConfigEntry] /\ appl \in [Port -> ApplEntry]
      /\ lldp \in [Port -> LldpEntry]
  BY DEF Init, ConfigEntry, ApplEntry, LldpEntry
<1>5. TypeOK
  BY <1>3, <1>4 DEF Init, TypeOK
<1>6. QED
  BY <1>3, <1>5 DEF IInv, OpAtStep, Bracketed, CollectedWasThere, ListingOnTrack,
     SingleOnTrack, SingleChecked, NoErrYet, ReadingPort, Single

\* Every step of a request, and every change SONiC makes, preserves it.
LEMMA NextIInv == IInv /\ [Next]_vars => IInv'
<1> SUFFICES ASSUME IInv, [Next]_vars PROVE IInv'
  OBVIOUS
<1>1. CASE Next
  BY <1>1, CallStep, KeysStep, EachStep, ReadSteps, AnswerStep, FinishStep, ChangeStep
     DEF Next
<1>2. CASE UNCHANGED vars
  BY <1>2 DEF vars, IInv, TypeOK, OpAtStep, Bracketed, CollectedWasThere,
     ListingOnTrack, SingleOnTrack, SingleChecked, NoErrYet, Present
<1>3. QED
  BY <1>1, <1>2

\* The inductive invariant of the read requests.
THEOREM GettersInvariant == Spec => []IInv
  BY InitIInv, NextIInv, PTL DEF Spec

\* Requests and tables keep their types.
THEOREM GettersTypeOK == Spec => []TypeOK
<1>1. IInv => TypeOK
  BY DEF IInv
<1>2. QED
  BY <1>1, GettersInvariant, PTL

\* Whatever SONiC changes between two reads of a request, its answer names
\* only what was there at some time while it ran.
THEOREM AnswersAreReal == Spec => []AnswerIsReal
<1>1. IInv => AnswerIsReal
  BY DEF IInv, CollectedWasThere, AnswerIsReal
<1>2. QED
  BY <1>1, GettersInvariant, PTL

\* A listing the agent calls a success is complete for every port that stayed
\* configured while it ran.
THEOREM ListingsAreComplete == Spec => []ListingComplete
<1>1. IInv => ListingComplete
  BY DEF IInv, ListingOnTrack, ListingComplete
<1>2. QED
  BY <1>1, GettersInvariant, PTL

\* A request for one port never succeeds at the client with nothing, or with
\* another port.
THEOREM SingleAnswersAreExact == Spec => []ExactAnswer
<1>1. IInv => ExactAnswer
  BY DEF IInv, SingleOnTrack, SingleChecked, ExactAnswer, Single
<1>2. QED
  BY <1>1, GettersInvariant, PTL
=============================================================================
