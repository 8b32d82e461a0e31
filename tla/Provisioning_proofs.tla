------------------------- MODULE Provisioning_proofs -------------------------
(***************************************************************************)
(* Proofs about the two handlers of the provisioning server.  GET /ztp,    *)
(* for any Switches, ConfigMaps and addresses and any number of edits:     *)
(* what is served is the script of the one Switch with the address.  GET   *)
(* /onie, for any onie.json and any directory: what is served is the image *)
(* of the last entry of the machine's vendor.                              *)
(***************************************************************************)
EXTENDS Ztp, Onie, TLAPS

\* What a request under way knows: once it has matched, the Switch and its
\* reference are among those that were alone with the address; the histories
\* hold what is the case now.
Known ==
  /\ req.pc = "match" => req.status = "none"
  /\ req.pc = "script" => req.status = "none" /\ <<req.sw, req.ref>> \in sole
  /\ req.status = "ok" /\ mode = "configmap" => req.ref \in ConfigMap
  /\ Named(req.addr) \subseteq sole
  /\ \A k \in ConfigMap : data[k] \in seen[k]

IInv == TypeOK /\ Known /\ OwnScriptOnly

USE ZtpAssumption

-----------------------------------------------------------------------------
\* A Switch that is alone with an address, and its reference.
LEMMA NamedType ==
  ASSUME NEW a, ref \in [Switch -> ConfigMap \cup {None}]
  PROVE  Named(a) \subseteq Switch \X (ConfigMap \cup {None})
  BY DEF Named, SoleOf

\* A request as it arrives.
LEMMA ArrivesType ==
  ASSUME NEW a \in Addr
  PROVE  /\ Arrives(a) \in Requests
         /\ Arrives(a).pc = "match" /\ Arrives(a).addr = a
         /\ Arrives(a).status = "none"
  BY DEF Arrives, Requests

\* Every first request starts from what the objects are.
LEMMA ZtpInit == Init => IInv
<1> SUFFICES ASSUME Init PROVE IInv
  OBVIOUS
<1>1. PICK a \in Addr : req = Arrives(a) /\ sole = Named(a)
  BY DEF Init
<1>2. seen \in [ConfigMap -> SUBSET Content] /\ data \in [ConfigMap -> Content]
      /\ \A k \in ConfigMap : data[k] \in seen[k]
  BY Zenon DEF Init, Content, Script
<1>3. /\ req \in Requests /\ req.pc = "match" /\ req.addr = a
      /\ req.status = "none"
  BY <1>1, ArrivesType
<1>4. ref \in [Switch -> ConfigMap \cup {None}]
  BY DEF Init
<1>5. sole \subseteq Switch \X (ConfigMap \cup {None})
  BY <1>1, <1>4, NamedType
<1>6. events \in 0..MaxEvents
  BY DEF Init
<1>7. TypeOK
  BY <1>2, <1>3, <1>4, <1>5, <1>6 DEF Init, TypeOK
<1>8. Known
  BY <1>1, <1>2, <1>3 DEF Known
<1>9. OwnScriptOnly
  BY <1>3 DEF OwnScriptOnly
<1>10. QED
  BY <1>7, <1>8, <1>9 DEF IInv

\* A switch that was refused asks again, and starts new histories.
LEMMA AskInv == IInv /\ Ask => IInv'
<1> SUFFICES ASSUME IInv, Ask PROVE IInv'
  OBVIOUS
<1>1. req.addr \in Addr /\ data \in [ConfigMap -> Content]
      /\ ref \in [Switch -> ConfigMap \cup {None}]
  BY DEF IInv, TypeOK, Requests
<1>2. /\ req' \in Requests /\ req'.pc = "match" /\ req'.addr = req.addr
      /\ req'.status = "none"
  BY <1>1, ArrivesType DEF Ask
<1>3. UNCHANGED <<mode, src, ref, data, renders, events>>
  BY DEF Ask, objects
<1>4. sole' = Named(req.addr) /\ Named(req.addr)' = Named(req.addr)
  BY <1>2, <1>3 DEF Ask, Named, SoleOf
<1>5. seen' \in [ConfigMap -> SUBSET Content] /\ \A k \in ConfigMap : data'[k] \in seen'[k]
  BY <1>1, <1>3 DEF Ask
<1>6. TypeOK'
  BY <1>1, <1>2, <1>3, <1>4, <1>5, NamedType DEF IInv, TypeOK
<1>7. Known'
  BY <1>2, <1>4, <1>5 DEF Known
<1>8. OwnScriptOnly'
  BY <1>2 DEF OwnScriptOnly
<1>9. QED
  BY <1>6, <1>7, <1>8 DEF IInv

\* A step that changes the request only, and neither its address nor what it
\* may be answered.
LEMMA RequestInv ==
  ASSUME IInv, UNCHANGED <<mode, objects, sole, seen>>, events' \in 0..MaxEvents,
         req' \in Requests, req'.addr = req.addr, req'.pc # "match",
         req'.pc = "script" => req'.status = "none" /\ <<req'.sw, req'.ref>> \in sole,
         req'.status = "ok" /\ mode = "configmap" => req'.ref \in ConfigMap,
         OwnScriptOnly'
  PROVE  IInv'
<1>1. UNCHANGED <<src, ref, data, renders>>
  BY DEF objects
<1>2. TypeOK'
  BY <1>1 DEF IInv, TypeOK
<1>3. Named(req.addr)' = Named(req.addr)
  BY <1>1 DEF Named, SoleOf
<1>4. Known'
  BY <1>1, <1>3 DEF IInv, Known
<1>5. QED
  BY <1>2, <1>4 DEF IInv

\* Refusing is always allowed.
LEMMA ErrorInv ==
  ASSUME IInv, UNCHANGED <<mode, objects, sole, seen>>, events' \in 0..MaxEvents,
         Answer("error", None)
  PROVE  IInv'
<1>1. /\ req' \in Requests /\ req'.addr = req.addr /\ req'.pc = "done"
      /\ req'.status = "error"
  BY Zenon DEF Answer, Requests, IInv, TypeOK
<1>2. OwnScriptOnly'
  BY <1>1 DEF OwnScriptOnly
<1>3. QED
  BY <1>1, <1>2, RequestInv

\* The Switch that matches is alone with the address.
LEMMA MatchInv == IInv /\ MatchingSwitch => IInv'
<1> SUFFICES ASSUME IInv, MatchingSwitch PROVE IInv'
  OBVIOUS
<1>1. UNCHANGED <<mode, objects, sole, seen>> /\ events' \in 0..MaxEvents
  BY DEF MatchingSwitch, IInv, TypeOK
<1>2. ASSUME NEW s \in Switch, \A t \in Switch : src[t] # "invalid",
             {t \in Switch : src[t] = req.addr} = {s}, Matched(s)
      PROVE  IInv'
  <2>1. s \in SoleOf(req.addr)
    <3>1. {t \in Switch : src[t] \in {req.addr, "invalid"}} = {s} /\ src[s] = req.addr
      BY <1>2
    <3>2. QED
      BY <3>1 DEF SoleOf
  <2>2. <<s, ref[s]>> \in sole
    BY <2>1 DEF IInv, Known, Named
  <2>3. req \in Requests /\ req.status = "none" /\ ref[s] \in ConfigMap \cup {None}
    BY DEF IInv, TypeOK, Known, MatchingSwitch
  <2>4. /\ req' \in Requests /\ req'.addr = req.addr /\ req'.pc = "script"
        /\ req'.status = "none" /\ req'.sw = s /\ req'.ref = ref[s]
    <3>1. (s \in renders) \in BOOLEAN
      OBVIOUS
    <3>2. QED
      BY <1>2, <2>3, <3>1, Zenon DEF Matched, Requests
  <2>5. OwnScriptOnly'
    BY <2>4 DEF OwnScriptOnly
  <2>6. QED
    BY <1>1, <2>2, <2>4, <2>5, RequestInv
<1>3. CASE Answer("error", None)
  BY <1>1, <1>3, ErrorInv
<1>4. QED
  BY <1>2, <1>3 DEF MatchingSwitch

\* The ConfigMap is read after the List, and its content is among those seen.
LEMMA ConfigMapInv == IInv /\ ServeConfigMap => IInv'
<1> SUFFICES ASSUME IInv, ServeConfigMap PROVE IInv'
  OBVIOUS
<1>1. UNCHANGED <<mode, objects, sole, seen>> /\ events' \in 0..MaxEvents
  BY DEF ServeConfigMap, IInv, TypeOK
<1>2. CASE Found(Script) /\ Answer("ok", data[req.ref])
  <2>1. req \in Requests /\ req.ref \in ConfigMap /\ mode = "configmap"
    BY <1>2 DEF IInv, TypeOK, Found, Requests, ServeConfigMap
  <2>2. data[req.ref] \in Script /\ data[req.ref] \in seen[req.ref]
        /\ <<req.sw, req.ref>> \in sole
    BY <1>2, <2>1 DEF Found, IInv, Known, ServeConfigMap
  <2>3. /\ req' \in Requests /\ req'.addr = req.addr /\ req'.pc = "done"
        /\ req'.sw = req.sw /\ req'.ref = req.ref /\ req'.body = data[req.ref]
    BY <1>2, <2>1, <2>2, Zenon DEF Answer, Requests
  <2>4. OwnScriptOnly'
    BY <1>1, <2>1, <2>2, <2>3 DEF OwnScriptOnly
  <2>5. QED
    BY <1>1, <2>1, <2>3, <2>4, RequestInv
<1>3. CASE Answer("error", None)
  BY <1>1, <1>3, ErrorInv
<1>4. QED
  BY <1>2, <1>3 DEF ServeConfigMap

\* Generated mode renders the copy of the Switch that the List returned.
LEMMA GeneratedInv == IInv /\ ServeGenerated => IInv'
<1> SUFFICES ASSUME IInv, ServeGenerated PROVE IInv'
  OBVIOUS
<1>1. UNCHANGED <<mode, objects, sole, seen>> /\ events' \in 0..MaxEvents
  BY DEF ServeGenerated, IInv, TypeOK
<1>2. CASE Answer("ok", "generated")
  <2>1. req \in Requests /\ mode = "generated" /\ <<req.sw, req.ref>> \in sole
    BY DEF IInv, TypeOK, Known, ServeGenerated
  <2>2. /\ req' \in Requests /\ req'.addr = req.addr /\ req'.pc = "done"
        /\ req'.sw = req.sw /\ req'.ref = req.ref /\ req'.body = "generated"
    BY <1>2, <2>1, Zenon DEF Answer, Requests
  <2>3. OwnScriptOnly'
    BY <1>1, <2>1, <2>2 DEF OwnScriptOnly
  <2>4. QED
    BY <1>1, <2>1, <2>2, <2>3, RequestInv
<1>3. CASE Answer("error", None)
  BY <1>1, <1>3, ErrorInv
<1>4. QED
  BY <1>2, <1>3 DEF ServeGenerated

\* An edit adds to the histories and takes nothing from them.
LEMMA EditInv == IInv /\ Edit => IInv'
<1> SUFFICES ASSUME IInv, Edit PROVE IInv'
  OBVIOUS
<1>1. /\ src' \in [Switch -> Source] /\ ref' \in [Switch -> ConfigMap \cup {None}]
      /\ data' \in [ConfigMap -> Content] /\ renders' \subseteq Switch
  BY DEF Edit, IInv, TypeOK
<1>2. UNCHANGED <<mode, req>> /\ events' \in 0..MaxEvents
  BY DEF Edit, Event, IInv, TypeOK
<1>3. sole' = sole \cup Named(req.addr)'
  BY DEF Edit
<1>4. /\ seen' \in [ConfigMap -> SUBSET Content]
      /\ \A k \in ConfigMap : seen[k] \subseteq seen'[k] /\ data'[k] \in seen'[k]
  BY <1>1 DEF Edit, IInv, TypeOK
<1>5. Named(req.addr)' \subseteq Switch \X (ConfigMap \cup {None})
  BY <1>1 DEF Named, SoleOf
<1>6. TypeOK'
  BY <1>1, <1>2, <1>3, <1>4, <1>5 DEF IInv, TypeOK
<1>7. Known'
  BY <1>2, <1>3, <1>4 DEF IInv, Known
<1>8. OwnScriptOnly'
  BY <1>2, <1>3, <1>4 DEF IInv, Known, OwnScriptOnly
<1>9. QED
  BY <1>6, <1>7, <1>8 DEF IInv

\* Every step of server, switch and users preserves it.
LEMMA ZtpNext == IInv /\ [Next]_vars => IInv'
<1> SUFFICES ASSUME IInv, [Next]_vars PROVE IInv'
  OBVIOUS
<1>1. CASE APIFails
  <2>1. UNCHANGED <<mode, objects, sole, seen>> /\ events' \in 0..MaxEvents
    BY <1>1 DEF APIFails, Event, IInv, TypeOK
  <2>2. QED
    BY <1>1, <2>1, ErrorInv DEF APIFails
<1>2. CASE UNCHANGED vars
  <2>1. UNCHANGED <<mode, src, ref, data, renders, events, req, sole, seen>>
    BY <1>2 DEF vars, objects
  <2>2. TypeOK' /\ OwnScriptOnly'
    BY <2>1 DEF IInv, TypeOK, OwnScriptOnly
  <2>3. Known'
    BY <2>1 DEF IInv, Known, Named, SoleOf
  <2>4. QED
    BY <2>2, <2>3 DEF IInv
<1>3. QED
  BY <1>1, <1>2, AskInv, MatchInv, ConfigMapInv, GeneratedInv, EditInv DEF Next, Serve

\* What the requests know holds throughout.
THEOREM ZtpInvariant == Spec => []IInv
  BY ZtpInit, ZtpNext, PTL DEF Spec

\* Whatever users edit and whichever API calls fail, requests, histories and
\* answers keep their types.
THEOREM ZtpTypeOK == Spec => []TypeOK
<1>1. IInv => TypeOK
  BY DEF IInv
<1>2. QED
  BY <1>1, ZtpInvariant, PTL

\* A switch gets a script only of the one Switch with its address, verbatim
\* from the ConfigMap that Switch named, for any number of objects and edits.
THEOREM ServesOwnScriptOnly == Spec => []OwnScriptOnly
<1>1. IInv => OwnScriptOnly
  BY DEF IInv
<1>2. QED
  BY <1>1, ZtpInvariant, PTL
-----------------------------------------------------------------------------
\* After the first entries, an unknown machine has none among them, and a known
\* one has the last of its vendor.
LastRegistered ==
  \A m \in Machine :
    IF images[m] = NoName
    THEN \A i \in 1..registered : config[i].vendor # m
    ELSE \E i \in 1..registered :
           /\ images[m] = config[i] /\ config[i].vendor = m
           /\ \A j \in 1..registered : j > i => config[j].vendor # m

\* Requests wait for the last entry; files are lost from the directory, not
\* from the history.
OnieKnown ==
  /\ download # NoName => registered = Len(config)
  /\ download = NoName => reply = Pending
  /\ dir \subseteq had

OnieIInv == OnieTypeOK /\ LastRegistered /\ OnieKnown /\ OwnImageOnly

\* The entries of onie.json as a sequence.
LEMMA ConfigIsSeq ==
  ASSUME config \in Configs
  PROVE  Len(config) \in Nat /\ DOMAIN config = 1..Len(config)
         /\ \A i \in 1..Len(config) : config[i] \in OnieImage
<1>1. PICK n \in 0..MaxEntries : config \in [1..n -> OnieImage]
  BY DEF Configs
<1>2. n \in Nat
  BY <1>1, OnieAssumption
<1>3. config \in Seq(OnieImage)
  BY <1>1, <1>2
<1>4. Len(config) = n
  BY <1>1, <1>2, <1>3
<1>5. QED
  BY <1>1, <1>2, <1>4

\* What can be opened in the directory is a file, or the directory.
LEMMA NamesOfDirs == \A D \in Dirs : D \subseteq File \cup {NoName}
  BY DEF Dirs

\* Nothing is registered at first.
LEMMA OnieInitInv == OnieInit => OnieIInv
<1> SUFFICES ASSUME OnieInit PROVE OnieIInv
  OBVIOUS
<1>1. Len(config) \in Nat /\ registered \in 0..Len(config)
  BY ConfigIsSeq DEF OnieInit
<1>2. Pending \in Replies /\ Pending.status = 0 /\ Pending.file = NoName
  BY DEF Pending, Replies
<1>3. OnieTypeOK
  BY <1>1, <1>2, NamesOfDirs, OnieAssumption DEF OnieInit, OnieTypeOK
<1>4. LastRegistered
  BY DEF OnieInit, LastRegistered
<1>5. OnieKnown /\ OwnImageOnly
  BY <1>2 DEF OnieInit, OnieKnown, OwnImageOnly
<1>6. QED
  BY <1>3, <1>4, <1>5 DEF OnieIInv

\* The last entry so far is the last of its vendor.
LEMMA RegisterInv == OnieIInv /\ Register => OnieIInv'
<1> SUFFICES ASSUME OnieIInv, Register PROVE OnieIInv'
  OBVIOUS
<1> DEFINE k == registered + 1
<1>1. /\ Len(config) \in Nat /\ registered \in Nat /\ k \in 1..Len(config)
      /\ config[k] \in OnieImage /\ config[k].vendor \in Machine
      /\ config[k] # NoName
  BY ConfigIsSeq, OnieAssumption DEF OnieIInv, OnieTypeOK, Register, OnieImage
<1>2. /\ registered' = k /\ images' = [images EXCEPT ![config[k].vendor] = config[k]]
      /\ UNCHANGED <<config, dir, changes, download, reply, had>>
  BY DEF Register
<1>3. OnieTypeOK'
  BY <1>1, <1>2 DEF OnieIInv, OnieTypeOK
<1>4. LastRegistered'
  <2> SUFFICES ASSUME NEW m \in Machine
               PROVE  IF images'[m] = NoName
                      THEN \A i \in 1..k : config[i].vendor # m
                      ELSE \E i \in 1..k :
                             /\ images'[m] = config[i] /\ config[i].vendor = m
                             /\ \A j \in 1..k : j > i => config[j].vendor # m
    BY <1>2 DEF LastRegistered
  <2>1. CASE m = config[k].vendor
    BY <1>1, <1>2, <2>1 DEF OnieIInv, OnieTypeOK
  <2>2. CASE m # config[k].vendor
    <3>1. images'[m] = images[m]
      BY <1>1, <1>2, <2>2 DEF OnieIInv, OnieTypeOK
    <3>2. CASE images[m] = NoName
      BY <1>1, <2>2, <3>1, <3>2 DEF OnieIInv, LastRegistered
    <3>3. CASE images[m] # NoName
      <4>1. PICK i \in 1..registered :
              /\ images[m] = config[i] /\ config[i].vendor = m
              /\ \A j \in 1..registered : j > i => config[j].vendor # m
        BY <3>3 DEF OnieIInv, LastRegistered
      <4>2. i \in 1..k /\ \A j \in 1..k : j > i => config[j].vendor # m
        BY <1>1, <2>2, <4>1
      <4>3. QED
        BY <3>1, <3>3, <4>1, <4>2
    <3>4. QED
      BY <3>2, <3>3
  <2>3. QED
    BY <2>1, <2>2
<1>5. download = NoName
  BY DEF OnieIInv, OnieKnown, Register, OnieTypeOK
<1>6. OnieKnown'
  BY <1>2, <1>5 DEF OnieIInv, OnieKnown
<1>7. reply' = Pending
  BY <1>2, <1>5 DEF OnieIInv, OnieKnown
<1>8. OwnImageOnly'
  BY <1>7 DEF OwnImageOnly, Pending
<1>9. QED
  BY <1>3, <1>4, <1>6, <1>8 DEF OnieIInv

\* Once every entry is registered, the map holds what onie.json says.
LEMMA RegisteredEntry ==
  ASSUME OnieTypeOK, LastRegistered, registered = Len(config),
         NEW m \in Machine, images[m] # NoName
  PROVE  /\ \E i \in DOMAIN config : config[i].vendor = m
         /\ images[m] = Entry(m)
<1>1. /\ Len(config) \in Nat /\ DOMAIN config = 1..Len(config)
  BY ConfigIsSeq DEF OnieTypeOK
<1>2. PICK i \in 1..registered :
        /\ images[m] = config[i] /\ config[i].vendor = m
        /\ \A j \in 1..registered : j > i => config[j].vendor # m
  BY DEF LastRegistered
<1> DEFINE at == {j \in DOMAIN config : config[j].vendor = m}
<1>3. i \in at /\ \A j \in at : j <= i
  BY <1>1, <1>2
<1>4. at \subseteq Nat
  BY <1>1
<1>5. \A l \in at : (\A j \in at : j <= l) => l = i
  BY <1>3, <1>4
<1>6. (CHOOSE l \in at : \A j \in at : j <= l) = i
  <2> HIDE DEF at
  <2> QED BY <1>3, <1>5
<1>7. Entry(m) = config[i]
  BY <1>6 DEF Entry
<1>8. QED
  BY <1>1, <1>2, <1>7

\* An answer without content, whatever the reason.
LEMMA RefusedInv ==
  ASSUME OnieIInv, download # NoName, NEW s \in {400, 404},
         reply' = [status |-> s, file |-> NoName],
         UNCHANGED <<config, registered, images, dir, changes, download, had>>
  PROVE  OnieIInv'
<1>1. reply' \in Replies /\ reply'.status # 200 /\ reply'.file = NoName
  BY DEF Replies
<1>2. OnieTypeOK' /\ OwnImageOnly'
  BY <1>1 DEF OnieIInv, OnieTypeOK, OwnImageOnly
<1>3. LastRegistered' /\ OnieKnown'
  BY DEF OnieIInv, LastRegistered, OnieKnown
<1>4. QED
  BY <1>2, <1>3 DEF OnieIInv

\* What is served is the file of the machine's entry.
LEMMA ServeHTTPInv == OnieIInv /\ ServeHTTP => OnieIInv'
<1> SUFFICES ASSUME OnieIInv, ServeHTTP PROVE OnieIInv'
  OBVIOUS
<1> DEFINE m == download.machine
           file == LookedUp(images[m], download.operation)
<1>1. /\ UNCHANGED <<config, registered, images, dir, changes, download, had>>
      /\ download # NoName /\ m \in Machine /\ registered = Len(config)
  BY DEF ServeHTTP, OnieIInv, OnieTypeOK, OnieKnown, Downloads
<1>2. CASE images[m] = NoName /\ reply' = [status |-> 404, file |-> NoName]
  BY <1>1, <1>2, RefusedInv
<1>3. CASE reply' = [status |-> 400, file |-> NoName]
  BY <1>1, <1>3, RefusedInv
<1>4. CASE images[m] # NoName /\ FileServer(file)
  <2>1. /\ \E i \in DOMAIN config : config[i].vendor = m
        /\ images[m] = Entry(m)
    BY <1>1, <1>4, RegisteredEntry DEF OnieIInv
  <2>2. images[m] \in OnieImage /\ file \in File \cup {NoName}
    BY <1>1, <1>4 DEF OnieIInv, OnieTypeOK, OnieImage, LookedUp
  <2>3. file = LookedUp(Entry(m), download.operation) /\ Entry(m)' = Entry(m)
    BY <1>1, <2>1 DEF Entry
  <2>4. CASE file \in dir
    <3>1. reply' = [status |-> 200, file |-> Body(file)]
      BY <1>4, <2>4 DEF FileServer
    <3>2. Body(file) \in File \cup {"listing"} /\ Body(file) # NoName
      BY <2>2, OnieAssumption DEF Body
    <3>3. reply' \in Replies /\ reply'.status = 200 /\ reply'.file = Body(file)
      BY <3>1, <3>2 DEF Replies
    <3>4. OnieTypeOK'
      BY <1>1, <3>2, <3>3 DEF OnieIInv, OnieTypeOK
    <3>5. OwnImageOnly'
      <4>1. file \in had
        BY <2>4 DEF OnieIInv, OnieKnown
      <4>2. QED
        BY <1>1, <2>1, <2>3, <3>3, <4>1 DEF OwnImageOnly
    <3>6. LastRegistered' /\ OnieKnown'
      BY <1>1 DEF OnieIInv, LastRegistered, OnieKnown
    <3>7. QED
      BY <3>4, <3>5, <3>6 DEF OnieIInv
  <2>5. CASE file \notin dir
    BY <1>1, <1>4, <2>5, RefusedInv DEF FileServer
  <2>6. QED
    BY <2>4, <2>5
<1>5. QED
  BY <1>2, <1>3, <1>4 DEF ServeHTTP

\* Every step of the server, its machines and its directory preserves it.
LEMMA OnieNextInv == OnieIInv /\ [OnieNext]_onieVars => OnieIInv'
<1> SUFFICES ASSUME OnieIInv, [OnieNext]_onieVars PROVE OnieIInv'
  OBVIOUS
<1>1. CASE NotFound
  BY <1>1, RefusedInv DEF NotFound
<1>2. ASSUME NEW r \in Downloads, Get(r) PROVE OnieIInv'
  <2>1. Pending \in Replies /\ Pending.status = 0 /\ Pending.file = NoName
    BY DEF Pending, Replies
  <2>2. r # NoName
    BY OnieAssumption
  <2>3. QED
    BY <1>2, <2>1, <2>2, NamesOfDirs DEF Get, OnieIInv, OnieTypeOK, LastRegistered, OnieKnown,
                            OwnImageOnly
<1>3. CASE DirChanges
  <2>1. /\ UNCHANGED <<config, registered, images, download, reply>>
        /\ dir' \in Dirs /\ changes' \in 0..MaxChanges
        /\ had' = had \cup dir' /\ had \subseteq File \cup {NoName}
    BY <1>3, OnieAssumption DEF DirChanges, OnieIInv, OnieTypeOK
  <2>2. OnieTypeOK' /\ LastRegistered' /\ OnieKnown'
    BY <2>1, NamesOfDirs DEF OnieIInv, OnieTypeOK, LastRegistered, OnieKnown
  <2>3. OwnImageOnly'
    BY <2>1 DEF OnieIInv, OwnImageOnly, Entry
  <2>4. QED
    BY <2>2, <2>3 DEF OnieIInv
<1>4. CASE UNCHANGED onieVars
  BY <1>4 DEF onieVars, OnieIInv, OnieTypeOK, LastRegistered, OnieKnown,
              OwnImageOnly, Entry
<1>5. QED
  BY <1>1, <1>2, <1>3, <1>4, RegisterInv, ServeHTTPInv DEF OnieNext

\* What the handler's map holds, registration after registration.
THEOREM OnieInvariant == OnieSpec => []OnieIInv
  BY OnieInitInv, OnieNextInv, PTL DEF OnieSpec

\* For any onie.json and any directory, content goes with 200 and no other
\* status, and every answer keeps its type.
THEOREM OnieTypes == OnieSpec => []OnieTypeOK
<1>1. OnieIInv => OnieTypeOK
  BY DEF OnieIInv
<1>2. QED
  BY <1>1, OnieInvariant, PTL

\* A machine gets the file that the last entry of its vendor names for the
\* operation it asks for, and no other, for any number of entries, requests and
\* changes of the directory.
THEOREM ServesOwnImageOnly == OnieSpec => []OwnImageOnly
<1>1. OnieIInv => OwnImageOnly
  BY DEF OnieIInv
<1>2. QED
  BY <1>1, OnieInvariant, PTL
=============================================================================
