---------------------------------- MODULE Ztp ----------------------------------
(***************************************************************************)
(* GET /ztp of the provisioning server.  The server keeps no state; a      *)
(* request lists the Switches and then reads the ConfigMap or renders,     *)
(* while users edit the objects.  A switch that got no script asks again.  *)
(***************************************************************************)
EXTENDS Naturals

CONSTANTS Switch, ConfigMap,  \* names of objects
          Addr,               \* source addresses of requests
          None,               \* no address, reference or answer
          MaxEvents           \* bound: edits of users and failed API calls

ASSUME ZtpAssumption ==
  /\ MaxEvents \in Nat /\ ConfigMap # {}
  /\ None \notin Switch \cup Addr \cup ConfigMap /\ "invalid" \notin Addr

\* spec.ztp is absent, or its address may not parse.
Source == Addr \cup {None, "invalid"}
\* A ConfigMap is missing, lacks the key, or has a version of the script.
Script == {"v1", "v2"}
Content == Script \cup {"missing", "no key"}

VARIABLES mode,     \* --ztp-mode
          src, ref, \* per Switch: its source address and its scriptRef
          data,     \* per ConfigMap: its content
          renders,  \* Switches that generated mode can render (see ZtpScript)
          events,
          req,      \* the request under way, with the Switch it matched
          sole,     \* history: Switches, with their scriptRef, that alone had
                    \* its address, no address being invalid, since it arrived
          seen      \* history: what each ConfigMap has held since

objects == <<src, ref, data, renders>>
vars == <<mode, objects, events, req, sole, seen>>

Requests == [pc : {"match", "script", "done"}, addr : Addr,
             sw : Switch \cup {None}, ref : ConfigMap \cup {None}, good : BOOLEAN,
             status : {"none", "ok", "error"}, body : Script \cup {"generated", None}]

\* Type invariant: whatever is served is a script.
TypeOK ==
  /\ mode \in {"configmap", "generated"}
  /\ src \in [Switch -> Source] /\ ref \in [Switch -> ConfigMap \cup {None}]
  /\ data \in [ConfigMap -> Content] /\ renders \subseteq Switch
  /\ events \in 0..MaxEvents /\ req \in Requests
  /\ sole \subseteq Switch \X (ConfigMap \cup {None})
  /\ seen \in [ConfigMap -> SUBSET Content]

Event == events < MaxEvents /\ events' = events + 1

SoleOf(a) == {s \in Switch : {t \in Switch : src[t] \in {a, "invalid"}} = {s} /\ src[s] = a}
Named(a) == {<<s, ref[s]>> : s \in SoleOf(a)}

Arrives(a) == [pc |-> "match", addr |-> a, sw |-> None, ref |-> None,
               good |-> FALSE, status |-> "none", body |-> None]
Answer(status, body) ==
  req' = [req EXCEPT !.pc = "done", !.status = status, !.body = body]

Init ==
  /\ mode \in {"configmap", "generated"}
  /\ src \in [Switch -> Source] /\ ref \in [Switch -> ConfigMap \cup {None}]
  /\ data \in [ConfigMap -> {"missing", "v1"}] /\ renders \in {{}, Switch}
  /\ events = 0
  /\ \E a \in Addr : req = Arrives(a) /\ sole = Named(a)
  /\ seen = [k \in ConfigMap |-> {data[k]}]

Ask ==
  /\ req.pc = "done" /\ req.status = "error"
  /\ req' = Arrives(req.addr)
  /\ sole' = Named(req.addr) /\ seen' = [k \in ConfigMap |-> {data[k]}]
  /\ UNCHANGED <<mode, objects, events>>

\* The request goes on with its copy of the Switch.
Matched(s) == req' = [req EXCEPT !.pc = "script", !.sw = s, !.ref = ref[s],
                                 !.good = s \in renders]

\* Mutant: the first Switch with the address wins.
FirstMatch ==
  /\ req.pc = "match"
  /\ \/ \E s \in Switch : src[s] = req.addr
          /\ Matched(s)
     \/ (\A s \in Switch : src[s] # req.addr) /\ Answer("error", None)
  /\ UNCHANGED <<mode, objects, events, sole, seen>>

\* One List call.  An invalid address of any Switch, a second match or none at
\* all is an error.
MatchingSwitch ==
  /\ req.pc = "match"
  /\ \/ /\ \A s \in Switch : src[s] # "invalid"
        /\ \E s \in Switch : {t \in Switch : src[t] = req.addr} = {s} /\ Matched(s)
     \/ /\ \/ \E s \in Switch : src[s] = "invalid"
           \/ \E s, t \in Switch : s # t /\ src[s] = req.addr /\ src[t] = req.addr
           \/ \A s \in Switch : src[s] # req.addr
        /\ Answer("error", None)
  /\ UNCHANGED <<mode, objects, events, sole, seen>>

\* The ConfigMap that the listed Switch named is there with such a content.
Found(contents) == req.ref # None /\ data[req.ref] \in contents

\* Mutant: the key is not looked for.
GetWithoutKey ==
  /\ mode = "configmap" /\ req.pc = "script"
  /\ \/ Found(Content \ {"missing"}) /\ Answer("ok", data[req.ref])
     \/ ~Found(Content \ {"missing"}) /\ Answer("error", None)
  /\ UNCHANGED <<mode, objects, events, sole, seen>>

ServeConfigMap ==
  /\ mode = "configmap" /\ req.pc = "script"
  /\ \/ Found(Script) /\ Answer("ok", data[req.ref])
     \/ ~Found(Script) /\ Answer("error", None)
  /\ UNCHANGED <<mode, objects, events, sole, seen>>

\* Mutant: generated mode asks for a scriptRef too.
GeneratedNeedsRef ==
  /\ mode = "generated" /\ req.pc = "script"
  /\ \/ req.good /\ req.ref # None /\ Answer("ok", "generated")
     \/ (~req.good \/ req.ref = None) /\ Answer("error", None)
  /\ UNCHANGED <<mode, objects, events, sole, seen>>

ServeGenerated ==
  /\ mode = "generated" /\ req.pc = "script"
  /\ \/ req.good /\ Answer("ok", "generated")
     \/ ~req.good /\ Answer("error", None)
  /\ UNCHANGED <<mode, objects, events, sole, seen>>

\* Users change an address, a reference, a ConfigMap or the rest of a Switch.
Edit ==
  /\ Event
  /\ \/ /\ \E s \in Switch, a \in Source : src' = [src EXCEPT ![s] = a]
        /\ UNCHANGED <<ref, data, renders>>
     \/ /\ \E s \in Switch, k \in ConfigMap \cup {None} : ref' = [ref EXCEPT ![s] = k]
        /\ UNCHANGED <<src, data, renders>>
     \/ /\ \E k \in ConfigMap, c \in Content : data' = [data EXCEPT ![k] = c]
        /\ UNCHANGED <<src, ref, renders>>
     \/ renders' = Switch \ renders /\ UNCHANGED <<src, ref, data>>
  /\ UNCHANGED <<mode, req>>
  /\ sole' = sole \cup Named(req.addr)'
  /\ seen' = [k \in ConfigMap |-> seen[k] \cup {data'[k]}]

\* The List or the Get fails.
APIFails ==
  /\ req.pc = "match" \/ (req.pc = "script" /\ mode = "configmap" /\ req.ref # None)
  /\ Event /\ Answer("error", None)
  /\ UNCHANGED <<mode, objects, sole, seen>>

Serve == MatchingSwitch \/ ServeConfigMap \/ ServeGenerated \/ APIFails

Next == Ask \/ Serve \/ Edit

Spec == Init /\ [][Next]_vars

\* The server answers, and the switch keeps asking.
FairSpec == Spec /\ WF_vars(Serve) /\ WF_vars(Ask)

-----------------------------------------------------------------------------
\* "configmap mode must fail closed" (ztp.go:38): a switch gets a script only
\* of the one Switch that had its address while it was asking, in configmap
\* mode verbatim from the ConfigMap that Switch named; edits between the List
\* and the Get never mix up two Switches or two references.
OwnScriptOnly ==
  req.status = "ok" =>
    /\ <<req.sw, req.ref>> \in sole
    /\ mode = "configmap" => req.body \in seen[req.ref]
    /\ mode = "generated" => req.body = "generated"

\* The Switch is set up, and so are all others.
SetUp(a) == \E s \in SoleOf(a) : IF mode = "generated" THEN s \in renders
                                 ELSE ref[s] # None /\ data[ref[s]] \in Script

\* No mistake sticks: once the objects are right and stay so, a switch that
\* keeps asking is served, whatever it was told before.
ServedInTheEnd == <>[]SetUp(req.addr) => <>(req.status = "ok")
=============================================================================
