---------------------------- MODULE NameConversion ----------------------------
(***************************************************************************)
(* The two names of a port: the native one SONiC uses (Ethernet6) and the  *)
(* abstract one that is a SwitchInterface's handle (eth1-2).  A name is    *)
(* converted at several places on its way to the databases; the module     *)
(* follows one name along every such way.                                  *)
(***************************************************************************)
EXTENDS Integers, TLAPS

CONSTANTS PortNum,  \* numbers of native and of abstract names
          VPort     \* numbers after the dash of an abstract name

ASSUME NameConversionAssumption == PortNum \subseteq Nat /\ VPort \subseteq Nat

\* Sscanf reads a number with or without a minus sign.
Signed(S) == S \cup {-n : n \in S}

\* What Sscanf makes of a name.  It stops after the last number of its format,
\* so a name may spell its numbers inexactly: a loose one has leading zeros, a
\* plus sign or a tail (Ethernet05, Ethernet4.100, eth1-2x).  A garbled one has
\* the prefix without the numbers, and "other" has neither prefix.
Form == {"exact", "loose", "garbled"}
Native(n) == [prefix |-> "Ethernet", form |-> "exact", port |-> n, vport |-> 0]
Abstract(p, v) == [prefix |-> "eth", form |-> "exact", port |-> p, vport |-> v]
Loose(nm) == [nm EXCEPT !.form = "loose"]
Garbled(pre) == [prefix |-> pre, form |-> "garbled", port |-> 0, vport |-> 0]

Names == [prefix : {"Ethernet", "eth", "other"}, form : Form,
          port : Int, vport : Int]
Exact == {Native(n) : n \in Signed(PortNum)}
         \cup {Abstract(p, v) : p \in Signed(PortNum), v \in Signed(VPort)}
Given == Exact \cup {Loose(nm) : nm \in Exact}
         \cup {Garbled(pre) : pre \in {"Ethernet", "eth", "other"}}

VARIABLES given,  \* the name a user, the manager or the PORT table gave
          name,   \* what has become of it
          pc      \* where it goes next

vars == <<given, name, pc>>

\* What a name denotes: the number of the native name.
Denotes(nm) == IF nm.prefix = "eth" THEN 4 * nm.port + nm.vport ELSE nm.port

Natural(nm) == nm.port >= 0 /\ nm.vport >= 0

\* Type invariant: conversions make no negative number out of natural ones.
TypeOK == /\ given \in Names /\ name \in Names
          /\ Natural(given) => Natural(name)
          /\ pc \in {"list", "cli", "client", "agent", "redis", "error"}

\* The PORT table is keyed by native names; setting the alias of a loose one
\* puts that one there too.
Init == /\ given \in Given /\ name = given
        /\ pc \in {"list", "cli", "client", "agent"}
        /\ pc = "list" => given.prefix = "Ethernet"

\* Go's division truncates, and the remainder has the sign of the dividend.
Quot(n) == IF n >= 0 THEN n \div 4 ELSE -((-n) \div 4)
Rem(n) == IF n >= 0 THEN n % 4 ELSE -((-n) % 4)

\* Mutant: the number of the port is rounded up.
RoundedUp(nm) ==
  LET q == (nm.port + 3) \div 4 IN Abstract(q, nm.port - 4 * q)

\* Mutant: the number of lanes is taken to be eight.
EightLanes(nm) == Abstract(nm.port \div 8, nm.port % 4)

IsNative(nm) == nm.prefix = "Ethernet" /\ nm.form # "garbled"
NativeNameToAbstractName(nm) == Abstract(Quot(nm.port), Rem(nm.port))

IsAbstract(nm) == nm.prefix = "eth" /\ nm.form # "garbled"
AbstractNameToNativeName(nm) == Native(4 * nm.port + nm.vport)

\* One conversion, or the error return.
Convert(ok, to, next) ==
  /\ \/ ok /\ name' = to /\ pc' = next
     \/ ~ok /\ name' = name /\ pc' = "error"
  /\ UNCHANGED given

\* ListInterfaces publishes a key of the PORT table as a handle, which the
\* manager gives to its client, or to the agent when it sets the alias.
Publish ==
  /\ pc = "list"
  /\ \E next \in {"client", "agent"} :
       Convert(IsNative(name), NativeNameToAbstractName(name), next)

\* The command line takes either form and gives its client an abstract name.
\* (Other prefixes skip the request; no name reaches the agent.)
RunGetInterface ==
  /\ pc = "cli"
  /\ \/ /\ name.prefix = "Ethernet"
        /\ Convert(IsNative(name), NativeNameToAbstractName(name), "client")
     \/ /\ name.prefix # "Ethernet"
        /\ Convert(name.prefix = "eth", name, "client")

\* Here other prefixes are refused, and the client passes the name on as it is.
RunGetInterfaceNeighbors ==
  /\ pc = "cli"
  /\ \/ /\ name.prefix = "Ethernet"
        /\ Convert(IsNative(name), NativeNameToAbstractName(name), "agent")
     \/ /\ name.prefix # "Ethernet"
        /\ Convert(name.prefix = "eth", name, "agent")

\* Setting the status leaves every check of the name to the agent.
RunSetInterfaceStatus == pc = "cli" /\ pc' = "agent" /\ UNCHANGED <<given, name>>

\* The client accepts abstract names only.
GetInterfaceByAbstractName ==
  /\ pc = "client"
  /\ Convert(IsAbstract(name), AbstractNameToNativeName(name), "agent")

\* The agent passes every name that begins with Ethernet, garbled or not.
Resolve ==
  /\ pc = "agent"
  /\ \/ /\ name.prefix = "eth"
        /\ Convert(IsAbstract(name), AbstractNameToNativeName(name), "redis")
     \/ /\ name.prefix # "eth"
        /\ Convert(name.prefix = "Ethernet", name, "redis")

Next == \/ Publish \/ RunGetInterface \/ RunGetInterfaceNeighbors
        \/ RunSetInterfaceStatus \/ GetInterfaceByAbstractName \/ Resolve

Spec == Init /\ [][Next]_vars

-----------------------------------------------------------------------------
\* No way leads to another port: the native name that reaches Redis is the
\* one the given name denotes, whether it was published as a handle, typed on
\* the command line in either form or sent to the agent as it is.  Only a name
\* that spells no port exactly may get there unconverted, and is no port's name.
RoutesAgree ==
  pc = "redis" => \/ name = Native(Denotes(given))
                  \/ /\ name = given /\ given.form # "exact"
                     /\ given.prefix = "Ethernet"

\* "Handle uniquely identifies this interface on the switch"
\* (switchinterface_types.go:22): a handle that leads to a port is the one the
\* agent publishes for it.
HandleIsUnique ==
  pc = "redis" /\ given.prefix = "eth" => given = NativeNameToAbstractName(name)

\* The handles the agent publishes for ports with natural numbers.
Published == {Abstract(p, v) : p \in Nat, v \in 0..3}

\* Of the handles the agent can publish, only one leads to each port.
PublishedHandleIsUnique ==
  pc = "redis" /\ given \in Published => given = NativeNameToAbstractName(name)

\* "handle: interface handle on the device (e.g. Ethernet0)"
\* (docs/concepts/resources.md:25, and the sample SwitchInterface): the client
\* finds the interface of a handle in that form.
NativeHandleWorks == IsNative(given) /\ given = name => pc # "error"

\* "<interface-name>" (set_interface_status.go:26, and get_interface.go): the
\* same text names the same port in every command, also when Sscanf makes more
\* of it than the agent does.
LooseNamesAgree ==
  pc = "redis" /\ given.form = "loose" => name = Native(Denotes(given))
-----------------------------------------------------------------------------
\* Quotient and remainder add up again, and are natural for a natural number.
LEMMA Division ==
  ASSUME NEW n \in Int
  PROVE  /\ Quot(n) \in Int /\ Rem(n) \in Int /\ 4 * Quot(n) + Rem(n) = n
         /\ n >= 0 => Quot(n) >= 0 /\ Rem(n) >= 0
<1>1. ASSUME NEW m \in Nat
      PROVE  m \div 4 \in Nat /\ m % 4 \in Nat /\ 4 * (m \div 4) + (m % 4) = m
  OBVIOUS
<1>2. CASE n >= 0
  BY <1>2, <1>1 DEF Quot, Rem
<1>3. CASE n < 0
  <2>1. -n \in Nat
    BY <1>3
  <2>2. (-n) \div 4 \in Nat /\ (-n) % 4 \in Nat /\ 4 * ((-n) \div 4) + ((-n) % 4) = -n
    BY <2>1, <1>1
  <2>3. Quot(n) = -((-n) \div 4) /\ Rem(n) = -((-n) % 4)
    BY <1>3 DEF Quot, Rem
  <2> QED BY <1>3, <2>2, <2>3
<1> QED BY <1>2, <1>3

\* Converting a native name and converting it back gives the exact spelling of
\* the same name, whatever its number.
THEOREM RoundTrip ==
  ASSUME NEW nm \in Names
  PROVE  AbstractNameToNativeName(NativeNameToAbstractName(nm)) = Native(nm.port)
<1>1. 4 * Quot(nm.port) + Rem(nm.port) = nm.port
  BY Division DEF Names
<1> QED BY <1>1 DEF AbstractNameToNativeName, NativeNameToAbstractName, Abstract

\* Along the way the name keeps denoting the port, and is either as it was given
\* or exact.
OnTheWay ==
  /\ Denotes(name) = Denotes(given)
  /\ name = given \/ name.form = "exact"
  /\ name.prefix = "Ethernet" => name.vport = 0
  /\ pc = "redis" => name.prefix = "Ethernet"

IInv == TypeOK /\ OnTheWay

\* A name that has been given denotes itself.
LEMMA NamesInit == Init => IInv
<1> SUFFICES ASSUME Init PROVE IInv
  OBVIOUS
<1>1. ASSUME NEW nm \in Exact
      PROVE  /\ nm \in Names /\ Loose(nm) \in Names
             /\ nm.prefix = "Ethernet" => nm.vport = 0 /\ Loose(nm).vport = 0
             /\ Loose(nm).prefix = nm.prefix
  <2>0. Signed(PortNum) \subseteq Int /\ Signed(VPort) \subseteq Int
    <3>1. ASSUME NEW S, S \subseteq Nat PROVE Signed(S) \subseteq Int
      <4>1. \A n \in S : n \in Int /\ -n \in Int
        BY <3>1
      <4> QED BY <4>1 DEF Signed
    <3> QED BY <3>1, NameConversionAssumption
  <2>1. CASE \E n \in Signed(PortNum) : nm = Native(n)
    BY <2>0, <2>1 DEF Names, Native, Loose, Form
  <2>2. CASE \E p \in Signed(PortNum), v \in Signed(VPort) : nm = Abstract(p, v)
    BY <2>0, <2>2 DEF Names, Abstract, Loose, Form
  <2> QED BY <2>1, <2>2 DEF Exact
<1>2. ASSUME NEW pre \in {"Ethernet", "eth", "other"}
      PROVE  Garbled(pre) \in Names /\ Garbled(pre).vport = 0
  BY DEF Names, Garbled, Form
<1>3. given \in Names /\ (given.prefix = "Ethernet" => given.vport = 0)
  BY <1>1, <1>2 DEF Init, Given
<1> QED BY <1>3 DEF Init, IInv, TypeOK, OnTheWay

\* Publishing a native name, on the agent or on the command line.
LEMMA ToAbstract ==
  ASSUME IInv, NEW next \in {"client", "agent"},
         name.prefix = "Ethernet",
         Convert(IsNative(name), NativeNameToAbstractName(name), next)
  PROVE  IInv'
<1> DEFINE n == name.port
<1>1. CASE IsNative(name)
  <2>1. n \in Int
    BY DEF IInv, TypeOK, Names
  <2>2. /\ Quot(n) \in Int /\ Rem(n) \in Int /\ 4 * Quot(n) + Rem(n) = n
        /\ n >= 0 => Quot(n) >= 0 /\ Rem(n) >= 0
    BY <2>1, Division
  <2>3. name' = [prefix |-> "eth", form |-> "exact", port |-> Quot(n),
                 vport |-> Rem(n)] /\ pc' = next /\ given' = given
    BY <1>1 DEF Convert, NativeNameToAbstractName, Abstract
  <2>4. TypeOK'
    BY <2>2, <2>3 DEF IInv, TypeOK, Names, Form, Natural
  <2>5. Denotes(name') = n /\ Denotes(name) = n
    BY <2>2, <2>3 DEF Denotes
  <2> QED BY <2>3, <2>4, <2>5 DEF IInv, OnTheWay, Denotes
<1>2. CASE ~IsNative(name)
  BY <1>2 DEF Convert, IInv, TypeOK, OnTheWay, Denotes, Natural
<1> QED BY <1>1, <1>2

\* Resolving an abstract name, in the client or on the agent.
LEMMA ToNative ==
  ASSUME IInv, NEW next \in {"agent", "redis"},
         name.prefix = "eth",
         Convert(IsAbstract(name), AbstractNameToNativeName(name), next)
  PROVE  IInv'
<1> DEFINE m == 4 * name.port + name.vport
<1>1. CASE IsAbstract(name)
  <2>1. m \in Int /\ (Natural(name) => m >= 0)
    BY DEF IInv, TypeOK, Names, Natural
  <2>2. name' = Native(m) /\ pc' = next /\ given' = given
    BY <1>1 DEF Convert, AbstractNameToNativeName
  <2>3. TypeOK'
    BY <2>1, <2>2 DEF IInv, TypeOK, Names, Native, Form, Natural
  <2>4. Denotes(name') = m /\ Denotes(name) = m
    BY <2>2 DEF Denotes, Native
  <2> QED BY <2>2, <2>3, <2>4 DEF IInv, OnTheWay, Denotes, Native
<1>2. CASE ~IsAbstract(name)
  BY <1>2 DEF Convert, IInv, TypeOK, OnTheWay, Denotes, Natural
<1> QED BY <1>1, <1>2

\* Every conversion on every route preserves what the name denotes.
LEMMA NamesNext == IInv /\ [Next]_vars => IInv'
<1> SUFFICES ASSUME IInv, [Next]_vars PROVE IInv'
  OBVIOUS
<1>1. CASE Publish
  <2>1. CASE name.prefix = "Ethernet"
    BY <1>1, <2>1, ToAbstract DEF Publish
  <2>2. CASE name.prefix # "Ethernet"
    BY <1>1, <2>2 DEF Publish, Convert, IsNative, IInv, TypeOK, OnTheWay, Denotes, Natural
  <2> QED BY <2>1, <2>2
<1>2. CASE RunGetInterface
  <2>1. CASE name.prefix = "Ethernet"
    BY <1>2, <2>1, ToAbstract DEF RunGetInterface
  <2>2. CASE name.prefix # "Ethernet"
    BY <1>2, <2>2 DEF RunGetInterface, Convert, IInv, TypeOK, OnTheWay, Denotes, Natural
  <2> QED BY <2>1, <2>2
<1>3. CASE GetInterfaceByAbstractName
  <2>1. CASE name.prefix = "eth"
    BY <1>3, <2>1, ToNative DEF GetInterfaceByAbstractName
  <2>2. CASE name.prefix # "eth"
    BY <1>3, <2>2 DEF GetInterfaceByAbstractName, Convert, IsAbstract, IInv,
                      TypeOK, OnTheWay, Denotes, Natural
  <2> QED BY <2>1, <2>2
<1>4. CASE Resolve
  <2>1. CASE name.prefix = "eth"
    BY <1>4, <2>1, ToNative DEF Resolve
  <2>2. CASE name.prefix # "eth"
    BY <1>4, <2>2 DEF Resolve, Convert, IInv, TypeOK, OnTheWay, Denotes, Natural
  <2> QED BY <2>1, <2>2
<1>5. CASE RunGetInterfaceNeighbors
  <2>1. CASE name.prefix = "Ethernet"
    BY <1>5, <2>1, ToAbstract DEF RunGetInterfaceNeighbors
  <2>2. CASE name.prefix # "Ethernet"
    BY <1>5, <2>2 DEF RunGetInterfaceNeighbors, Convert, IInv, TypeOK, OnTheWay,
                      Denotes
  <2> QED BY <2>1, <2>2
<1>6. CASE RunSetInterfaceStatus
  BY <1>6 DEF RunSetInterfaceStatus, IInv, TypeOK, OnTheWay, Denotes
<1>7. CASE UNCHANGED vars
  BY <1>7 DEF vars, IInv, TypeOK, OnTheWay, Denotes
<1> QED BY <1>1, <1>2, <1>3, <1>4, <1>5, <1>6, <1>7 DEF Next

\* For every port number and every lane, natural or not, no way a name takes to
\* the databases ends at another port, and every way of an exact name ends at its.
THEOREM AllRoutesAgree == Spec => []RoutesAgree
<1>1. IInv => RoutesAgree
  <2> SUFFICES ASSUME IInv, pc = "redis"
               PROVE  \/ name = Native(Denotes(given))
                      \/ /\ name = given /\ given.form # "exact"
                         /\ given.prefix = "Ethernet"
    BY DEF RoutesAgree
  <2>1. name \in Names /\ name.prefix = "Ethernet" /\ name.vport = 0
    BY DEF IInv, TypeOK, OnTheWay
  <2>2. CASE name.form = "exact"
    <3>1. name = [prefix |-> "Ethernet", form |-> "exact", port |-> name.port,
                  vport |-> 0]
      BY <2>1, <2>2 DEF Names
    <3>2. Denotes(given) = name.port
      BY <2>1 DEF IInv, OnTheWay, Denotes
    <3> QED BY <3>1, <3>2 DEF Native
  <2>3. CASE name.form # "exact"
    BY <2>1, <2>3 DEF IInv, OnTheWay
  <2> QED BY <2>2, <2>3
<1> QED BY <1>1, NamesInit, NamesNext, PTL DEF Spec

\* On every route the numbers of a name stay natural numbers if they were.
THEOREM NamesTypeOK == Spec => []TypeOK
<1>1. IInv => TypeOK
  BY DEF IInv
<1> QED BY <1>1, NamesInit, NamesNext, PTL DEF Spec

\* Number and lane are told apart again by division and remainder.
LEMMA LaneIsRemainder ==
  ASSUME NEW p \in Nat, NEW v \in 0..3
  PROVE  Quot(4 * p + v) = p /\ Rem(4 * p + v) = v
<1>1. (4 * p + v) \div 4 = p /\ (4 * p + v) % 4 = v
  OBVIOUS
<1> QED BY <1>1 DEF Quot, Rem

\* No port has two of the handles the agent can publish: one that leads to a
\* port is the one published for it.  (Sscanf accepts more: eth0-4, eth01-0 and
\* eth1-0x all lead to the port of eth1-0.)
THEOREM HandlesAreUnique == Spec => []PublishedHandleIsUnique
<1>1. IInv => PublishedHandleIsUnique
  <2> SUFFICES ASSUME IInv, pc = "redis",
                      NEW p \in Nat, NEW v \in 0..3, given = Abstract(p, v)
               PROVE  Abstract(p, v) = NativeNameToAbstractName(name)
    BY DEF PublishedHandleIsUnique, Published
  <2>1. name.prefix = "Ethernet" /\ Denotes(name) = Denotes(given)
    BY DEF IInv, OnTheWay
  <2>2. name.port = 4 * p + v
    BY <2>1 DEF Denotes, Abstract
  <2> QED BY <2>2, LaneIsRemainder DEF NativeNameToAbstractName
<1> QED BY <1>1, NamesInit, NamesNext, PTL DEF Spec
=============================================================================
