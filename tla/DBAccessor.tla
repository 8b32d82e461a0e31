------------------------------ MODULE DBAccessor ------------------------------
(***************************************************************************)
(* The database accessor: SyncPortVLANs and SyncIPAddresses (DBSync), the  *)
(* listings of ports (PortList) and the operations that are one command to *)
(* Redis.  CONFIG_DB is a map from keys to hashes, and a hash without      *)
(* fields does not exist.  An operation whose argument does not validate   *)
(* changes nothing: it is no step here.                                    *)
(*                                                                         *)
(* The commands write no key that a Sync reads or writes, and the other    *)
(* way round, so the two commute; what a listing reads is PortList's       *)
(* business.  A behaviour is about one of the three.                       *)
(***************************************************************************)
EXTENDS DBSync, PortList, Integers

CONSTANTS VlanId,      \* numbers of the VLAN names callers use
          MTU, Speed   \* numbers they give for a port

ASSUME DBAccessorAssumption == VlanId \cup MTU \cup Speed \subseteq Int

Port == <<"PORT", 0>>
Loopback == <<"LOOPBACK_INTERFACE", 0>>
Device == <<"DEVICE_METADATA", 0>>
Hashes == ({"VLAN", "VLAN_INTERFACE"} \X VlanId)
          \cup {Port, Loopback, Device, <<"PORTCHANNEL", 0>>}
Fields == {"NULL", "vlanid", "description", "dhcp_servers@", "admin_status",
           "vrf_name", "fec", "mtu", "speed", "alias", "hostname"}
VlanIds == 1..4094
MTUs == 68..9216
Numbers == [mtu : MTUs, speed : Nat \ {0}]
Installed == [mtu |-> 9100, speed |-> 100000]

VARIABLES about,   \* "sync", "listing" or "commands"
          db,      \* the fields of every hash
          num,     \* the numbers under mtu and speed
          ensured  \* history: hashes ensured, and not to be deleted since

accessor == <<db, num, ensured>>

\* Of the single commands and the listings.
CommandTypeOK ==
  /\ about \in {"sync", "listing", "commands"} /\ ListTypeOK
  /\ db \in [Hashes -> SUBSET Fields] /\ ensured \subseteq Hashes
  /\ num \in Numbers
  /\ \A h \in Hashes : "vlanid" \in db[h] => h[1] = "VLAN" /\ h[2] \in VlanIds

\* Type invariant: a Sync writes only entries that validate, a vlanid belongs
\* to a VLAN there can be, and the numbers of a port are within the limits
\* SetMTU and SetSpeed state.
AccessorTypeOK == TypeOK /\ CommandTypeOK

\* A switch as installed: its name, and a port without FEC.
AccessorInit ==
  /\ Init /\ ListInit
  /\ about \in {"sync", "listing", "commands"}
  /\ about # "sync" => op = "SyncPortVLANs" /\ table = [k \in Key |-> "none"]
  /\ about # "listing" => lists = "ListPortNames" /\ ports = {}
  /\ db = [h \in Hashes |->
             IF h = Port THEN {"mtu", "speed", "alias", "admin_status"}
             ELSE IF h = Device THEN {"hostname"} ELSE {}]
  /\ num = Installed
  /\ ensured = {}

HSet(h, F) == db' = [db EXCEPT ![h] = @ \cup F]
HDel(h, F) == db' = [db EXCEPT ![h] = @ \ F]
Exists(h) == db[h] # {}

\* A failing command may have taken effect: what a caller did not get done, or
\* wants deleted, is not ensured.
Ensure(h, F) == /\ HSet(h, F) /\ UNCHANGED num
                /\ ensured' = ensured \cup {h} \/ UNCHANGED ensured
Del(h) == HDel(h, Fields) /\ UNCHANGED num /\ ensured' = ensured \ {h}
Set(h, f) == HSet(h, {f}) /\ UNCHANGED <<num, ensured>>
-----------------------------------------------------------------------------
ValidVlan(id) == ~(id < 1 \/ id > 4094)

\* Mutant: only a VLAN without a hash is given its vlanid.
EnsureVLANIfAbsent(id) ==
  /\ ValidVlan(id)
  /\ Ensure(<<"VLAN", id>>, IF Exists(<<"VLAN", id>>) THEN {} ELSE {"vlanid"})

EnsureVLAN(id) == ValidVlan(id) /\ Ensure(<<"VLAN", id>>, {"vlanid"})
EnsureVLANInterface(id) ==
  /\ ValidVlan(id)
  /\ \E F \in {{}, {"vrf_name"}} : Ensure(<<"VLAN_INTERFACE", id>>, {"NULL"} \cup F)
DeleteVLAN(id) == ValidVlan(id) /\ Del(<<"VLAN", id>>)
DeleteVLANInterface(id) == ValidVlan(id) /\ Del(<<"VLAN_INTERFACE", id>>)
HasVLAN(id) == ValidVlan(id) /\ Exists(<<"VLAN", id>>)

SetVLANDescription(id) == ValidVlan(id) /\ Set(<<"VLAN", id>>, "description")
EnsureDHCPRelay(id) == ValidVlan(id) /\ Set(<<"VLAN", id>>, "dhcp_servers@")
DeleteDHCPRelay(id) == /\ ValidVlan(id) /\ HDel(<<"VLAN", id>>, {"dhcp_servers@"})
                       /\ UNCHANGED <<num, ensured>>

EnsureLoopback == Ensure(Loopback, {"NULL"})
DeleteLoopback == Del(Loopback)

\* Unlike the operations above it takes a VLAN name with any number.
SetAdminStatus(h) ==
  /\ h[1] \in {"LOOPBACK_INTERFACE", "VLAN", "PORT", "PORTCHANNEL"}
  /\ Set(h, "admin_status")

SetNumber(f, m) == /\ HSet(Port, {f}) /\ num' = [num EXCEPT ![f] = m]
                   /\ UNCHANGED ensured

\* Mutant: off by one at the lower end.
SetMTUFrom67(m) == m >= 67 /\ m <= 9216 /\ SetNumber("mtu", m)

SetMTU(m) == ~(m < 68 \/ m > 9216) /\ SetNumber("mtu", m)
SetSpeed(m) == ~(m <= 0) /\ SetNumber("speed", m)
SetFEC == Set(Port, "fec")
SetPortAlias == Set(Port, "alias")
SetHostname == Set(Device, "hostname")

Command ==
  \/ \E id \in VlanId : \/ EnsureVLAN(id) \/ EnsureVLANInterface(id)
                        \/ DeleteVLAN(id) \/ DeleteVLANInterface(id)
                        \/ SetVLANDescription(id)
                        \/ EnsureDHCPRelay(id) \/ DeleteDHCPRelay(id)
  \/ EnsureLoopback \/ DeleteLoopback
  \/ \E h \in Hashes : SetAdminStatus(h)
  \/ \E m \in MTU : SetMTU(m)
  \/ \E m \in Speed : SetSpeed(m)
  \/ SetFEC \/ SetPortAlias \/ SetHostname

AccessorNext ==
  \/ about = "sync" /\ Next /\ UNCHANGED <<about, listing, accessor>>
  \/ about = "listing" /\ ListNext /\ UNCHANGED <<about, vars, accessor>>
  \/ about = "commands" /\ Command /\ UNCHANGED <<about, vars, listing>>

AccessorSpec == AccessorInit /\ [][AccessorNext]_<<vars, about, listing, accessor>>

-----------------------------------------------------------------------------
\* What one caller ensured stays until somebody deletes it, whatever the other
\* operations add to the same hash or take out of it: EnsureVLAN writes the
\* vlanid also when the hash exists, so that DeleteDHCPRelay never removes the
\* last field of a VLAN that was ensured, and HasVLAN goes on finding it.
EnsuredStays ==
  \A h \in ensured : Exists(h) /\ (h[1] = "VLAN" => HasVLAN(h[2]) /\ "vlanid" \in db[h])
=============================================================================
