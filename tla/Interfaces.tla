----------------------------- MODULE Interfaces -----------------------------
(***************************************************************************)
(* The updaters behind ifTable (rfc1213.InterfacesUpdater) and ifXTable    *)
(* (rfc2863.InterfaceMIBUpdater): the interface maps that a reinit reads,  *)
(* the counters that a round reads, the drops of router interfaces (RIFs)  *)
(* that the first adds to those of ports, VLANs and LAGs, and the sums     *)
(* over the members of a LAG that both make when a counter is asked for.   *)
(*                                                                         *)
(* The two keep the same state and share the functions that read the maps; *)
(* a behaviour is of one of them, named by `table`: neither looks at the   *)
(* other.  One counter stands for all, one that RIF_DROPS_AGGR_MAP maps.   *)
(* An interface is its index; one namespace.                               *)
(***************************************************************************)
EXTENDS Integers, FiniteSets, FiniteSetsExt

CONSTANTS
  Tables,      \* the updaters looked at: "ifTable", "ifXTable"
  Ports, Lags, Vlans, Mgmt,   \* the interfaces of each kind, as indexes
  Rifs,        \* the router interfaces of ports and LAGs; a VLAN is its own
  Owner,       \* the port or LAG of a router interface
  Width,       \* of the counter of each table: 2^32, and 2^64 for ifXTable
  Initial,     \* the counters of the ports at the start
  None,
  Raises,      \* an exception reaches the request, which gets no answer
  MaxChanges,  \* bound: changes in Redis
  MaxFaults    \* bound: exceptions

Routers == Rifs \cup Vlans

\* port_rif_map has one RIF for a LAG: its sub-interfaces are not modelled.
ASSUME InterfacesAssumption ==
  /\ Tables \subseteq {"ifTable", "ifXTable"}
  /\ LET kinds == <<Ports, Lags, Vlans, Mgmt, Rifs>>
     IN  \A k, l \in DOMAIN kinds : k # l => kinds[k] \cap kinds[l] = {}
  /\ IsFiniteSet(Rifs)
  /\ Ports \cup Lags \cup Vlans \cup Mgmt \cup Rifs \subseteq Nat
  /\ Owner \in [Rifs -> Ports \cup Lags]
  /\ \A r, s \in Rifs : Owner[r] = Owner[s] /\ Owner[r] \in Lags => r = s
  /\ Width \in [Tables -> Nat \ {0}] /\ Initial \in [Ports -> Nat]
  /\ MaxChanges \in Nat /\ MaxFaults \in Nat

VARIABLES
  table,         \* the updater of this behaviour; it does not change
  ports,         \* COUNTERS_PORT_NAME_MAP
  counted,       \* the ports with a COUNTERS entry
  port_stat,     \* the counter of each port
  routers,       \* the RIFs and VLANs that exist
  rif_stat,      \* the counter of each
  members,       \* LAG_MEMBER_TABLE; None where LAG_TABLE has no entry
  created,       \* COUNTERS_LAG_NAME_MAP
  changes,
  pc,            \* where the updater is in its round
  todo,          \* what the current loop has not read
  finished,      \* whether the last round raised nothing
  if_id_map,     \* the ports, in if_name_map and oid_name_map too
  vlan_name_map, \* the VLANs
  rif_port_map,  \* the RIFs
  lag_members,   \* lag_name_if_name_map, and oid_lag_name_map where not None
  lag_sai_map,   \* the LAGs with a SAI id
  if_counters,   \* the counter by index, None where there is no such key
  rif_counters,  \* the counter by RIF: {} is None
  if_range,      \* the interfaces, sorted
  faults

redisVars == <<table, ports, counted, port_stat, routers, rif_stat, members, created, changes>>
mapVars   == <<if_id_map, vlan_name_map, rif_port_map, lag_members, lag_sai_map>>
dataVars  == <<if_counters, rif_counters, if_range>>
roundVars == <<pc, todo, finished>>
vars == <<redisVars, mapVars, dataVars, roundVars, faults>>

Maybe(S) == S \cup {None}

TypeOK ==
  /\ table \in Tables
  /\ ports \subseteq Ports /\ counted \subseteq Ports
  /\ port_stat \in [Ports -> Nat] /\ rif_stat \in [Routers -> Nat]
  /\ routers \subseteq Routers /\ created \subseteq Lags
  /\ members \in [Lags -> Maybe(SUBSET Ports)]
  /\ changes \in 0 .. MaxChanges /\ faults \in 0 .. MaxFaults
  /\ pc \in {"asleep", "maps", "lags", "routers", "ports", "rifs", "range"}
  /\ todo \subseteq Ports \cup Routers
  /\ finished \in BOOLEAN
  /\ if_id_map \subseteq Ports /\ vlan_name_map \subseteq Vlans /\ rif_port_map \subseteq Rifs
  /\ lag_members \in [Lags -> Maybe(SUBSET Ports)]
  /\ lag_sai_map \subseteq Lags
  /\ if_counters \in [Ports \cup Vlans -> Maybe(Nat)]
  /\ DOMAIN rif_counters \subseteq Routers
  /\ \A r \in DOMAIN rif_counters : rif_counters[r] \in Maybe(Nat)
  /\ if_range \subseteq Ports \cup Lags \cup Vlans \cup Mgmt

Init ==
  /\ table \in Tables
  /\ ports = Ports /\ counted = Ports
  /\ port_stat = Initial
  /\ routers = {} /\ rif_stat = [r \in Routers |-> 0]
  /\ members \in [Lags -> {None, Ports}] /\ created = Lags
  /\ changes = 0
  /\ pc = "asleep" /\ todo = {} /\ finished = FALSE
  /\ if_id_map = {} /\ vlan_name_map = {} /\ rif_port_map = {}
  /\ lag_members = [g \in Lags |-> None] /\ lag_sai_map = {}
  /\ if_counters = [i \in Ports \cup Vlans |-> None]
  /\ rif_counters = <<>>
  /\ if_range = {}
  /\ faults = 0

-----------------------------------------------------------------------------
(* Redis.  Counters only grow.  A port that is a member of a LAG is neither *)
(* removed nor a port that is not there made a member: orchagent refuses.  *)

updaterVars == <<mapVars, dataVars, roundVars, faults, table>>

Count == changes < MaxChanges /\ changes' = changes + 1

PortCounts(p) ==
  /\ Count
  /\ p \in counted
  /\ port_stat' = [port_stat EXCEPT ![p] = @ + 1]
  /\ UNCHANGED <<updaterVars, ports, counted, routers, rif_stat, members, created>>

RifCounts(r) ==
  /\ Count
  /\ r \in routers
  /\ rif_stat' = [rif_stat EXCEPT ![r] = @ + 1]
  /\ UNCHANGED <<updaterVars, ports, counted, port_stat, routers, members, created>>

\* A router interface comes or goes.
RouterChanges(r) ==
  /\ Count
  /\ routers' = SymDiff(routers, {r})
  /\ UNCHANGED <<updaterVars, ports, counted, port_stat, rif_stat, members, created>>

\* The counters of a port are not there for a while, then they are again.
StatChanges(p) ==
  /\ Count
  /\ p \in ports
  /\ counted' = SymDiff(counted, {p})
  /\ UNCHANGED <<updaterVars, ports, port_stat, routers, rif_stat, members, created>>

AsSet(m) == IF m = None THEN {} ELSE m
MembersOf(g) == AsSet(members[g])

\* A port comes or goes, its counters with it.
PortChanges(p) ==
  /\ Count
  /\ p \notin UNION {MembersOf(g) : g \in Lags}
  /\ ports' = SymDiff(ports, {p})
  /\ counted' = IF p \in ports THEN counted \ {p} ELSE counted \cup {p}
  /\ UNCHANGED <<updaterVars, port_stat, routers, rif_stat, members, created>>

LagChanges(g, m) ==
  /\ Count
  /\ members[g] # m
  /\ AsSet(m) \subseteq ports \ UNION {MembersOf(h) : h \in Lags \ {g}}
  /\ members' = [members EXCEPT ![g] = m]
  /\ UNCHANGED <<updaterVars, ports, counted, port_stat, routers, rif_stat, created>>

\* The LAG gets its SAI id after its entry, and loses it.
SaiChanges(g) ==
  /\ Count
  /\ created' = SymDiff(created, {g})
  /\ UNCHANGED <<updaterVars, ports, counted, port_stat, routers, rif_stat, members>>

-----------------------------------------------------------------------------
(* reinit_data: one function of mibs after the other.  What one of them     *)
(* reads is read in one step.                                              *)

unread == <<redisVars, faults>>

Goto(label, S) == pc' = label /\ todo' = S /\ UNCHANGED finished

Wake ==
  /\ pc = "asleep"
  /\ Goto("ports", if_id_map)
  /\ UNCHANGED <<unread, mapVars, dataVars>>

WakeReinit ==
  /\ pc = "asleep"
  /\ Goto("maps", {})
  /\ UNCHANGED <<unread, mapVars, dataVars>>

\* Fault: the ports that are gone stay in the maps.
ReadPortMap_Adds ==
  /\ pc = "maps"
  /\ if_id_map' = if_id_map \cup ports
  /\ Goto(IF table = "ifTable" THEN "routers" ELSE "lags", {})
  /\ UNCHANGED <<unread, vlan_name_map, rif_port_map, lag_members, lag_sai_map, dataVars>>

\* init_sync_d_interface_tables
ReadPortMap ==
  /\ pc = "maps"
  /\ if_id_map' = ports
  /\ Goto(IF table = "ifTable" THEN "routers" ELSE "lags", {})
  /\ UNCHANGED <<unread, vlan_name_map, rif_port_map, lag_members, lag_sai_map, dataVars>>

Interfaces(id_map, vlans, lags) == id_map \cup vlans \cup {g \in Lags : lags[g] # None} \cup Mgmt

\* Fault: the router interfaces of VLANs are taken for those of ports.
ReadRouterMaps_VlansToo ==
  /\ pc = "routers"
  /\ vlan_name_map' = routers \cap Vlans
  /\ rif_port_map' = routers
  /\ Goto("lags", {})
  /\ UNCHANGED <<unread, if_id_map, lag_members, lag_sai_map, dataVars>>

\* init_sync_d_vlan_tables, and for ifTable init_sync_d_rif_tables; ifXTable has
\* then read all its maps and lists their interfaces.
ReadRouterMaps ==
  /\ pc = "routers"
  /\ vlan_name_map' = routers \cap Vlans
  /\ IF table = "ifTable"
     THEN /\ rif_port_map' = routers \cap Rifs
          /\ Goto("lags", {})
          /\ UNCHANGED if_range
     ELSE /\ if_range' = Interfaces(if_id_map, vlan_name_map', lag_members)
          /\ Goto("ports", if_id_map)
          /\ UNCHANGED rif_port_map
  /\ UNCHANGED <<unread, if_id_map, lag_members, lag_sai_map, if_counters, rif_counters>>

\* init_sync_d_lag_tables: without an entry in LAG_TABLE it does not look at
\* COUNTERS_LAG_NAME_MAP.
ReadLags ==
  /\ lag_members' = members
  /\ lag_sai_map' = IF \A g \in Lags : members[g] = None THEN {} ELSE created

ReadLagMaps ==
  /\ pc = "lags"
  /\ ReadLags
  /\ IF table = "ifTable" THEN Goto("ports", if_id_map) ELSE Goto("routers", {})
  /\ UNCHANGED <<unread, if_id_map, vlan_name_map, rif_port_map, dataVars>>

-----------------------------------------------------------------------------
(* update_data.                                                            *)

Of(stat, i, present) == IF i \in present THEN stat[i] ELSE None
Value(c) == IF c = None THEN 0 ELSE c

\* The sum of a function: what it counts, one by one.
SumOf(f) == Cardinality(UNION {{x} \X (1 .. f[x]) : x \in DOMAIN f})

\* Fault: a port without an entry keeps the counters of the round before.
ReadPort_KeepsOld(p) ==
  /\ pc = "ports"
  /\ p \in todo
  /\ if_counters' = IF p \in counted THEN [if_counters EXCEPT ![p] = port_stat[p]] ELSE if_counters
  /\ Goto("ports", todo \ {p})
  /\ UNCHANGED <<unread, mapVars, rif_counters, if_range>>

\* The dictionary of the port is replaced by what COUNTERS holds, or by {}.
ReadPort(p) ==
  /\ pc = "ports"
  /\ p \in todo
  /\ if_counters' = [if_counters EXCEPT ![p] = Of(port_stat, p, counted)]
  /\ Goto("ports", todo \ {p})
  /\ UNCHANGED <<unread, mapVars, rif_counters, if_range>>

PortsRead ==
  /\ pc = "ports"
  /\ todo = {}
  /\ IF table = "ifTable" THEN Goto("rifs", rif_port_map \cup vlan_name_map) ELSE Goto("range", {})
  /\ UNCHANGED <<unread, mapVars, dataVars>>

\* update_rif_counters
ReadRif(r) ==
  /\ pc = "rifs"
  /\ r \in todo
  /\ rif_counters' = [s \in DOMAIN rif_counters \cup {r} |->
                        IF s = r THEN Of(rif_stat, r, routers) ELSE rif_counters[s]]
  /\ Goto("rifs", todo \ {r})
  /\ UNCHANGED <<unread, mapVars, if_counters, if_range>>

EndRound == pc' = "asleep" /\ todo' = {} /\ finished' = TRUE

RifsOf(i) == {r \in rif_port_map : Owner[r] = i}
Drops(i) == SumOf([r \in RifsOf(i) |-> Value(rif_counters[r])])

\* aggregate_counters: the drops of its RIFs are added to those of a known port,
\* which has then a counter if it had none; a VLAN takes the counter of its own.
Aggregated(i) ==
  IF i \in Ports
  THEN IF i \in if_id_map /\ RifsOf(i) # {} THEN Value(if_counters[i]) + Drops(i) ELSE if_counters[i]
  ELSE IF i \in vlan_name_map /\ rif_counters[i] # None THEN rif_counters[i] ELSE if_counters[i]

Aggregate ==
  /\ pc = "rifs"
  /\ todo = {}
  /\ if_counters' = [i \in Ports \cup Vlans |-> Aggregated(i)]
  /\ if_range' = Interfaces(if_id_map, vlan_name_map, lag_members)
  /\ EndRound
  /\ UNCHANGED <<unread, mapVars, rif_counters>>

\* Fault: the LAGs are read, the list stays.
RefreshLags_KeepsRange ==
  /\ pc = "range"
  /\ ReadLags
  /\ EndRound
  /\ UNCHANGED <<unread, if_id_map, vlan_name_map, rif_port_map, dataVars>>

\* ifXTable reads the LAGs in every round, after the counters.
RefreshLags ==
  /\ pc = "range"
  /\ ReadLags
  /\ if_range' = Interfaces(if_id_map, vlan_name_map, lag_members')
  /\ EndRound
  /\ UNCHANGED <<unread, if_id_map, vlan_name_map, rif_port_map, if_counters, rif_counters>>

\* Redis raises at any access, or a counter is not a number.
Fault ==
  /\ pc # "asleep"
  /\ faults < MaxFaults
  /\ faults' = faults + 1
  /\ pc' = "asleep" /\ todo' = {} /\ finished' = FALSE
  /\ UNCHANGED <<redisVars, mapVars, dataVars>>

Redis ==
  \/ \E p \in Ports : PortCounts(p) \/ StatChanges(p) \/ PortChanges(p)
  \/ \E r \in Routers : RifCounts(r) \/ RouterChanges(r)
  \/ \E g \in Lags :
       \/ \E m \in Maybe(SUBSET Ports) : LagChanges(g, m)
       \/ SaiChanges(g)

Round ==
  \/ ReadPortMap \/ ReadRouterMaps \/ ReadLagMaps
  \/ PortsRead \/ Aggregate \/ RefreshLags
  \/ \E p \in Ports : ReadPort(p)
  \/ \E r \in Routers : ReadRif(r)

Next == Redis \/ Wake \/ WakeReinit \/ Round \/ Fault

Spec == Init /\ [][Next]_vars

\* The event loop finishes a round and starts the next; a reinit comes back again
\* and again.  Nothing is asked of Redis.
FairSpec == Spec /\ WF_vars(Round) /\ SF_vars(WakeReinit)

-----------------------------------------------------------------------------
(* What a request gets: get_counter, interface_description.                *)

\* rfc1213._get_counter
Masked(i) == IF if_counters[i] = None THEN None ELSE if_counters[i] % Width[table]

\* The RIF of LAG g in port_rif_map adds its drops.
LagDrops(g) == IF table = "ifTable" THEN Drops(g) ELSE 0

\* A member without a counter: None + is a TypeError in ifTable, ifXTable has no
\* answer.  A LAG without SAI id, a RIF not read yet: KeyError in ifTable.
LagCounter(g) ==
  IF \E p \in lag_members[g] : if_counters[p] = None THEN IF table = "ifTable" THEN Raises ELSE None
  ELSE IF table = "ifTable" /\ (g \notin lag_sai_map \/ ~(RifsOf(g) \subseteq DOMAIN rif_counters)) THEN Raises
  ELSE (SumOf([p \in lag_members[g] |-> Masked(p)]) + LagDrops(g)) % Width[table]

IsLag(i) == i \in Lags /\ lag_members[i] # None

GetCounter(i) ==
  IF i \notin if_range THEN None
  ELSE IF i \in Mgmt THEN 0
  ELSE IF IsLag(i) THEN LagCounter(i)
  ELSE IF i \in Lags THEN None
  ELSE Masked(i)

\* interface_description and interface_name find a name, not a KeyError.
Named(i) == IsLag(i) \/ i \in Mgmt \cup vlan_name_map \cup if_id_map

-----------------------------------------------------------------------------
(* Properties.                                                             *)

AtRest == pc = "asleep"

\* However rounds end and maps and counters come and go, no counter served for a
\* port or a VLAN is more than what its hardware has counted: the drops of a RIF
\* are not added to a sum that has them already.
NotOvercounted ==
  AtRest =>
    /\ \A p \in Ports : if_counters[p] # None =>
         if_counters[p] <= port_stat[p] + SumOf([r \in {r \in Rifs : Owner[r] = p} |-> rif_stat[r]])
    /\ \A v \in Vlans : if_counters[v] # None => if_counters[v] <= rif_stat[v]

\* After a round that raised nothing every listed interface has a name: the list
\* and the maps, replaced at different moments, fit together.
NamesResolve == AtRest /\ finished => \A i \in if_range : Named(i)

\* Once Redis rests, the list is that of its interfaces and every counter is the
\* true one: a port with its RIFs, a LAG with its members and theirs, as wide as
\* the table, though the members of a LAG are truncated before they are added; and no
\* request for one raises unless Redis lacks what it needs.
Live(i) == {r \in routers \cap Rifs : Owner[r] = i}
Dropped(i) == IF table = "ifTable" THEN SumOf([r \in Live(i) |-> rif_stat[r]]) ELSE 0
HasCounter(p) == p \in counted \/ (table = "ifTable" /\ Live(p) # {})
Total(p) == Value(Of(port_stat, p, counted)) + Dropped(p)

Truth(i) ==
  CASE i \in Mgmt -> 0
    [] i \in Ports -> IF HasCounter(i) THEN Total(i) % Width[table] ELSE None
    [] i \in Vlans -> IF table = "ifTable" THEN rif_stat[i] % Width[table] ELSE None
    [] i \in Lags ->
         IF (\A p \in members[i] : HasCounter(p)) /\ (table = "ifTable" => i \in created)
         THEN (SumOf([p \in members[i] |-> Total(p)]) + Dropped(i)) % Width[table]
         ELSE IF table = "ifTable" THEN Raises ELSE None

Listed == Interfaces(ports, routers \cap Vlans, members)
Current == if_range = Listed /\ \A i \in Listed : GetCounter(i) = Truth(i)
Converges == []<>Current

=============================================================================
