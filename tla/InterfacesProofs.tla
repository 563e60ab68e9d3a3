-------------------------- MODULE InterfacesProofs --------------------------
(***************************************************************************)
(* Theorems about Interfaces, for any interfaces, widths and number of     *)
(* changes and exceptions.                                                 *)
(***************************************************************************)
EXTENDS Interfaces, FiniteSetTheorems, TLAPS

(* The list and the maps are replaced at different moments of a round, and  *)
(* a round that raised leaves the ones from before beside the new.  A round *)
(* that did not ends with a list made of the maps that it leaves.          *)
ListFits == AtRest /\ finished => if_range = Interfaces(if_id_map, vlan_name_map, lag_members)

LEMMA ListFitsInit == Init => ListFits
BY DEF Init, ListFits

LEMMA ListFitsStep == ListFits /\ [Next]_vars => ListFits'
<1> SUFFICES ASSUME ListFits, [Next]_vars
             PROVE  ListFits'
  OBVIOUS
<1> USE DEF ListFits, AtRest
<1> DEFINE Same == UNCHANGED <<pc, finished, if_range, if_id_map, vlan_name_map, lag_members>>
<1>1. Redis \/ UNCHANGED vars => Same
  BY DEF Redis, PortCounts, RifCounts, RouterChanges, StatChanges, PortChanges, LagChanges, SaiChanges, updaterVars, mapVars,
         dataVars, roundVars, vars
<1>2. Wake \/ WakeReinit => pc' # "asleep"
  BY DEF Wake, WakeReinit, Goto
<1>3. ReadPortMap \/ ReadRouterMaps \/ ReadLagMaps \/ PortsRead => pc' # "asleep"
  BY DEF ReadPortMap, ReadRouterMaps, ReadLagMaps, PortsRead, Goto
<1>4. (\E p \in Ports : ReadPort(p)) \/ (\E r \in Routers : ReadRif(r)) => pc' # "asleep"
  BY DEF ReadPort, ReadRif, Goto
<1>5. Aggregate => if_range' = Interfaces(if_id_map', vlan_name_map', lag_members')
  BY DEF Aggregate, mapVars, Interfaces
<1>6. RefreshLags => if_range' = Interfaces(if_id_map', vlan_name_map', lag_members')
  BY DEF RefreshLags, Interfaces
<1>7. Fault => finished' = FALSE
  BY DEF Fault
<1>8. Same => ListFits'
  BY DEF Interfaces
<1> HIDE DEF Same
<1> QED
  BY <1>1, <1>2, <1>3, <1>4, <1>5, <1>6, <1>7, <1>8, Zenon DEF Next, Round

(* After a round that raised nothing a request for any listed interface    *)
(* finds its name, whatever came and went while the maps were read.        *)
THEOREM NamesResolveHolds == Spec => []NamesResolve
<1>1. ListFits => NamesResolve
  BY DEF ListFits, NamesResolve, Interfaces, Named, IsLag
<1> QED
  BY <1>1, ListFitsInit, ListFitsStep, PTL DEF Spec

-----------------------------------------------------------------------------
(* Sums.                                                                   *)

Units(f) == UNION {{x} \X (1 .. f[x]) : x \in DOMAIN f}

LEMMA SumIsNat ==
  ASSUME NEW S, IsFiniteSet(S), NEW f \in [S -> Nat]
  PROVE  IsFiniteSet(Units(f)) /\ SumOf(f) = Cardinality(Units(f)) /\ SumOf(f) \in Nat
<1> DEFINE units == [x \in S |-> {x} \X (1 .. f[x])]
           family == {units[x] : x \in S}
<1>1. Units(f) = UNION family
  BY DEF Units
<1>2. IsFiniteSet(family)
  <2>1. units \in Surjection(S, family)
    BY DEF Surjection
  <2> QED
    BY <2>1, FS_Surjection
<1>3. ASSUME NEW x \in S
      PROVE  IsFiniteSet(units[x])
  <2>1. 1 \in Int /\ f[x] \in Int
    BY SMT
  <2>2. IsFiniteSet(1 .. f[x]) /\ IsFiniteSet({x})
    BY <2>1, FS_Interval, FS_Singleton
  <2> QED
    BY <2>2, FS_Product
<1> HIDE DEF units
<1>4. IsFiniteSet(Units(f))
  BY <1>1, <1>2, <1>3, FS_UNION
<1> QED
  BY <1>4, FS_CardinalityType DEF SumOf, Units

(* More is counted of more.                                                *)
LEMMA SumGrows ==
  ASSUME NEW T, IsFiniteSet(T), NEW S, S \subseteq T,
         NEW f \in [S -> Nat], NEW g \in [T -> Nat], \A x \in S : f[x] <= g[x]
  PROVE  SumOf(f) <= SumOf(g)
<1>1. IsFiniteSet(S)
  BY FS_Subset
<1>2. Units(f) \subseteq Units(g)
  <2> SUFFICES ASSUME NEW x \in S, NEW u \in {x} \X (1 .. f[x])
               PROVE  u \in Units(g)
    BY DEF Units
  <2>1. 1 .. f[x] \subseteq 1 .. g[x]
    <3>1. f[x] \in Nat /\ g[x] \in Nat /\ f[x] <= g[x]
      OBVIOUS
    <3> QED
      BY <3>1, SMT
  <2>2. u \in {x} \X (1 .. g[x])
    BY <2>1
  <2> QED
    BY <2>2 DEF Units
<1>3. /\ SumOf(f) = Cardinality(Units(f)) /\ SumOf(g) = Cardinality(Units(g))
      /\ IsFiniteSet(Units(g))
  BY <1>1, SumIsNat
<1> QED
  BY <1>2, <1>3, FS_Subset

-----------------------------------------------------------------------------
(* Types.                                                                  *)

DatabaseOK ==
  /\ table \in Tables
  /\ ports \subseteq Ports /\ counted \subseteq Ports
  /\ port_stat \in [Ports -> Nat] /\ rif_stat \in [Routers -> Nat]
  /\ routers \subseteq Routers /\ created \subseteq Lags
  /\ members \in [Lags -> Maybe(SUBSET Ports)]
  /\ changes \in 0 .. MaxChanges

MapsOK ==
  /\ if_id_map \subseteq Ports /\ vlan_name_map \subseteq Vlans /\ rif_port_map \subseteq Rifs
  /\ lag_members \in [Lags -> Maybe(SUBSET Ports)]
  /\ lag_sai_map \subseteq Lags
  /\ if_range \subseteq Ports \cup Lags \cup Vlans \cup Mgmt

(* A loop over router interfaces is over those of the maps: those it has   *)
(* come to have an entry, with a counter or without.                       *)
RoundOK ==
  /\ pc \in {"asleep", "maps", "lags", "routers", "ports", "rifs", "range"}
  /\ todo \subseteq Ports \cup Routers
  /\ pc = "rifs" => rif_port_map \cup vlan_name_map \subseteq DOMAIN rif_counters \cup todo
  /\ faults \in 0 .. MaxFaults

CountersOK ==
  /\ if_counters \in [Ports \cup Vlans -> Maybe(Nat)]
  /\ DOMAIN rif_counters \subseteq Routers
  /\ \A r \in DOMAIN rif_counters : rif_counters[r] \in Maybe(Nat)

LEMMA DatabaseInit == Init => DatabaseOK
<1> SUFFICES ASSUME Init PROVE DatabaseOK
  OBVIOUS
<1>1. changes \in 0 .. MaxChanges
  BY InterfacesAssumption, SMT DEF Init
<1>2. port_stat \in [Ports -> Nat] /\ rif_stat \in [Routers -> Nat] /\ members \in [Lags -> Maybe(SUBSET Ports)]
  BY InterfacesAssumption DEF Init, Maybe
<1> QED
  BY <1>1, <1>2 DEF Init, DatabaseOK

LEMMA DatabaseStep == DatabaseOK /\ [Next]_vars => DatabaseOK'
<1> SUFFICES ASSUME DatabaseOK, [Next]_vars PROVE DatabaseOK'
  OBVIOUS
<1>1. Count => changes' \in 0 .. MaxChanges
  BY InterfacesAssumption, SMT DEF Count, DatabaseOK
<1>2. ASSUME NEW p \in Ports, PortCounts(p) PROVE DatabaseOK'
  <2>1. port_stat' \in [Ports -> Nat]
    BY <1>2 DEF PortCounts, DatabaseOK
  <2> QED
    BY <1>1, <1>2, <2>1 DEF PortCounts, updaterVars, DatabaseOK
<1>3. ASSUME NEW r \in Routers, RifCounts(r) PROVE DatabaseOK'
  <2>1. rif_stat' \in [Routers -> Nat]
    BY <1>3 DEF RifCounts, DatabaseOK
  <2> QED
    BY <1>1, <1>3, <2>1 DEF RifCounts, updaterVars, DatabaseOK
<1>4. ASSUME NEW r \in Routers, RouterChanges(r) PROVE DatabaseOK'
  BY <1>1, <1>4 DEF RouterChanges, SymDiff, updaterVars, DatabaseOK
<1>5. ASSUME NEW p \in Ports, StatChanges(p) PROVE DatabaseOK'
  BY <1>1, <1>5 DEF StatChanges, SymDiff, updaterVars, DatabaseOK
<1>6. ASSUME NEW p \in Ports, PortChanges(p) PROVE DatabaseOK'
  BY <1>1, <1>6 DEF PortChanges, SymDiff, updaterVars, DatabaseOK
<1>7. ASSUME NEW g \in Lags, NEW m \in Maybe(SUBSET Ports), LagChanges(g, m) PROVE DatabaseOK'
  <2>1. members' \in [Lags -> Maybe(SUBSET Ports)]
    BY <1>7 DEF LagChanges, DatabaseOK
  <2> QED
    BY <1>1, <1>7, <2>1 DEF LagChanges, updaterVars, DatabaseOK
<1>8. ASSUME NEW g \in Lags, SaiChanges(g) PROVE DatabaseOK'
  BY <1>1, <1>8 DEF SaiChanges, SymDiff, updaterVars, DatabaseOK
<1>9. CASE Wake \/ WakeReinit \/ Round \/ Fault \/ UNCHANGED vars
  <2>1. UNCHANGED redisVars
    BY <1>9 DEF Wake, WakeReinit, Round, ReadPortMap, ReadRouterMaps, ReadLagMaps, PortsRead, Aggregate, RefreshLags,
                ReadPort, ReadRif, Fault, unread, vars
  <2> QED
    BY <2>1 DEF redisVars, DatabaseOK
<1> QED
  BY <1>2, <1>3, <1>4, <1>5, <1>6, <1>7, <1>8, <1>9 DEF Next, Redis

(* What changes in Redis is not in the updater.                            *)
LEMMA RedisStep ==
  ASSUME Redis
  PROVE  UNCHANGED <<if_id_map, vlan_name_map, rif_port_map, lag_members, lag_sai_map, if_counters, rif_counters,
                     if_range, pc, todo, finished, faults, table>>
BY DEF Redis, PortCounts, RifCounts, RouterChanges, StatChanges, PortChanges, LagChanges, SaiChanges, updaterVars, mapVars,
       dataVars, roundVars

LEMMA MapsInit == Init => MapsOK
BY DEF Init, MapsOK, Maybe

LEMMA MapsStep == DatabaseOK /\ MapsOK /\ [Next]_vars => MapsOK'
<1> SUFFICES ASSUME DatabaseOK, MapsOK, [Next]_vars PROVE MapsOK'
  OBVIOUS
<1>1. CASE Redis
  BY <1>1, RedisStep DEF MapsOK
<1>2. CASE Wake \/ WakeReinit \/ PortsRead \/ Fault \/ (\E p \in Ports : ReadPort(p)) \/ (\E r \in Routers : ReadRif(r))
           \/ UNCHANGED vars
  <2>1. UNCHANGED <<if_id_map, vlan_name_map, rif_port_map, lag_members, lag_sai_map, if_range>>
    BY <1>2 DEF Wake, WakeReinit, PortsRead, Fault, ReadPort, ReadRif, mapVars, dataVars, vars
  <2> QED
    BY <2>1 DEF MapsOK
<1>3. CASE ReadPortMap
  BY <1>3 DEF ReadPortMap, dataVars, MapsOK, DatabaseOK
<1>4. CASE ReadRouterMaps
  <2>1. routers \cap Vlans \subseteq Vlans /\ routers \cap Rifs \subseteq Rifs
    OBVIOUS
  <2>2. Interfaces(if_id_map, routers \cap Vlans, lag_members) \subseteq Ports \cup Lags \cup Vlans \cup Mgmt
    BY DEF Interfaces, MapsOK
  <2>3. UNCHANGED <<if_id_map, lag_members, lag_sai_map>> /\ vlan_name_map' = routers \cap Vlans
    BY <1>4 DEF ReadRouterMaps
  <2>4. UNCHANGED rif_port_map \/ rif_port_map' = routers \cap Rifs
    BY <1>4 DEF ReadRouterMaps
  <2>5. UNCHANGED if_range \/ if_range' = Interfaces(if_id_map, routers \cap Vlans, lag_members)
    BY <1>4 DEF ReadRouterMaps
  <2> QED
    BY <2>1, <2>2, <2>3, <2>4, <2>5 DEF MapsOK
<1>5. ReadLags => lag_members' \in [Lags -> Maybe(SUBSET Ports)] /\ lag_sai_map' \subseteq Lags
  BY DEF ReadLags, DatabaseOK
<1>6. CASE ReadLagMaps
  BY <1>5, <1>6 DEF ReadLagMaps, dataVars, MapsOK
<1>7. CASE Aggregate
  <2>1. if_range' \subseteq Ports \cup Lags \cup Vlans \cup Mgmt
    BY <1>7 DEF Aggregate, Interfaces, MapsOK
  <2> QED
    BY <1>7, <2>1 DEF Aggregate, mapVars, MapsOK
<1>8. CASE RefreshLags
  <2>1. if_range' \subseteq Ports \cup Lags \cup Vlans \cup Mgmt
    BY <1>8 DEF RefreshLags, Interfaces, MapsOK
  <2> QED
    BY <1>5, <1>8, <2>1 DEF RefreshLags, MapsOK
<1> QED
  BY <1>1, <1>2, <1>3, <1>4, <1>6, <1>7, <1>8 DEF Next, Round

LEMMA RoundInit == Init => RoundOK
<1> SUFFICES ASSUME Init PROVE RoundOK
  OBVIOUS
<1>1. faults \in 0 .. MaxFaults
  BY InterfacesAssumption, SMT DEF Init
<1> QED
  BY <1>1 DEF Init, RoundOK

LEMMA RoundStep == MapsOK /\ RoundOK /\ [Next]_vars => RoundOK'
<1> SUFFICES ASSUME MapsOK, RoundOK, [Next]_vars PROVE RoundOK'
  OBVIOUS
<1>1. CASE Redis \/ UNCHANGED vars
  BY <1>1, RedisStep DEF RoundOK, vars, mapVars, dataVars, roundVars
<1>2. CASE Wake \/ WakeReinit \/ ReadPortMap \/ ReadRouterMaps \/ ReadLagMaps
  BY <1>2 DEF Wake, WakeReinit, ReadPortMap, ReadRouterMaps, ReadLagMaps, Goto, unread, MapsOK, RoundOK
<1>3. CASE PortsRead
  BY <1>3 DEF PortsRead, Goto, unread, mapVars, dataVars, MapsOK, RoundOK, Routers
<1>4. ASSUME NEW p \in Ports, ReadPort(p) PROVE RoundOK'
  BY <1>4 DEF ReadPort, Goto, unread, RoundOK
<1>5. ASSUME NEW r \in Routers, ReadRif(r) PROVE RoundOK'
  <2>1. DOMAIN rif_counters' = DOMAIN rif_counters \cup {r}
    BY <1>5 DEF ReadRif
  <2> QED
    BY <1>5, <2>1 DEF ReadRif, Goto, unread, mapVars, RoundOK
<1>6. CASE Aggregate \/ RefreshLags
  BY <1>6 DEF Aggregate, RefreshLags, EndRound, unread, RoundOK
<1>7. CASE Fault
  <2>1. faults' \in 0 .. MaxFaults
    BY <1>7, InterfacesAssumption, SMT DEF Fault, RoundOK
  <2> QED
    BY <1>7, <2>1 DEF Fault, RoundOK
<1> QED
  BY <1>1, <1>2, <1>3, <1>4, <1>5, <1>6, <1>7, Zenon DEF Next, Round

FinishedOK == finished \in BOOLEAN

LEMMA FinishedStep == FinishedOK /\ [Next]_vars => FinishedOK'
<1> SUFFICES ASSUME FinishedOK, [Next]_vars PROVE FinishedOK'
  OBVIOUS
<1>1. Redis \/ UNCHANGED vars => UNCHANGED finished
  BY DEF Redis, PortCounts, RifCounts, RouterChanges, StatChanges, PortChanges, LagChanges, SaiChanges, updaterVars, roundVars,
         vars
<1>2. Wake \/ WakeReinit \/ ReadPortMap \/ ReadRouterMaps \/ ReadLagMaps \/ PortsRead => UNCHANGED finished
  BY DEF Wake, WakeReinit, ReadPortMap, ReadRouterMaps, ReadLagMaps, PortsRead, Goto
<1>3. (\E p \in Ports : ReadPort(p)) \/ (\E r \in Routers : ReadRif(r)) => UNCHANGED finished
  BY DEF ReadPort, ReadRif, Goto
<1>4. Aggregate \/ RefreshLags => finished' = TRUE
  BY DEF Aggregate, RefreshLags, EndRound
<1>5. Fault => finished' = FALSE
  BY DEF Fault
<1> QED
  BY <1>1, <1>2, <1>3, <1>4, <1>5, Zenon DEF Next, Round, FinishedOK

(* When the round adds the drops, every router interface of the maps has   *)
(* been read: the sums are over natural numbers.                           *)
LEMMA DropsAreNat ==
  ASSUME MapsOK, CountersOK, NEW i, RifsOf(i) \subseteq DOMAIN rif_counters
  PROVE  Drops(i) \in Nat
<1>1. RifsOf(i) \subseteq Rifs
  BY DEF RifsOf, MapsOK
<1>2. IsFiniteSet(RifsOf(i))
  BY <1>1, InterfacesAssumption, FS_Subset
<1>3. ASSUME NEW r \in RifsOf(i) PROVE Value(rif_counters[r]) \in Nat
  BY <1>3 DEF CountersOK, Maybe, Value
<1>4. [r \in RifsOf(i) |-> Value(rif_counters[r])] \in [RifsOf(i) -> Nat]
  BY <1>3
<1> QED
  BY <1>2, <1>4, SumIsNat DEF Drops

LEMMA AggregatedIsCounter ==
  ASSUME MapsOK, CountersOK, rif_port_map \cup vlan_name_map \subseteq DOMAIN rif_counters,
         NEW i \in Ports \cup Vlans
  PROVE  Aggregated(i) \in Maybe(Nat)
<1>1. Drops(i) \in Nat
  BY DropsAreNat DEF RifsOf
<1>2. Value(if_counters[i]) \in Nat
  BY DEF CountersOK, Maybe, Value
<1>3. Value(if_counters[i]) + Drops(i) \in Nat
  BY <1>1, <1>2
<1>4. if_counters[i] \in Maybe(Nat)
  BY DEF CountersOK
<1>5. i \in vlan_name_map => rif_counters[i] \in Maybe(Nat)
  BY DEF CountersOK
<1> QED
  BY <1>3, <1>4, <1>5 DEF Aggregated, Maybe

LEMMA CountersInit == Init => CountersOK
BY DEF Init, CountersOK, Maybe

LEMMA CountersStep == DatabaseOK /\ MapsOK /\ RoundOK /\ CountersOK /\ [Next]_vars => CountersOK'
<1> SUFFICES ASSUME DatabaseOK, MapsOK, RoundOK, CountersOK, [Next]_vars PROVE CountersOK'
  OBVIOUS
<1>1. CASE Redis
  BY <1>1, RedisStep DEF CountersOK
<1>2. CASE Wake \/ WakeReinit \/ ReadPortMap \/ ReadRouterMaps \/ ReadLagMaps \/ PortsRead \/ RefreshLags \/ Fault
           \/ UNCHANGED vars
  <2>1. UNCHANGED <<if_counters, rif_counters>>
    BY <1>2 DEF Wake, WakeReinit, ReadPortMap, ReadRouterMaps, ReadLagMaps, PortsRead, RefreshLags, Fault, dataVars, vars
  <2> QED
    BY <2>1 DEF CountersOK
<1>3. ASSUME NEW p \in Ports, ReadPort(p) PROVE CountersOK'
  <2>1. Of(port_stat, p, counted) \in Maybe(Nat)
    BY DEF Of, Maybe, DatabaseOK
  <2>2. if_counters' \in [Ports \cup Vlans -> Maybe(Nat)]
    BY <1>3, <2>1 DEF ReadPort, CountersOK
  <2> QED
    BY <1>3, <2>2 DEF ReadPort, CountersOK
<1>4. ASSUME NEW r \in Routers, ReadRif(r) PROVE CountersOK'
  <2>1. Of(rif_stat, r, routers) \in Maybe(Nat)
    BY DEF Of, Maybe, DatabaseOK
  <2>2. DOMAIN rif_counters' \subseteq Routers
    BY <1>4 DEF ReadRif, CountersOK
  <2>3. ASSUME NEW s \in DOMAIN rif_counters' PROVE rif_counters'[s] \in Maybe(Nat)
    BY <1>4, <2>1 DEF ReadRif, CountersOK
  <2> QED
    BY <1>4, <2>2, <2>3 DEF ReadRif, CountersOK
<1>5. CASE Aggregate
  <2>1. rif_port_map \cup vlan_name_map \subseteq DOMAIN rif_counters
    BY <1>5 DEF Aggregate, RoundOK
  <2>2. \A i \in Ports \cup Vlans : Aggregated(i) \in Maybe(Nat)
    BY <2>1, AggregatedIsCounter
  <2>3. if_counters' \in [Ports \cup Vlans -> Maybe(Nat)]
    BY <1>5, <2>2 DEF Aggregate
  <2> QED
    BY <1>5, <2>3 DEF Aggregate, CountersOK
<1> QED
  BY <1>1, <1>2, <1>3, <1>4, <1>5, Zenon DEF Next, Round

TypeInv == DatabaseOK /\ MapsOK /\ RoundOK /\ FinishedOK /\ CountersOK

LEMMA TypeInvHolds == Spec => []TypeInv
<1>1. Init => TypeInv
  <2>1. Init => FinishedOK
    BY DEF Init, FinishedOK
  <2> QED
    BY <2>1, DatabaseInit, MapsInit, RoundInit, CountersInit DEF TypeInv
<1>2. TypeInv /\ [Next]_vars => TypeInv'
  BY DatabaseStep, MapsStep, RoundStep, FinishedStep, CountersStep DEF TypeInv
<1> QED
  BY <1>1, <1>2, PTL DEF Spec

(* Redis, the maps, the round and the counters keep their types: no sum of *)
(* drops meets a router interface that was not read.                       *)
THEOREM InterfacesTypeCorrect == Spec => []TypeOK
<1>1. TypeInv => TypeOK
  BY Zenon DEF TypeInv, DatabaseOK, MapsOK, RoundOK, FinishedOK, CountersOK, TypeOK
<1> QED
  BY <1>1, TypeInvHolds, PTL

-----------------------------------------------------------------------------
(* No counter is more than what was counted.                               *)

(* The drops are added to counters that have none yet: those of the ports  *)
(* that this round has read.                                               *)
Fresh == IF pc = "ports" THEN if_id_map \ todo ELSE IF pc = "rifs" THEN if_id_map ELSE {}
Bare == \A p \in Ports : p \in Fresh /\ if_counters[p] # None => if_counters[p] <= port_stat[p]
RifsBounded == \A r \in DOMAIN rif_counters : rif_counters[r] # None => rif_counters[r] <= rif_stat[r]

OwnRifs(p) == {r \in Rifs : Owner[r] = p}
AllDrops(p) == SumOf([r \in OwnRifs(p) |-> rif_stat[r]])
PortsBounded == \A p \in Ports : if_counters[p] # None => if_counters[p] <= port_stat[p] + AllDrops(p)
VlansBounded == \A v \in Vlans : if_counters[v] # None => if_counters[v] <= rif_stat[v]

(* What the hardware counts only grows.                                    *)
Grows ==
  /\ \A p \in Ports : port_stat[p] <= port_stat'[p]
  /\ \A r \in Routers : rif_stat[r] <= rif_stat'[r]

LEMMA StatsGrow == DatabaseOK /\ [Next]_vars => Grows
<1> SUFFICES ASSUME DatabaseOK, [Next]_vars PROVE Grows
  OBVIOUS
<1>1. ASSUME NEW p \in Ports PROVE port_stat[p] \in Nat
  BY DEF DatabaseOK
<1>2. ASSUME NEW r \in Routers PROVE rif_stat[r] \in Nat
  BY DEF DatabaseOK
<1>3. (UNCHANGED <<port_stat, rif_stat>>) => Grows
  BY <1>1, <1>2, SMT DEF Grows
<1>4. ASSUME NEW q \in Ports, PortCounts(q) PROVE Grows
  BY <1>1, <1>2, <1>4, SMT DEF PortCounts, Grows, DatabaseOK
<1>5. ASSUME NEW q \in Routers, RifCounts(q) PROVE Grows
  BY <1>1, <1>2, <1>5, SMT DEF RifCounts, Grows, DatabaseOK
<1>6. CASE Wake \/ WakeReinit \/ Round \/ Fault \/ UNCHANGED vars
  BY <1>3, <1>6 DEF Wake, WakeReinit, Round, ReadPortMap, ReadRouterMaps, ReadLagMaps, PortsRead, Aggregate, RefreshLags,
                    ReadPort, ReadRif, Fault, unread, redisVars, vars
<1>7. ASSUME NEW q, StatChanges(q) \/ PortChanges(q) \/ RouterChanges(q) \/ SaiChanges(q)
      PROVE  Grows
  BY <1>3, <1>7 DEF StatChanges, PortChanges, RouterChanges, SaiChanges
<1>8. ASSUME NEW g, NEW m, LagChanges(g, m) PROVE Grows
  BY <1>3, <1>8 DEF LagChanges
<1> QED
  BY <1>4, <1>5, <1>6, <1>7, <1>8, Zenon DEF Next, Redis

LEMMA DropsGrow ==
  ASSUME DatabaseOK, DatabaseOK', Grows, NEW p
  PROVE  AllDrops(p) \in Nat /\ AllDrops(p)' \in Nat /\ AllDrops(p) <= AllDrops(p)'
<1> DEFINE f == [r \in OwnRifs(p) |-> rif_stat[r]]
           g == [r \in OwnRifs(p) |-> rif_stat'[r]]
<1>1. OwnRifs(p) \subseteq Rifs /\ OwnRifs(p) \subseteq Routers
  BY DEF OwnRifs, Routers
<1>2. IsFiniteSet(OwnRifs(p))
  BY <1>1, InterfacesAssumption, FS_Subset
<1>3. f \in [OwnRifs(p) -> Nat] /\ g \in [OwnRifs(p) -> Nat]
  BY <1>1 DEF DatabaseOK
<1>4. \A r \in OwnRifs(p) : f[r] <= g[r]
  BY <1>1 DEF Grows
<1>5. AllDrops(p) = SumOf(f) /\ AllDrops(p)' = SumOf(g)
  BY DEF AllDrops, OwnRifs
<1> HIDE DEF f, g
<1>6. SumOf(f) \in Nat /\ SumOf(g) \in Nat
  BY <1>2, <1>3, SumIsNat
<1>7. SumOf(f) <= SumOf(g)
  BY <1>2, <1>3, <1>4, SumGrows
<1> QED
  BY <1>5, <1>6, <1>7

(* The drops of the RIFs that the maps have are some of all the drops.     *)
LEMMA DropsBounded ==
  ASSUME DatabaseOK, MapsOK, CountersOK, RifsBounded, NEW p, RifsOf(p) \subseteq DOMAIN rif_counters
  PROVE  Drops(p) <= AllDrops(p)
<1> DEFINE f == [r \in RifsOf(p) |-> Value(rif_counters[r])]
           g == [r \in OwnRifs(p) |-> rif_stat[r]]
<1>1. OwnRifs(p) \subseteq Rifs /\ OwnRifs(p) \subseteq Routers /\ RifsOf(p) \subseteq OwnRifs(p)
  BY DEF OwnRifs, Routers, RifsOf, MapsOK
<1>2. IsFiniteSet(OwnRifs(p))
  BY <1>1, InterfacesAssumption, FS_Subset
<1>3. ASSUME NEW r \in RifsOf(p)
      PROVE  Value(rif_counters[r]) \in Nat /\ rif_stat[r] \in Nat /\ Value(rif_counters[r]) <= rif_stat[r]
  <2>1. r \in DOMAIN rif_counters
    BY <1>3
  <2>2. rif_counters[r] = None \/ rif_counters[r] \in Nat
    BY <2>1 DEF CountersOK, Maybe
  <2>3. rif_counters[r] # None => rif_counters[r] <= rif_stat[r]
    BY <2>1 DEF RifsBounded
  <2>4. rif_stat[r] \in Nat
    BY <1>1, <1>3 DEF DatabaseOK
  <2> QED
    BY <2>2, <2>3, <2>4 DEF Value
<1>4. f \in [RifsOf(p) -> Nat] /\ g \in [OwnRifs(p) -> Nat]
  BY <1>1, <1>3 DEF DatabaseOK
<1>5. \A r \in RifsOf(p) : f[r] <= g[r]
  BY <1>1, <1>3
<1>6. Drops(p) = SumOf(f) /\ AllDrops(p) = SumOf(g)
  BY DEF Drops, AllDrops
<1> HIDE DEF f, g
<1> QED
  BY <1>1, <1>2, <1>4, <1>5, <1>6, SumGrows

LEMMA RifsBoundedStep == DatabaseOK /\ CountersOK /\ CountersOK' /\ Grows /\ RifsBounded /\ [Next]_vars => RifsBounded'
<1> SUFFICES ASSUME DatabaseOK, CountersOK, CountersOK', Grows, RifsBounded, [Next]_vars,
                    NEW s \in DOMAIN rif_counters', rif_counters'[s] # None
             PROVE  rif_counters'[s] <= rif_stat'[s]
  BY DEF RifsBounded
<1>1. s \in Routers /\ rif_counters'[s] \in Nat
  BY DEF CountersOK, Maybe
<1>2. rif_stat[s] \in Nat /\ rif_stat'[s] \in Nat /\ rif_stat[s] <= rif_stat'[s]
  <2>1. rif_stat' \in [Routers -> Nat]
    BY DatabaseStep DEF DatabaseOK
  <2> QED
    BY <1>1, <2>1 DEF DatabaseOK, Grows
<1>3. CASE UNCHANGED rif_counters
  BY <1>1, <1>2, <1>3 DEF RifsBounded
<1>4. ASSUME NEW r \in Routers, ReadRif(r) PROVE rif_counters'[s] <= rif_stat'[s]
  <2>1. CASE s = r
    <3>1. rif_counters'[s] = Of(rif_stat, r, routers)
      BY <1>4, <2>1 DEF ReadRif
    <3> QED
      BY <1>1, <1>2, <2>1, <3>1 DEF Of
  <2>2. CASE s # r
    <3>1. s \in DOMAIN rif_counters /\ rif_counters'[s] = rif_counters[s]
      BY <1>4, <2>2 DEF ReadRif
    <3> QED
      BY <1>1, <1>2, <3>1 DEF RifsBounded
  <2> QED
    BY <2>1, <2>2
<1>5. Redis \/ Wake \/ WakeReinit \/ ReadPortMap \/ ReadRouterMaps \/ ReadLagMaps \/ PortsRead \/ Aggregate \/ RefreshLags
        \/ Fault \/ (\E p \in Ports : ReadPort(p)) \/ (UNCHANGED vars) => UNCHANGED rif_counters
  BY RedisStep DEF Wake, WakeReinit, ReadPortMap, ReadRouterMaps, ReadLagMaps, PortsRead, Aggregate, RefreshLags, Fault,
                   ReadPort, dataVars, vars
<1> QED
  BY <1>3, <1>4, <1>5, Zenon DEF Next, Round

(* The counter of a port is what the step before left, what was just read, *)
(* or the one that the drops were just added to.                           *)
LEMMA CounterOrigin ==
  ASSUME [Next]_vars, CountersOK, NEW i \in Ports \cup Vlans
  PROVE  \/ if_counters'[i] = if_counters[i]
         \/ i \in Ports /\ ReadPort(i) /\ if_counters'[i] = Of(port_stat, i, counted)
         \/ Aggregate /\ if_counters'[i] = Aggregated(i)
<1>1. ASSUME NEW p \in Ports, ReadPort(p)
      PROVE  if_counters'[i] = IF i = p THEN Of(port_stat, p, counted) ELSE if_counters[i]
  BY <1>1 DEF ReadPort, CountersOK
<1>2. Aggregate => if_counters'[i] = Aggregated(i)
  BY DEF Aggregate
<1>3. Redis \/ Wake \/ WakeReinit \/ ReadPortMap \/ ReadRouterMaps \/ ReadLagMaps \/ PortsRead \/ RefreshLags
        \/ Fault \/ (\E r \in Routers : ReadRif(r)) \/ (UNCHANGED vars) => UNCHANGED if_counters
  BY RedisStep DEF Wake, WakeReinit, ReadPortMap, ReadRouterMaps, ReadLagMaps, PortsRead, RefreshLags, Fault,
                   ReadRif, dataVars, vars
<1> QED
  BY <1>1, <1>2, <1>3, Zenon DEF Next, Round

(* A port that the round has read was read before this step, or is now.    *)
LEMMA FreshStep ==
  ASSUME RoundOK, [Next]_vars, NEW p \in Fresh'
  PROVE  (p \in Fresh /\ ~Aggregate) \/ ReadPort(p)
<1> USE DEF Fresh
<1>1. CASE Redis \/ UNCHANGED vars
  <2>1. UNCHANGED <<if_id_map, todo, pc>>
    BY <1>1, RedisStep DEF vars, mapVars, roundVars
  <2>2. ~Aggregate
    BY <1>1, RedisStep, <2>1 DEF Aggregate, EndRound
  <2> QED
    BY <2>1, <2>2
<1>2. ~(Wake \/ ReadLagMaps \/ ReadRouterMaps)
  BY DEF Wake, ReadLagMaps, ReadRouterMaps, Goto, mapVars
<1>3. ~(WakeReinit \/ ReadPortMap \/ Aggregate \/ RefreshLags \/ Fault)
  BY DEF WakeReinit, ReadPortMap, Aggregate, RefreshLags, Fault, Goto, EndRound
<1>4. CASE PortsRead
  BY <1>3, <1>4 DEF PortsRead, Goto, mapVars
<1>5. ASSUME NEW q \in Ports, ReadPort(q) PROVE (p \in Fresh /\ ~Aggregate) \/ ReadPort(p)
  BY <1>3, <1>5 DEF ReadPort, Goto, mapVars
<1>6. ASSUME NEW r \in Routers, ReadRif(r) PROVE p \in Fresh /\ ~Aggregate
  BY <1>3, <1>6 DEF ReadRif, Goto, mapVars
<1> QED
  BY <1>1, <1>2, <1>3, <1>4, <1>5, <1>6, Zenon DEF Next, Round

LEMMA BareStep == DatabaseOK /\ DatabaseOK' /\ CountersOK /\ CountersOK' /\ RoundOK /\ Grows /\ Bare /\ [Next]_vars => Bare'
<1> SUFFICES ASSUME DatabaseOK, DatabaseOK', CountersOK, CountersOK', RoundOK, Grows, Bare, [Next]_vars,
                    NEW p \in Ports, p \in Fresh', if_counters'[p] # None
             PROVE  if_counters'[p] <= port_stat'[p]
  BY DEF Bare
<1>1. if_counters'[p] \in Nat
  BY DEF CountersOK, Maybe
<1>2. port_stat[p] \in Nat /\ port_stat'[p] \in Nat /\ port_stat[p] <= port_stat'[p]
  BY DEF DatabaseOK, Grows
<1>3. CASE ReadPort(p)
  <2>1. if_counters'[p] = Of(port_stat, p, counted)
    BY <1>3 DEF ReadPort, CountersOK
  <2> QED
    BY <1>1, <1>2, <2>1 DEF Of
<1>4. CASE p \in Fresh /\ ~Aggregate /\ ~ReadPort(p)
  <2>1. if_counters'[p] = if_counters[p]
    BY <1>4, CounterOrigin
  <2> QED
    BY <1>1, <1>2, <1>4, <2>1 DEF Bare
<1> QED
  BY <1>3, <1>4, FreshStep

LEMMA PortsBoundedStep ==
  TypeInv /\ TypeInv' /\ Grows /\ Bare /\ RifsBounded /\ PortsBounded /\ [Next]_vars => PortsBounded'
<1> SUFFICES ASSUME TypeInv, TypeInv', Grows, Bare, RifsBounded, PortsBounded, [Next]_vars,
                    NEW p \in Ports, if_counters'[p] # None
             PROVE  if_counters'[p] <= port_stat'[p] + AllDrops(p)'
  BY Zenon DEF PortsBounded
<1> USE DEF TypeInv
<1>1. if_counters'[p] \in Nat
  BY DEF CountersOK, Maybe
<1>2. port_stat[p] \in Nat /\ port_stat'[p] \in Nat /\ port_stat[p] <= port_stat'[p]
  BY DEF DatabaseOK, Grows
<1>3. AllDrops(p) \in Nat /\ AllDrops(p)' \in Nat /\ AllDrops(p) <= AllDrops(p)'
  BY DropsGrow
<1>4. PICK now : now = AllDrops(p)
  OBVIOUS
<1>5. PICK after : after = AllDrops(p)'
  OBVIOUS
<1>6. if_counters[p] # None => if_counters[p] \in Nat /\ if_counters[p] <= port_stat[p] + now
  BY <1>4 DEF PortsBounded, CountersOK, Maybe
<1>7. CASE if_counters'[p] = if_counters[p]
  BY <1>1, <1>2, <1>3, <1>4, <1>5, <1>6, <1>7
<1>8. CASE ReadPort(p) /\ if_counters'[p] = Of(port_stat, p, counted)
  BY <1>1, <1>2, <1>3, <1>8 DEF Of
<1>9. CASE Aggregate /\ if_counters'[p] = Aggregated(p)
  <2>1. rif_port_map \subseteq DOMAIN rif_counters
    BY <1>9 DEF Aggregate, RoundOK
  <2>2. RifsOf(p) \subseteq DOMAIN rif_counters
    BY <2>1 DEF RifsOf
  <2>3. Drops(p) \in Nat
    BY <2>2, DropsAreNat
  <2>4. Drops(p) <= AllDrops(p)
    BY <2>2, DropsBounded
  <2>5. CASE if_counters'[p] = Value(if_counters[p]) + Drops(p) /\ p \in if_id_map
    <3>1. p \in Fresh
      BY <1>9, <2>5 DEF Aggregate, Fresh
    <3>2. if_counters[p] # None => if_counters[p] \in Nat /\ if_counters[p] <= port_stat[p]
      BY <3>1 DEF Bare, CountersOK, Maybe
    <3>3. Value(if_counters[p]) \in Nat /\ Value(if_counters[p]) <= port_stat[p]
      BY <1>2, <3>2 DEF Value
    <3> QED
      BY <1>2, <1>3, <2>3, <2>4, <2>5, <3>3
  <2> QED
    BY <1>7, <1>9, <2>5 DEF Aggregated
<1> QED
  BY <1>7, <1>8, <1>9, CounterOrigin

LEMMA VlansBoundedStep ==
  TypeInv /\ TypeInv' /\ Grows /\ RifsBounded /\ VlansBounded /\ [Next]_vars => VlansBounded'
<1> SUFFICES ASSUME TypeInv, TypeInv', Grows, RifsBounded, VlansBounded, [Next]_vars,
                    NEW v \in Vlans, if_counters'[v] # None
             PROVE  if_counters'[v] <= rif_stat'[v]
  BY Zenon DEF VlansBounded
<1> USE DEF TypeInv
<1>1. if_counters'[v] \in Nat
  BY DEF CountersOK, Maybe
<1>2. rif_stat[v] \in Nat /\ rif_stat'[v] \in Nat /\ rif_stat[v] <= rif_stat'[v]
  BY DEF DatabaseOK, Grows, Routers
<1>3. if_counters[v] # None => if_counters[v] \in Nat /\ if_counters[v] <= rif_stat[v]
  BY DEF VlansBounded, CountersOK, Maybe
<1>4. CASE if_counters'[v] = if_counters[v]
  BY <1>1, <1>2, <1>3, <1>4
<1>5. v \notin Ports
  <2>1. <<Ports, Lags, Vlans, Mgmt, Rifs>>[1] \cap <<Ports, Lags, Vlans, Mgmt, Rifs>>[3] = {}
    BY InterfacesAssumption
  <2> QED
    BY <2>1
<1>6. CASE Aggregate /\ if_counters'[v] = Aggregated(v)
  <2>1. vlan_name_map \subseteq DOMAIN rif_counters
    BY <1>6 DEF Aggregate, RoundOK
  <2>2. CASE v \in vlan_name_map /\ rif_counters[v] # None /\ if_counters'[v] = rif_counters[v]
    BY <1>1, <1>2, <2>1, <2>2 DEF RifsBounded
  <2> QED
    BY <1>4, <1>5, <1>6, <2>2 DEF Aggregated
<1> QED
  BY <1>4, <1>5, <1>6, CounterOrigin

CountInv == TypeInv /\ Bare /\ RifsBounded /\ PortsBounded /\ VlansBounded

(* However rounds end and maps and counters come and go, no counter of a    *)
(* port or a VLAN is more than what its hardware has counted.  Inside a     *)
(* round the drops are added only to a counter read in the same round.      *)
THEOREM NotOvercountedHolds == Spec => []NotOvercounted
<1>1. Init => Bare /\ RifsBounded /\ PortsBounded /\ VlansBounded
  BY DEF Init, Bare, Fresh, RifsBounded, PortsBounded, VlansBounded
<1>2. CountInv /\ TypeInv' /\ [Next]_vars => CountInv'
  <2> SUFFICES ASSUME CountInv, TypeInv', [Next]_vars PROVE CountInv'
    OBVIOUS
  <2>1. TypeInv /\ DatabaseOK /\ DatabaseOK' /\ RoundOK /\ CountersOK /\ CountersOK'
    BY DEF CountInv, TypeInv
  <2>2. Grows
    BY <2>1, StatsGrow
  <2>3. Bare'
    BY <2>1, <2>2, BareStep DEF CountInv
  <2>4. RifsBounded'
    BY <2>1, <2>2, RifsBoundedStep DEF CountInv
  <2>5. PortsBounded'
    BY <2>2, PortsBoundedStep DEF CountInv
  <2>6. VlansBounded'
    BY <2>2, VlansBoundedStep DEF CountInv
  <2> QED
    BY <2>3, <2>4, <2>5, <2>6 DEF CountInv
<1>3. CountInv => NotOvercounted
  BY DEF CountInv, PortsBounded, VlansBounded, AllDrops, OwnRifs, NotOvercounted
<1>4. TypeInv /\ Bare /\ RifsBounded /\ PortsBounded /\ VlansBounded => CountInv
  BY DEF CountInv
<1> QED
  BY <1>1, <1>2, <1>3, <1>4, TypeInvHolds, PTL DEF Spec

=============================================================================
