------------------------------- MODULE Sensors -------------------------------
(***************************************************************************)
(* entPhySensorTable: PhysicalSensorTableMIBUpdater of rfc3433.py, which   *)
(* keeps the keys of four tables of STATE_DB from a reinit to the next and *)
(* reads the entries behind them in every round; sensor_data.py, which     *)
(* finds the sensors of an entry; and the conversion of a reading.         *)
(***************************************************************************)
EXTENDS Integers, Sequences, FiniteSets, SequencesExt, SortedLists, SubOids

CONSTANTS
  Entities,  \* records: kind; for a transceiver ifindex, else pos; for a fan parent
  Entries,   \* what the table of a kind may hold: readings by sensor
  Initial,   \* the tables at the start
  Factor,    \* 10 ** PRECISION, for each sensor of each kind
  Unit,      \* a reading is a number of (1 / Unit)s
  Limit,     \* EntitySensorValueRange.MAX
  None,      \* no entry
  Null,      \* the readings 'N/A', 'None' and ''
  Text,      \* another that is not a number
  Overflows, \* one that float() takes and the conversion raises for: nan, 1e9 dBm
  MaxChanges, MaxFaults   \* bounds: changes in STATE_DB, exceptions of Redis

Kinds == <<"xcvr", "psu", "fan", "thermal">>
Of(k) == {e \in Entities : e.kind = Kinds[k]}

Places(kind) == {"placed", "skipped"} \cup (IF kind \in {"fan", "thermal"} THEN {"raises"} ELSE {})

\* A sensor of a transceiver or of a PSU is the offset of its sub OID.
ASSUME SensorsAssumption ==
  /\ \A e \in Entities :
       /\ \E k \in DOMAIN Kinds : e.kind = Kinds[k]
       /\ IF e.kind = "xcvr" THEN e.ifindex \in Nat ELSE e.pos \in Nat
       /\ e.kind = "fan" => e.parent \in Nat
       /\ None \notin Entries[e.kind]
       /\ \A n \in Entries[e.kind] :
            /\ IsFiniteSet(DOMAIN n)
            /\ \A s \in DOMAIN n :
                 /\ s \in Nat /\ Factor[e.kind][s] \in Nat
                 /\ n[s] \in {Null, Text, Overflows} \/ n[s] \in Int
  /\ \A f \in Initial :
       /\ DOMAIN f = Entities
       /\ \A e \in Entities : f[e] \in Entries[e.kind] \cup {None}
  /\ Unit \in Nat \ {0} /\ Limit \in Nat
  /\ MaxChanges \in Nat /\ MaxFaults \in Nat

VARIABLES
  entry,    \* the tables of sensors
  place,    \* what the other entries that the updater reads for an entity make of it
  changes,
  pc,       \* "asleep", "reinit", "update"
  kind,     \* the table it is at, 1 .. 4
  todo,     \* the entities of that table it has not come to
  finished, \* whether the last round raised nothing
  torn,     \* whether the last reinit raised: the maps were cleared, the list stays
  keys,     \* transceiver_dom, psu_sensor, fan_sensor, thermal_sensor
  sub_ids,
  values,   \* the ent_phy_sensor_*_maps: value and status by sub OID
  faults

redisVars == <<entry, place, changes>>
roundVars == <<pc, kind, todo, finished, torn>>
vars == <<redisVars, roundVars, keys, sub_ids, values, faults>>

Maybe(S) == S \cup {None}

TypeOK ==
  /\ \A e \in Entities : entry[e] \in Maybe(Entries[e.kind]) /\ place[e] \in Places(e.kind)
  /\ changes \in 0 .. MaxChanges /\ faults \in 0 .. MaxFaults
  /\ pc \in {"asleep", "reinit", "update"} /\ kind \in DOMAIN Kinds
  /\ todo \subseteq Of(kind)
  /\ finished \in BOOLEAN /\ torn \in BOOLEAN
  /\ \A k \in DOMAIN Kinds : keys[k] \subseteq Of(k)
  /\ sub_ids \in Seq(Nat)
  /\ \A s \in DOMAIN values :
       values[s].value \in -Limit .. Limit /\ values[s].status \in {"ok", "unavailable"}

Init ==
  /\ entry \in Initial
  /\ place = [e \in Entities |-> "placed"]
  /\ changes = 0
  /\ pc = "asleep" /\ kind = 1 /\ todo = {} /\ finished = FALSE /\ torn = FALSE
  /\ keys = [k \in DOMAIN Kinds |-> {}]
  /\ sub_ids = <<>> /\ values = <<>>
  /\ faults = 0

-----------------------------------------------------------------------------
(* STATE_DB: the platform daemons write and delete.                        *)

Count == changes < MaxChanges /\ changes' = changes + 1

EntryChanges(e, n) ==
  /\ Count
  /\ entry[e] # n
  /\ entry' = [entry EXCEPT ![e] = n]
  /\ UNCHANGED <<place, roundVars, keys, sub_ids, values, faults>>

PlaceChanges(e, p) ==
  /\ Count
  /\ place[e] # p
  /\ place' = [place EXCEPT ![e] = p]
  /\ UNCHANGED <<entry, roundVars, keys, sub_ids, values, faults>>

-----------------------------------------------------------------------------
(* The sensors of an entity and their values.                              *)

\* The sub OID of sensor s of entity e.
SubId(e, s) ==
  CASE e.kind = "xcvr" -> get_transceiver_sensor_sub_id(e.ifindex, s)
    [] e.kind = "psu" -> get_psu_sensor_sub_id(get_psu_sub_id(e.pos), s)
    [] e.kind = "fan" -> get_fan_tachometers_sub_id(get_fan_sub_id(e.parent, e.pos))
    [] e.kind = "thermal" -> get_chassis_thermal_sub_id(e.pos)

\* round(): to the nearest, a half to the even one.
Round(n, d) ==
  LET q == n \div d
      r == 2 * (n % d)
  IN  IF r > d \/ (r = d /\ q % 2 = 1) THEN q + 1 ELSE q

\* Fault: the value is only bounded above.
mib_values_NoMinimum(raw, factor) ==
  IF raw \in {Null, Text} THEN [value |-> 0, status |-> "unavailable"]
  ELSE LET n == raw * factor
       IN  [value |-> IF n > Limit * Unit THEN Limit ELSE Round(n, Unit),
            status |-> "ok"]

\* SensorInterface.mib_values.  The reading of a power is one after its conversion
\* to milliwatts.
mib_values(raw, factor) ==
  IF raw \in {Null, Text} THEN [value |-> 0, status |-> "unavailable"]
  ELSE LET n == raw * factor
       IN  [value |-> IF n > Limit * Unit THEN Limit
                      ELSE IF n < -Limit * Unit THEN -Limit
                      ELSE Round(n, Unit),
            status |-> "ok"]

\* The sensors that are shown of an entry: an unparsable reading of a transceiver
\* is one of an unavailable sensor, a null one of another entity is passed over.
Shown(e, n) ==
  {s \in DOMAIN n : n[s] # Overflows /\ (e.kind = "xcvr" \/ n[s] # Null)}

SubIds(e, n) == {SubId(e, s) : s \in Shown(e, n)}

ValuesOf(e, n) ==
  [id \in SubIds(e, n) |-> LET s == CHOOSE s \in Shown(e, n) : SubId(e, s) = id
                           IN  mib_values(n[s], Factor[e.kind][s])]

-----------------------------------------------------------------------------
(* reinit_data.                                                            *)

Wake ==
  /\ pc = "asleep"
  /\ pc' = "update" /\ kind' = 1 /\ todo' = keys[1]
  /\ sub_ids' = <<>>
  /\ UNCHANGED <<redisVars, finished, torn, keys, values, faults>>

WakeReinit ==
  /\ pc = "asleep"
  /\ pc' = "reinit" /\ kind' = 1
  /\ values' = <<>>
  /\ UNCHANGED <<redisVars, todo, finished, torn, keys, sub_ids, faults>>

Found(k) == {e \in Of(k) : entry[e] # None}

\* Fault: keys that are known are not read again.
ReadKeys_Once(k) == IF keys[k] = {} THEN Found(k) ELSE keys[k]

\* An empty answer leaves the keys that were known.
ReadKeys(k) == IF Found(k) = {} THEN keys[k] ELSE Found(k)

Reinit ==
  /\ pc = "reinit"
  /\ keys' = [keys EXCEPT ![kind] = ReadKeys(kind)]
  /\ kind < Len(Kinds)
  /\ kind' = kind + 1
  /\ UNCHANGED <<redisVars, pc, todo, finished, torn, sub_ids, values, faults>>

\* Fault: the list is built on that of the round before.
ReinitEnds_KeepsList ==
  /\ pc = "reinit" /\ kind = Len(Kinds)
  /\ keys' = [keys EXCEPT ![kind] = ReadKeys(kind)]
  /\ pc' = "update" /\ kind' = 1 /\ todo' = keys'[1]
  /\ torn' = FALSE
  /\ UNCHANGED <<redisVars, finished, sub_ids, values, faults>>

\* The last table, and the first statement of update_data.
ReinitEnds ==
  /\ pc = "reinit" /\ kind = Len(Kinds)
  /\ keys' = [keys EXCEPT ![kind] = ReadKeys(kind)]
  /\ pc' = "update" /\ kind' = 1 /\ todo' = keys'[1]
  /\ torn' = FALSE
  /\ sub_ids' = <<>>
  /\ UNCHANGED <<redisVars, finished, values, faults>>

-----------------------------------------------------------------------------
(* update_data.  One entity is one step.                                   *)

Raise == pc' = "asleep" /\ kind' = 1 /\ todo' = {} /\ finished' = FALSE

\* A transceiver without a type and an RJ45 port are skipped; a PSU or a fan without
\* a position; a fan whose parent has no entry; a thermal that is not in the chassis.
SkipEntity(e) ==
  /\ pc = "update" /\ e \in todo
  /\ place[e] = "skipped" \/ (place[e] = "placed" /\ entry[e] = None)
  /\ todo' = todo \ {e}
  /\ UNCHANGED <<redisVars, pc, kind, finished, torn, keys, sub_ids, values, faults>>

\* The maps with the values of an entity set in them.
Updated(old, new) ==
  [id \in DOMAIN old \cup DOMAIN new |-> IF id \in DOMAIN new THEN new[id] ELSE old[id]]

\* int('') of the position: of a fan's parent, or of a thermal in the chassis.
EntityRaises(e) ==
  /\ pc = "update" /\ e \in todo
  /\ place[e] = "raises"
  /\ Raise
  /\ UNCHANGED <<redisVars, torn, keys, sub_ids, values, faults>>

ReadEntity(e) ==
  /\ pc = "update" /\ e \in todo
  /\ place[e] = "placed" /\ entry[e] # None
  /\ values' = Updated(values, ValuesOf(e, entry[e]))
  /\ sub_ids' = sub_ids \o SetToSeq(SubIds(e, entry[e]))
  /\ todo' = todo \ {e}
  /\ UNCHANGED <<redisVars, pc, kind, finished, torn, keys, faults>>

TableEnds ==
  /\ pc = "update" /\ todo = {}
  /\ kind < Len(Kinds)
  /\ kind' = kind + 1 /\ todo' = keys[kind + 1]
  /\ UNCHANGED <<redisVars, pc, finished, torn, keys, sub_ids, values, faults>>

\* Fault: the list stays in the order of the tables.
UpdateEnds_NotSorted ==
  /\ pc = "update" /\ todo = {} /\ kind = Len(Kinds)
  /\ pc' = "asleep" /\ kind' = 1 /\ finished' = TRUE
  /\ UNCHANGED <<redisVars, todo, torn, keys, sub_ids, values, faults>>

UpdateEnds ==
  /\ pc = "update" /\ todo = {} /\ kind = Len(Kinds)
  /\ pc' = "asleep" /\ kind' = 1 /\ finished' = TRUE
  /\ sub_ids' = Sorted(sub_ids)
  /\ UNCHANGED <<redisVars, todo, torn, keys, values, faults>>

\* Redis raises at any access.
Fault ==
  /\ pc # "asleep"
  /\ faults < MaxFaults
  /\ faults' = faults + 1
  /\ Raise
  /\ torn' = (torn \/ pc = "reinit")
  /\ UNCHANGED <<redisVars, keys, sub_ids, values>>

Redis ==
  \E e \in Entities :
    \/ \E n \in Maybe(Entries[e.kind]) : EntryChanges(e, n)
    \/ \E p \in Places(e.kind) : PlaceChanges(e, p)

Proceed ==
  \/ Reinit \/ ReinitEnds \/ TableEnds \/ UpdateEnds
  \/ \E e \in Entities : SkipEntity(e) \/ EntityRaises(e) \/ ReadEntity(e)

Next == Redis \/ Wake \/ WakeReinit \/ Proceed \/ Fault

Spec == Init /\ [][Next]_vars

\* The event loop finishes a round; a reinit comes back again and again.
FairSpec == Spec /\ WF_vars(Proceed) /\ SF_vars(WakeReinit)

-----------------------------------------------------------------------------
(* Properties.                                                             *)

\* What the digits of a sub OID have room for: positions below 100 and nine lanes.
\* A fan is in a drawer, in a PSU, or in the virtual drawer of one of the chassis.
Holder(e) == IF e.parent = CHASSIS_SUB_ID THEN get_fan_drawer_sub_id(e.pos) ELSE e.parent

WithinLayers ==
  /\ \A e \in Of(1) : \A n \in Entries["xcvr"] : DOMAIN n \subseteq TransceiverSensorOffsets(1 .. 9)
  /\ \A e \in Of(2) : \A n \in Entries["psu"] : DOMAIN n \subseteq PSU_SENSOR_PART_IDS
  /\ \A e \in Of(2) \cup Of(3) \cup Of(4) : e.pos < 100
  /\ \A e \in Of(3) : \E p \in 0 .. 99 : Holder(e) \in {get_fan_drawer_sub_id(p), get_psu_sub_id(p)}

\* No two entities of a kind are in the same place.
Apart ==
  /\ \A e, f \in Of(1) : e.ifindex = f.ifindex => e = f
  /\ \A k \in {2, 4} : \A e, f \in Of(k) : e.pos = f.pos => e = f
  /\ \A e, f \in Of(3) : Holder(e) = Holder(f) /\ e.pos = f.pos => e = f

\* After a round that raised nothing get_next searches a sorted list in which no two
\* sensors, of whatever kind, have the same sub OID.
SensorsSorted ==
  pc = "asleep" /\ finished => \A i, j \in DOMAIN sub_ids : i < j => sub_ids[i] < sub_ids[j]

\* However a round ended, the columns of a listed sensor have a value read for it,
\* not the default for a sub OID that is not in the maps, unless a reinit that
\* raised has cleared them.
ListedHasValues ==
  pc = "asleep" /\ ~torn => ToSet(sub_ids) \subseteq DOMAIN values

\* What the table holds of entity e when it is up to date.
Live(e) == IF place[e] = "placed" /\ entry[e] # None THEN SubIds(e, entry[e]) ELSE {}
Blocked(k) == \E e \in Of(k) : place[e] = "raises" /\ (entry[e] # None \/ e \in keys[k])
Unblocked == {e \in Entities : \A k \in DOMAIN Kinds : Blocked(k) => \E l \in 1 .. k - 1 : e \in Of(l)}

Current ==
  /\ pc = "asleep"
  /\ \A e \in Unblocked : \A id \in Live(e) :
       id \in ToSet(sub_ids) \cap DOMAIN values /\ values[id] = ValuesOf(e, entry[e])[id]
  /\ Unblocked = Entities => ToSet(sub_ids) = UNION {Live(e) : e \in Entities}

\* Once STATE_DB rests, the table is what it holds.  An entity whose position
\* cannot be read takes away the sensors behind it, never those of an earlier table;
\* keys that an empty answer left bring no sensor back.
Converges == []<>Current

=============================================================================
