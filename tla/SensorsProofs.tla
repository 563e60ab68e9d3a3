---------------------------- MODULE SensorsProofs ----------------------------
(***************************************************************************)
(* Theorems about SubOids: within which positions and lanes the layers of  *)
(* digits of entPhysicalIndex do not run into each other, and where they   *)
(* do.  On them rest those about Sensors: its variables keep their types,  *)
(* a value never leaves its range, the list that get_next searches is      *)
(* sorted after a round that raised nothing, and what is listed has a      *)
(* value.                                                                  *)
(***************************************************************************)
EXTENDS Sensors, FiniteSetTheorems, SequenceTheorems, TLAPS

Positions == 0 .. 99
Lanes == 1 .. 9
LaneBases == {SENSOR_TYPE_PORT_TX_POWER, SENSOR_TYPE_PORT_RX_POWER, SENSOR_TYPE_PORT_TX_BIAS}

PsuSensor(psu, part) == get_psu_sensor_sub_id(get_psu_sub_id(psu), part)
DrawerFan(drawer, fan) == get_fan_tachometers_sub_id(get_fan_sub_id(get_fan_drawer_sub_id(drawer), fan))
PsuFan(psu, fan) == get_fan_tachometers_sub_id(get_fan_sub_id(get_psu_sub_id(psu), fan))

(* Every definition below is a sum of decimal digits: the provers see the  *)
(* sums.                                                                   *)
USE DEF Positions, Lanes, LaneBases, PsuSensor, DrawerFan, PsuFan,
        MODULE_TYPE_MULTIPLE, MODULE_INDEX_MULTIPLE, MODULE_TYPE_MGMT, MODULE_TYPE_FAN_DRAWER, MODULE_TYPE_PSU,
        MODULE_TYPE_PORT, DEVICE_TYPE_MULTIPLE, DEVICE_INDEX_MULTIPLE, DEVICE_TYPE_FAN,
        DEVICE_TYPE_CHASSIS_THERMAL, DEVICE_TYPE_POWER_MONITOR, SENSOR_TYPE_TEMP, SENSOR_TYPE_FAN,
        SENSOR_TYPE_POWER, SENSOR_TYPE_CURRENT, SENSOR_TYPE_VOLTAGE, PORT_IFINDEX_MULTIPLE,
        SENSOR_TYPE_PORT_TX_POWER, SENSOR_TYPE_PORT_RX_POWER, SENSOR_TYPE_PORT_TX_BIAS,
        CHASSIS_SUB_ID, CHASSIS_MGMT_SUB_ID, PSU_SENSOR_PART_IDS,
        get_chassis_thermal_sub_id, get_fan_drawer_sub_id, get_fan_sub_id, get_fan_tachometers_sub_id,
        get_psu_sub_id, get_psu_sensor_sub_id, get_transceiver_sub_id, get_transceiver_sensor_sub_id

(* The sub OID of a transceiver's sensor gives its ifindex and its offset. *)
LEMMA TransceiverSensorsDistinct ==
  \A i, j \in Nat : \A o, u \in Positions : get_transceiver_sensor_sub_id(i, o) = get_transceiver_sensor_sub_id(j, u) => i = j /\ o = u
BY SMT

(* That of a PSU's sensor gives the PSU and the kind of reading.           *)
LEMMA PsuSensorsDistinct ==
  \A p, q \in Positions : \A a, b \in PSU_SENSOR_PART_IDS : PsuSensor(p, a) = PsuSensor(q, b) => p = q /\ a = b
BY SMT

(* That of the tachometer of a drawer's fan gives the drawer and the fan.  *)
LEMMA DrawerFansDistinct ==
  \A p, q, f, g \in Positions : DrawerFan(p, f) = DrawerFan(q, g) => p = q /\ f = g
BY SMT

(* That of the tachometer of a PSU's fan gives the PSU and the fan.        *)
LEMMA PsuFansDistinct ==
  \A p, q, f, g \in Positions : PsuFan(p, f) = PsuFan(q, g) => p = q /\ f = g
BY SMT

(* That of a thermal of the chassis gives its position.                    *)
LEMMA ThermalsDistinct ==
  \A p, q \in Positions : get_chassis_thermal_sub_id(p) = get_chassis_thermal_sub_id(q) => p = q
BY SMT

(* Two sensors of different kinds never share a sub OID, at positions      *)
(* below 100 and for any ifindex.                                          *)
THEOREM SensorKindsApart ==
  ASSUME NEW p \in Positions, NEW q \in Positions, NEW f \in Positions, NEW g \in Positions,
         NEW part \in PSU_SENSOR_PART_IDS, NEW t \in Positions, NEW i \in Nat, NEW o \in Nat
  PROVE  /\ get_chassis_thermal_sub_id(t) < DrawerFan(p, f)
         /\ DrawerFan(p, f) < PsuFan(q, g) /\ DrawerFan(p, f) < PsuSensor(q, part)
         /\ PsuFan(q, g) # PsuSensor(p, part)
         /\ PsuFan(q, g) < get_transceiver_sensor_sub_id(i, o)
         /\ PsuSensor(q, part) < get_transceiver_sensor_sub_id(i, o)
<1>1. get_chassis_thermal_sub_id(t) < DrawerFan(p, f)
  BY SMT
<1>2. DrawerFan(p, f) < PsuFan(q, g) /\ DrawerFan(p, f) < PsuSensor(q, part)
  BY SMT
<1>3. PsuFan(q, g) # PsuSensor(p, part)
  BY SMT
<1>4. PsuFan(q, g) < get_transceiver_sensor_sub_id(i, o) /\ PsuSensor(q, part) < get_transceiver_sensor_sub_id(i, o)
  BY SMT
<1> QED
  BY SMT, <1>1, <1>2, <1>3, <1>4

(* The offsets of a transceiver's sensors differ for up to nine lanes.     *)
THEOREM LaneOffsetsDistinct ==
  /\ \A b, c \in LaneBases : \A l, m \in Lanes : b + l = c + m => b = c /\ l = m
  /\ \A b \in LaneBases : \A l \in Lanes : b + l \notin {SENSOR_TYPE_TEMP, SENSOR_TYPE_VOLTAGE}
BY SMT

(* Where the layers run into each other: the tenth lane's bias is the      *)
(* voltage, the eleventh lane's transmit power is the first lane's         *)
(* received power, a fan of the chassis is the fan of the same position in *)
(* the drawer of that position, and drawer 100 is PSU 0.                   *)
THEOREM LayersMeet ==
  /\ SENSOR_TYPE_PORT_TX_BIAS + 10 = SENSOR_TYPE_VOLTAGE
  /\ SENSOR_TYPE_PORT_TX_POWER + 11 = SENSOR_TYPE_PORT_RX_POWER + 1
  /\ \A p \in Nat : get_fan_sub_id(CHASSIS_SUB_ID, p) = get_fan_sub_id(get_fan_drawer_sub_id(p), p)
  /\ \A p \in Nat : get_fan_drawer_sub_id(p + 100) = get_psu_sub_id(p)
<1>1. SENSOR_TYPE_PORT_TX_BIAS + 10 = SENSOR_TYPE_VOLTAGE /\ SENSOR_TYPE_PORT_TX_POWER + 11 = SENSOR_TYPE_PORT_RX_POWER + 1
  BY SMT
<1>2. \A p \in Nat : get_fan_sub_id(CHASSIS_SUB_ID, p) = get_fan_sub_id(get_fan_drawer_sub_id(p), p)
  BY SMT
<1>3. \A p \in Nat : get_fan_drawer_sub_id(p + 100) = get_psu_sub_id(p)
  BY SMT
<1> QED
  BY SMT, <1>1, <1>2, <1>3

(* What the digits make of a fan's parent, of the offsets and of the kinds. *)
LEMMA FanSubIds ==
  ASSUME NEW parent \in Nat, NEW pos \in Nat, NEW q \in Positions, NEW holder,
         holder = IF parent = CHASSIS_SUB_ID THEN get_fan_drawer_sub_id(pos) ELSE parent
  PROVE  /\ holder = get_fan_drawer_sub_id(q)
              => get_fan_tachometers_sub_id(get_fan_sub_id(parent, pos)) = DrawerFan(q, pos)
         /\ holder = get_psu_sub_id(q)
              => get_fan_tachometers_sub_id(get_fan_sub_id(parent, pos)) = PsuFan(q, pos)
BY SMT

LEMMA Offsets == TransceiverSensorOffsets(1 .. 9) \subseteq Positions /\ PSU_SENSOR_PART_IDS \subseteq Positions
<1>1. \A o \in TransceiverSensorOffsets(1 .. 9) :
        \/ o \in {SENSOR_TYPE_TEMP, SENSOR_TYPE_VOLTAGE}
        \/ \E base \in LaneBases, lane \in 1 .. 9 : o = base + lane
  <2> HIDE DEF SENSOR_TYPE_TEMP, SENSOR_TYPE_VOLTAGE, SENSOR_TYPE_PORT_TX_POWER, SENSOR_TYPE_PORT_RX_POWER,
               SENSOR_TYPE_PORT_TX_BIAS
  <2> QED
    BY DEF TransceiverSensorOffsets
<1>2. \A base \in LaneBases, lane \in 1 .. 9 : base + lane \in Positions
  BY SMT
<1>3. \A o \in TransceiverSensorOffsets(1 .. 9) : o \in Positions
  BY <1>1, <1>2, SMT
<1>4. \A part \in PSU_SENSOR_PART_IDS : part \in Positions
  BY SMT
<1> QED
  BY <1>3, <1>4

LEMMA SubIdBands ==
  ASSUME NEW p \in Positions, NEW f \in Positions, NEW part \in PSU_SENSOR_PART_IDS, NEW i \in Nat, NEW o \in Nat
  PROVE  /\ get_chassis_thermal_sub_id(p) < MODULE_TYPE_FAN_DRAWER
         /\ MODULE_TYPE_FAN_DRAWER < DrawerFan(p, f) /\ DrawerFan(p, f) < MODULE_TYPE_PSU
         /\ MODULE_TYPE_PSU < PsuFan(p, f) /\ PsuFan(p, f) < MODULE_TYPE_PORT
         /\ MODULE_TYPE_PSU < PsuSensor(p, part) /\ PsuSensor(p, part) < MODULE_TYPE_PORT
         /\ MODULE_TYPE_PORT <= get_transceiver_sensor_sub_id(i, o)
<1>1. get_chassis_thermal_sub_id(p) < MODULE_TYPE_FAN_DRAWER
  BY SMT
<1>2. MODULE_TYPE_FAN_DRAWER < DrawerFan(p, f) /\ DrawerFan(p, f) < MODULE_TYPE_PSU
  BY SMT
<1>3. MODULE_TYPE_PSU < PsuFan(p, f) /\ PsuFan(p, f) < MODULE_TYPE_PORT
  BY SMT
<1>4. MODULE_TYPE_PSU < PsuSensor(p, part) /\ PsuSensor(p, part) < MODULE_TYPE_PORT
  BY SMT
<1>5. MODULE_TYPE_PORT <= get_transceiver_sensor_sub_id(i, o)
  BY SMT
<1> QED
  BY <1>1, <1>2, <1>3, <1>4, <1>5, SMT

LEMMA SubIdsAreNumbers ==
  ASSUME NEW p \in Nat, NEW q \in Nat, NEW r \in Nat
  PROVE  /\ get_transceiver_sensor_sub_id(p, q) \in Nat
         /\ get_psu_sensor_sub_id(get_psu_sub_id(p), q) \in Nat
         /\ get_fan_tachometers_sub_id(get_fan_sub_id(p, q)) \in Nat
         /\ get_chassis_thermal_sub_id(p) \in Nat
BY SMT

LEMMA BandsAscend ==
  /\ MODULE_TYPE_FAN_DRAWER \in Nat /\ MODULE_TYPE_PSU \in Nat /\ MODULE_TYPE_PORT \in Nat
  /\ MODULE_TYPE_FAN_DRAWER < MODULE_TYPE_PSU /\ MODULE_TYPE_PSU < MODULE_TYPE_PORT
BY SMT

LEMMA PsuFanIsNoSensor ==
  \A p, q, f \in Positions : \A part \in PSU_SENSOR_PART_IDS : PsuFan(q, f) # PsuSensor(p, part)
BY SMT

(* Members of the sets of numbers.                                         *)
LEMMA SomeNumbers == 0 \in Positions /\ 0 \in Nat /\ SENSOR_TYPE_TEMP \in PSU_SENSOR_PART_IDS
BY SMT

(* The sums have served: what follows needs the lemmas only.               *)
HIDE DEF Positions, Lanes, LaneBases, PsuSensor, DrawerFan, PsuFan,
         MODULE_TYPE_MULTIPLE, MODULE_INDEX_MULTIPLE, MODULE_TYPE_MGMT, MODULE_TYPE_FAN_DRAWER, MODULE_TYPE_PSU,
         MODULE_TYPE_PORT, DEVICE_TYPE_MULTIPLE, DEVICE_INDEX_MULTIPLE, DEVICE_TYPE_FAN,
         DEVICE_TYPE_CHASSIS_THERMAL, DEVICE_TYPE_POWER_MONITOR, SENSOR_TYPE_TEMP, SENSOR_TYPE_FAN,
         SENSOR_TYPE_POWER, SENSOR_TYPE_CURRENT, SENSOR_TYPE_VOLTAGE, PORT_IFINDEX_MULTIPLE,
         SENSOR_TYPE_PORT_TX_POWER, SENSOR_TYPE_PORT_RX_POWER, SENSOR_TYPE_PORT_TX_BIAS,
         CHASSIS_SUB_ID, CHASSIS_MGMT_SUB_ID, PSU_SENSOR_PART_IDS,
         get_chassis_thermal_sub_id, get_fan_drawer_sub_id, get_fan_sub_id, get_fan_tachometers_sub_id,
         get_psu_sub_id, get_psu_sensor_sub_id, get_transceiver_sub_id, get_transceiver_sensor_sub_id

(* Two sensors of one kind, at positions below 100, have different sub     *)
(* OIDs unless they are the same sensor of the same entity.                *)
THEOREM SensorSubIdsDistinct ==
  /\ \A i, j \in Nat : \A o, u \in Positions :
       get_transceiver_sensor_sub_id(i, o) = get_transceiver_sensor_sub_id(j, u) => i = j /\ o = u
  /\ \A p, q \in Positions : \A a, b \in PSU_SENSOR_PART_IDS : PsuSensor(p, a) = PsuSensor(q, b) => p = q /\ a = b
  /\ \A p, q, f, g \in Positions : DrawerFan(p, f) = DrawerFan(q, g) => p = q /\ f = g
  /\ \A p, q, f, g \in Positions : PsuFan(p, f) = PsuFan(q, g) => p = q /\ f = g
  /\ \A p, q \in Positions : get_chassis_thermal_sub_id(p) = get_chassis_thermal_sub_id(q) => p = q
BY Zenon, TransceiverSensorsDistinct, PsuSensorsDistinct, DrawerFansDistinct, PsuFansDistinct, ThermalsDistinct

-----------------------------------------------------------------------------
(* The sub OIDs of the sensors.                                            *)

LEMMA SubIdsInNat ==
  ASSUME NEW e \in Entities, NEW n \in Entries[e.kind]
  PROVE  SubIds(e, n) \subseteq Nat
<1> SUFFICES ASSUME NEW s \in DOMAIN n
             PROVE  SubId(e, s) \in Nat
  BY DEF SubIds, Shown
<1>1. s \in Nat /\ (e.kind = "xcvr" => e.ifindex \in Nat) /\ (e.kind # "xcvr" => e.pos \in Nat)
      /\ (e.kind = "fan" => e.parent \in Nat) /\ \E k \in DOMAIN Kinds : e.kind = Kinds[k]
  BY SensorsAssumption
<1>2. e.kind \in {"xcvr", "psu", "fan", "thermal"}
  BY <1>1 DEF Kinds
<1> QED
  BY <1>1, <1>2, SubIdsAreNumbers DEF SubId

(* Where the sub OID of a sensor comes from.                               *)
Layer(e, id) ==
  \/ e.kind = "xcvr" /\ \E o \in Positions : id = get_transceiver_sensor_sub_id(e.ifindex, o)
  \/ e.kind = "psu" /\ \E part \in PSU_SENSOR_PART_IDS : id = PsuSensor(e.pos, part)
  \/ e.kind = "fan" /\ \E q \in Positions : Holder(e) = get_fan_drawer_sub_id(q) /\ id = DrawerFan(q, e.pos)
  \/ e.kind = "fan" /\ \E q \in Positions : Holder(e) = get_psu_sub_id(q) /\ id = PsuFan(q, e.pos)
  \/ e.kind = "thermal" /\ id = get_chassis_thermal_sub_id(e.pos)

LEMMA EntityFacts ==
  ASSUME WithinLayers, NEW e \in Entities
  PROVE  /\ e.kind \in {"xcvr", "psu", "fan", "thermal"}
         /\ e.kind = "xcvr" => e.ifindex \in Nat /\ e \in Of(1)
         /\ e.kind = "psu" => e.pos \in Positions /\ e \in Of(2)
         /\ e.kind = "fan" => e.pos \in Positions /\ e.parent \in Nat /\ e \in Of(3)
         /\ e.kind = "thermal" => e.pos \in Positions /\ e \in Of(4)
<1>1. /\ e.kind = "xcvr" => e.ifindex \in Nat
      /\ e.kind # "xcvr" => e.pos \in Nat
      /\ e.kind = "fan" => e.parent \in Nat
      /\ \E k \in DOMAIN Kinds : e.kind = Kinds[k]
  BY SensorsAssumption
<1>2. e.kind \in {"xcvr", "psu", "fan", "thermal"}
  BY <1>1 DEF Kinds
<1>3. /\ e.kind = "xcvr" => e \in Of(1)
      /\ e.kind = "psu" => e \in Of(2)
      /\ e.kind = "fan" => e \in Of(3)
      /\ e.kind = "thermal" => e \in Of(4)
  BY DEF Of, Kinds
<1>4. e.kind # "xcvr" => e.pos < 100
  BY <1>2, <1>3 DEF WithinLayers
<1>5. e.kind # "xcvr" => e.pos \in Positions
  BY <1>1, <1>4, SMT DEF Positions
<1> QED
  BY <1>1, <1>2, <1>3, <1>5

LEMMA SubIdLayer ==
  ASSUME WithinLayers, NEW e \in Entities, NEW n \in Entries[e.kind], NEW s \in DOMAIN n
  PROVE  Layer(e, SubId(e, s))
<1>1. CASE e.kind = "xcvr"
  <2>1. s \in Positions
    BY <1>1, EntityFacts, Offsets DEF WithinLayers
  <2> QED
    BY <1>1, <2>1 DEF Layer, SubId
<1>2. CASE e.kind = "psu"
  <2>1. s \in PSU_SENSOR_PART_IDS
    BY <1>2, EntityFacts DEF WithinLayers
  <2> QED
    BY <1>2, <2>1 DEF Layer, SubId, PsuSensor
<1>3. CASE e.kind = "fan"
  <2>1. PICK q \in Positions : Holder(e) \in {get_fan_drawer_sub_id(q), get_psu_sub_id(q)}
    BY <1>3, EntityFacts DEF WithinLayers, Positions
  <2>2. e.pos \in Nat /\ e.parent \in Nat
    BY <1>3, EntityFacts, SMT DEF Positions
  <2>3. /\ Holder(e) = get_fan_drawer_sub_id(q) => SubId(e, s) = DrawerFan(q, e.pos)
        /\ Holder(e) = get_psu_sub_id(q) => SubId(e, s) = PsuFan(q, e.pos)
    BY <1>3, <2>2, FanSubIds DEF Holder, SubId
  <2> QED
    BY <1>3, <2>1, <2>3 DEF Layer
<1>4. CASE e.kind = "thermal"
  BY <1>4 DEF Layer, SubId
<1> QED
  BY <1>1, <1>2, <1>3, <1>4, EntityFacts

(* Two entities share no sub OID.                                          *)
LEMMA LayersApart ==
  ASSUME WithinLayers, Apart, NEW e \in Entities, NEW f \in Entities, NEW id \in Nat, Layer(e, id), Layer(f, id)
  PROVE  e = f
<1>1. CASE e.kind = "xcvr" /\ f.kind = "xcvr"
  <2>1. e.ifindex = f.ifindex
    BY <1>1, EntityFacts, TransceiverSensorsDistinct DEF Layer
  <2> QED
    BY <1>1, <2>1, EntityFacts DEF Apart
<1>2. CASE e.kind = "psu" /\ f.kind = "psu"
  <2>1. e.pos = f.pos
    BY <1>2, EntityFacts, PsuSensorsDistinct DEF Layer
  <2> QED
    BY <1>2, <2>1, EntityFacts DEF Apart
<1>3. CASE e.kind = "thermal" /\ f.kind = "thermal"
  <2>1. e.pos = f.pos
    BY <1>3, EntityFacts, ThermalsDistinct DEF Layer
  <2> QED
    BY <1>3, <2>1, EntityFacts DEF Apart
<1>4. /\ MODULE_TYPE_FAN_DRAWER \in Nat /\ MODULE_TYPE_PSU \in Nat /\ MODULE_TYPE_PORT \in Nat
      /\ MODULE_TYPE_FAN_DRAWER < MODULE_TYPE_PSU /\ MODULE_TYPE_PSU < MODULE_TYPE_PORT
  BY BandsAscend
<1> DEFINE InDrawer(x) == \E q \in Positions : Holder(x) = get_fan_drawer_sub_id(q) /\ id = DrawerFan(q, x.pos)
           InPsu(x) == \E q \in Positions : Holder(x) = get_psu_sub_id(q) /\ id = PsuFan(q, x.pos)
<1>5. ASSUME NEW x \in Entities, Layer(x, id)
      PROVE  /\ x.kind = "xcvr" => MODULE_TYPE_PORT <= id
             /\ x.kind = "psu" => MODULE_TYPE_PSU < id /\ id < MODULE_TYPE_PORT
             /\ x.kind = "thermal" => id < MODULE_TYPE_FAN_DRAWER
             /\ x.kind = "fan" => InDrawer(x) \/ InPsu(x)
             /\ x.kind = "fan" /\ InDrawer(x) => MODULE_TYPE_FAN_DRAWER < id /\ id < MODULE_TYPE_PSU
             /\ x.kind = "fan" /\ InPsu(x) => MODULE_TYPE_PSU < id /\ id < MODULE_TYPE_PORT
  <2>1. x.kind = "xcvr" => MODULE_TYPE_PORT <= id
    <3>1. \A o \in Positions : o \in Nat
      BY DEF Positions
    <3>2. ASSUME NEW i \in Nat, NEW o \in Nat PROVE MODULE_TYPE_PORT <= get_transceiver_sensor_sub_id(i, o)
      BY SubIdBands, SomeNumbers
    <3> QED
      BY <1>5, <3>1, <3>2, EntityFacts DEF Layer
  <2>2. x.kind = "psu" => MODULE_TYPE_PSU < id /\ id < MODULE_TYPE_PORT
    BY <1>5, SubIdBands, SomeNumbers, EntityFacts DEF Layer
  <2>3. x.kind = "thermal" => id < MODULE_TYPE_FAN_DRAWER
    BY <1>5, SubIdBands, SomeNumbers, EntityFacts DEF Layer
  <2>4. x.kind = "fan" => InDrawer(x) \/ InPsu(x)
    BY <1>5 DEF Layer
  <2>5. x.kind = "fan" /\ InDrawer(x) => MODULE_TYPE_FAN_DRAWER < id /\ id < MODULE_TYPE_PSU
    BY SubIdBands, SomeNumbers, EntityFacts
  <2>6. x.kind = "fan" /\ InPsu(x) => MODULE_TYPE_PSU < id /\ id < MODULE_TYPE_PORT
    BY SubIdBands, SomeNumbers, EntityFacts
  <2> QED
    BY <2>1, <2>2, <2>3, <2>4, <2>5, <2>6
<1>6. ASSUME NEW x \in Entities, NEW y \in Entities, x.kind = "psu", Layer(x, id), y.kind = "fan", InPsu(y)
      PROVE  FALSE
  <2>1. PICK part \in PSU_SENSOR_PART_IDS : id = PsuSensor(x.pos, part)
    BY <1>6 DEF Layer
  <2>2. PICK q \in Positions : id = PsuFan(q, y.pos)
    BY <1>6
  <2>3. PsuFan(q, y.pos) # PsuSensor(x.pos, part)
    BY <1>6, EntityFacts, PsuFanIsNoSensor
  <2> QED
    BY <2>1, <2>2, <2>3
<1>7. CASE e.kind = "fan" /\ f.kind = "fan"
  <2>1. CASE InDrawer(e) /\ InDrawer(f)
    <3>1. PICK p \in Positions : Holder(e) = get_fan_drawer_sub_id(p) /\ id = DrawerFan(p, e.pos)
      BY <2>1
    <3>2. PICK q \in Positions : Holder(f) = get_fan_drawer_sub_id(q) /\ id = DrawerFan(q, f.pos)
      BY <2>1
    <3>3. p = q /\ e.pos = f.pos
      <4>1. e.pos \in Positions /\ f.pos \in Positions
        BY <1>7, EntityFacts
      <4>2. DrawerFan(p, e.pos) = DrawerFan(q, f.pos)
        BY <3>1, <3>2
      <4>3. ASSUME NEW a \in Positions, NEW b \in Positions, DrawerFan(p, a) = DrawerFan(q, b)
            PROVE  p = q /\ a = b
        BY <4>3, DrawerFansDistinct
      <4> QED
        BY <4>1, <4>2, <4>3
    <3>4. Holder(e) = Holder(f)
      BY <3>1, <3>2, <3>3
    <3>5. e \in Of(3) /\ f \in Of(3)
      BY <1>7, EntityFacts
    <3> QED
      BY <3>3, <3>4, <3>5 DEF Apart
  <2>2. CASE InPsu(e) /\ InPsu(f)
    <3>1. PICK p \in Positions : Holder(e) = get_psu_sub_id(p) /\ id = PsuFan(p, e.pos)
      BY <2>2
    <3>2. PICK q \in Positions : Holder(f) = get_psu_sub_id(q) /\ id = PsuFan(q, f.pos)
      BY <2>2
    <3>3. p = q /\ e.pos = f.pos
      <4>1. e.pos \in Positions /\ f.pos \in Positions
        BY <1>7, EntityFacts
      <4>2. PsuFan(p, e.pos) = PsuFan(q, f.pos)
        BY <3>1, <3>2
      <4>3. ASSUME NEW a \in Positions, NEW b \in Positions, PsuFan(p, a) = PsuFan(q, b)
            PROVE  p = q /\ a = b
        BY <4>3, PsuFansDistinct
      <4> QED
        BY <4>1, <4>2, <4>3
    <3>4. Holder(e) = Holder(f)
      BY <3>1, <3>2, <3>3
    <3>5. e \in Of(3) /\ f \in Of(3)
      BY <1>7, EntityFacts
    <3> QED
      BY <3>3, <3>4, <3>5 DEF Apart
  <2> HIDE DEF InDrawer, InPsu
  <2> QED
    BY <1>4, <1>5, <1>7, <2>1, <2>2, SMT
<1> HIDE DEF InDrawer, InPsu
<1>8. e.kind # f.kind => FALSE
  <2>1. e.kind \in {"xcvr", "psu", "fan", "thermal"} /\ f.kind \in {"xcvr", "psu", "fan", "thermal"}
    BY EntityFacts
  <2> QED
    BY <1>4, <1>5, <1>6, <2>1, SMT
<1> QED
  BY <1>1, <1>2, <1>3, <1>7, <1>8, EntityFacts

LEMMA SubIdsApart ==
  ASSUME WithinLayers, Apart, NEW e \in Entities, NEW f \in Entities, e # f,
         NEW n \in Entries[e.kind], NEW m \in Entries[f.kind]
  PROVE  SubIds(e, n) \cap SubIds(f, m) = {}
<1> SUFFICES ASSUME NEW s \in DOMAIN n, NEW t \in DOMAIN m, SubId(e, s) = SubId(f, t),
                    SubId(e, s) \in SubIds(e, n)
             PROVE  FALSE
  BY DEF SubIds, Shown
<1>1. SubId(e, s) \in Nat
  BY SubIdsInNat
<1>2. Layer(e, SubId(e, s)) /\ Layer(f, SubId(f, t))
  BY SubIdLayer
<1> QED
  BY <1>1, <1>2, LayersApart

-----------------------------------------------------------------------------
(* Readings.                                                               *)

LEMMA ProductAscends ==
  ASSUME NEW a \in Int, NEW b \in Int, NEW d \in Nat, a <= b
  PROVE  d * a <= d * b
BY SMT

(* Rounding a number of 1 / d between -l and l stays between them.         *)
LEMMA RoundBound ==
  ASSUME NEW n \in Int, NEW d \in Nat \ {0}, NEW l \in Nat, -(l * d) <= n, n <= l * d
  PROVE  Round(n, d) \in -l .. l
<1> DEFINE q == n \div d
           r == n % d
<1>1. q \in Int /\ r \in Int /\ 0 <= r /\ r < d /\ n = d * q + r
  BY SMT
<1>2. Round(n, d) = IF 2 * r > d \/ (2 * r = d /\ q % 2 = 1) THEN q + 1 ELSE q
  BY DEF Round
<1> HIDE DEF q, r
<1>3. -l <= q
  <2> SUFFICES ASSUME q <= -l - 1 PROVE FALSE
    BY <1>1, SMT
  <2>1. d * q <= d * (-l - 1)
    BY <1>1, ProductAscends
  <2>2. d * (-l - 1) = -(l * d) - d
    BY SMT
  <2>3. d * q \in Int /\ l * d \in Int
    BY <1>1, SMT
  <2> QED
    BY <1>1, <2>1, <2>2, <2>3, SMT
<1>4. q <= l
  <2> SUFFICES ASSUME l + 1 <= q PROVE FALSE
    BY <1>1, SMT
  <2>1. d * (l + 1) <= d * q
    BY <1>1, ProductAscends
  <2>2. d * (l + 1) = l * d + d
    BY SMT
  <2>3. d * q \in Int /\ l * d \in Int
    BY <1>1, SMT
  <2> QED
    BY <1>1, <2>1, <2>2, <2>3, SMT
<1>5. q = l => r = 0
  <2>1. d * l = l * d /\ l * d \in Int
    BY SMT
  <2> QED
    BY <1>1, <2>1, SMT
<1> QED
  BY <1>1, <1>2, <1>3, <1>4, <1>5, SMT

(* Whatever is read, the value shown is within EntitySensorValueRange.     *)
LEMMA ValueInRange ==
  ASSUME NEW raw, raw \in {Null, Text} \/ raw \in Int, NEW factor \in Nat
  PROVE  /\ mib_values(raw, factor).value \in -Limit .. Limit
         /\ mib_values(raw, factor).status \in {"ok", "unavailable"}
<1>1. Unit \in Nat \ {0} /\ Limit \in Nat
  BY SensorsAssumption
<1>2. CASE raw \in {Null, Text}
  <2>1. mib_values(raw, factor) = [value |-> 0, status |-> "unavailable"]
    BY <1>2 DEF mib_values
  <2>2. 0 \in -Limit .. Limit
    BY <1>1, SMT
  <2> QED
    BY <2>1, <2>2
<1>3. CASE raw \notin {Null, Text}
  <2> DEFINE n == raw * factor
             v == IF n > Limit * Unit THEN Limit ELSE IF n < -Limit * Unit THEN -Limit ELSE Round(n, Unit)
  <2>1. mib_values(raw, factor) = [value |-> v, status |-> "ok"]
    BY <1>3 DEF mib_values
  <2>2. n \in Int /\ Limit * Unit \in Int /\ -Limit * Unit = -(Limit * Unit)
    BY <1>1, <1>3, SMT
  <2>3. v \in -Limit .. Limit
    <3>1. CASE n > Limit * Unit
      BY <1>1, <3>1, SMT
    <3>2. CASE ~(n > Limit * Unit) /\ n < -Limit * Unit
      BY <1>1, <3>2, SMT
    <3>3. CASE ~(n > Limit * Unit) /\ ~(n < -Limit * Unit)
      <4> HIDE DEF n
      <4>1. -(Limit * Unit) <= n /\ n <= Limit * Unit
        BY <2>2, <3>3, SMT
      <4>2. Round(n, Unit) \in -Limit .. Limit
        BY <1>1, <2>2, <4>1, RoundBound
      <4> QED
        BY <3>3, <4>2
    <3> QED
      BY <3>1, <3>2, <3>3
  <2> HIDE DEF v
  <2> QED
    BY <2>1, <2>3
<1> QED
  BY <1>2, <1>3

LEMMA EntityValues ==
  ASSUME NEW e \in Entities, NEW n \in Entries[e.kind]
  PROVE  /\ DOMAIN ValuesOf(e, n) = SubIds(e, n)
         /\ \A id \in SubIds(e, n) : /\ ValuesOf(e, n)[id].value \in -Limit .. Limit
                                     /\ ValuesOf(e, n)[id].status \in {"ok", "unavailable"}
<1>1. DOMAIN ValuesOf(e, n) = SubIds(e, n)
  BY DEF ValuesOf
<1>2. ASSUME NEW id \in SubIds(e, n)
      PROVE  /\ ValuesOf(e, n)[id].value \in -Limit .. Limit
             /\ ValuesOf(e, n)[id].status \in {"ok", "unavailable"}
  <2> DEFINE s == CHOOSE s \in Shown(e, n) : SubId(e, s) = id
  <2>1. s \in Shown(e, n)
    BY <1>2 DEF SubIds
  <2>2. ValuesOf(e, n)[id] = mib_values(n[s], Factor[e.kind][s])
    BY <1>2 DEF ValuesOf
  <2> HIDE DEF s
  <2>3. (n[s] \in {Null, Text} \/ n[s] \in Int) /\ Factor[e.kind][s] \in Nat
    BY <2>1, SensorsAssumption DEF Shown
  <2> QED
    BY <2>2, <2>3, ValueInRange
<1> QED
  BY <1>1, <1>2

-----------------------------------------------------------------------------
(* Lists of sub OIDs.                                                      *)

NoTwins(list) == \A i, j \in DOMAIN list : list[i] = list[j] => i = j

(* list.sort(): the elements of the list, in ascending order, and strictly *)
(* so if no two are equal.  The elements up to the i-th are counted; no    *)
(* two counts are equal, so each place is taken by one element.            *)
LEMMA SortedAscends ==
  ASSUME NEW list \in Seq(Int)
  PROVE  /\ DOMAIN Sorted(list) = DOMAIN list
         /\ ToSet(Sorted(list)) = ToSet(list)
         /\ (\A i, j \in DOMAIN list : list[i] = list[j] => i = j)
            => \A i, j \in DOMAIN Sorted(list) : i < j => Sorted(list)[i] < Sorted(list)[j]
<1> DEFINE n == Len(list)
           before(i, k) == list[i] < list[k] \/ (list[i] = list[k] /\ i < k)
           Upto(i) == {j \in 1 .. n : list[j] < list[i] \/ (list[j] = list[i] /\ j <= i)}
           rank == [i \in 1 .. n |-> Cardinality(Upto(i))]
<1>1. n \in Nat /\ DOMAIN list = 1 .. n /\ \A i \in 1 .. n : list[i] \in Int
  BY LenProperties, ElementOfSeq
<1> HIDE DEF n
<1>2. IsFiniteSet(1 .. n) /\ Cardinality(1 .. n) = n
  BY <1>1, FS_Interval, SMT
<1>3. ASSUME NEW i \in 1 .. n
      PROVE  /\ IsFiniteSet(Upto(i)) /\ rank[i] \in 1 .. n
             /\ i \in Upto(i) /\ rank[i] = PlaceOf(list, i)
  <2>1. Upto(i) \in SUBSET (1 .. n)
    OBVIOUS
  <2>2. i \in Upto(i)
    BY <1>1, SMT
  <2>3. rank[i] = Cardinality(Upto(i)) /\ rank[i] = PlaceOf(list, i)
    BY <1>1 DEF PlaceOf
  <2> HIDE DEF Upto, rank
  <2>4. IsFiniteSet(Upto(i)) /\ Cardinality(Upto(i)) <= n /\ Cardinality(Upto(i)) \in Nat
    BY <1>2, <2>1, FS_Subset, FS_CardinalityType
  <2>5. Cardinality(Upto(i)) # 0
    BY <2>2, <2>4, FS_EmptySet
  <2> QED
    BY <1>1, <2>2, <2>3, <2>4, <2>5, SMT
<1>4. ASSUME NEW i \in 1 .. n, NEW k \in 1 .. n, before(i, k)
      PROVE  rank[i] < rank[k]
  <2>1. Upto(i) \in SUBSET Upto(k) /\ k \notin Upto(i) /\ k \in Upto(k)
    BY <1>1, <1>4, SMT
  <2>2. rank[i] = Cardinality(Upto(i)) /\ rank[k] = Cardinality(Upto(k))
    OBVIOUS
  <2>3. IsFiniteSet(Upto(k)) /\ rank[i] \in 1 .. n /\ rank[k] \in 1 .. n
    BY <1>3
  <2> HIDE DEF Upto, rank
  <2>4. Cardinality(Upto(i)) <= Cardinality(Upto(k)) /\ Cardinality(Upto(i)) # Cardinality(Upto(k))
    BY <2>1, <2>3, FS_Subset
  <2> QED
    BY <2>2, <2>3, <2>4, SMT
<1>5. ASSUME NEW i \in 1 .. n, NEW k \in 1 .. n, rank[i] = rank[k]
      PROVE  i = k
  <2>1. ~before(i, k) /\ ~before(k, i)
    <3>1. ~(rank[i] < rank[k]) /\ ~(rank[k] < rank[i])
      <4>1. rank[i] \in 1 .. n
        BY <1>3
      <4> QED
        BY <1>5, <4>1, SMT
    <3> QED
      BY <1>4, <3>1
  <2> QED
    BY <1>1, <2>1, SMT
<1>6. \A k \in 1 .. n : \E i \in 1 .. n : rank[i] = k
  <2>1. rank \in [1 .. n -> 1 .. n]
    BY <1>3
  <2> HIDE DEF rank
  <2>2. rank \in Injection(1 .. n, 1 .. n)
    BY <1>5, <2>1 DEF Injection, IsInjective
  <2>3. rank \in Surjection(1 .. n, 1 .. n)
    BY <1>2, <2>2, FS_Injection
  <2> QED
    BY <2>3 DEF Surjection
<1> DEFINE at(k) == CHOOSE i \in 1 .. n : PlaceOf(list, i) = k
<1>7. \A k \in 1 .. n : at(k) \in 1 .. n /\ rank[at(k)] = k
  <2> SUFFICES ASSUME NEW k \in 1 .. n
               PROVE  at(k) \in 1 .. n /\ rank[at(k)] = k
    OBVIOUS
  <2> HIDE DEF rank
  <2>1. \E i \in 1 .. n : PlaceOf(list, i) = k
    BY <1>3, <1>6
  <2>2. at(k) \in 1 .. n /\ PlaceOf(list, at(k)) = k
    BY <2>1
  <2> QED
    BY <1>3, <2>2
<1>8. DOMAIN Sorted(list) = 1 .. n /\ \A k \in 1 .. n : Sorted(list)[k] = list[at(k)]
  BY <1>1 DEF Sorted
<1> HIDE DEF at, rank, Upto
<1>9. ToSet(Sorted(list)) = ToSet(list)
  <2>1. \A k \in 1 .. n : \E i \in 1 .. n : Sorted(list)[k] = list[i]
    BY <1>7, <1>8
  <2>2. \A i \in 1 .. n : \E k \in 1 .. n : Sorted(list)[k] = list[i]
    <3> TAKE i \in 1 .. n
    <3>1. rank[i] \in 1 .. n
      BY <1>3
    <3>2. at(rank[i]) = i
      BY <1>5, <1>7, <3>1
    <3> QED
      BY <1>8, <3>1, <3>2
  <2>3. ToSet(Sorted(list)) = {Sorted(list)[k] : k \in 1 .. n}
    BY <1>8 DEF ToSet
  <2>4. ToSet(list) = {list[i] : i \in 1 .. n}
    BY <1>1 DEF ToSet
  <2>5. \A x \in ToSet(Sorted(list)) : x \in ToSet(list)
    BY <2>1, <2>3, <2>4
  <2>6. \A x \in ToSet(list) : x \in ToSet(Sorted(list))
    BY <2>2, <2>3, <2>4
  <2> QED
    BY <2>5, <2>6
<1>10. ASSUME \A i, j \in DOMAIN list : list[i] = list[j] => i = j,
              NEW k \in 1 .. n, NEW l \in 1 .. n, k < l
       PROVE  Sorted(list)[k] < Sorted(list)[l]
  <2>1. at(k) \in 1 .. n /\ at(l) \in 1 .. n /\ rank[at(k)] = k /\ rank[at(l)] = l
    BY <1>7
  <2>2. ~(rank[at(l)] < rank[at(k)]) /\ rank[at(k)] # rank[at(l)]
    BY <1>10, <2>1, SMT
  <2>3. ~(list[at(l)] < list[at(k)]) /\ at(k) # at(l)
    BY <1>4, <2>1, <2>2
  <2>4. list[at(k)] # list[at(l)]
    BY <1>1, <1>10, <2>1, <2>3
  <2>5. list[at(k)] < list[at(l)]
    BY <1>1, <2>1, <2>3, <2>4, SMT
  <2> QED
    BY <1>8, <2>5
<1> QED
  BY <1>1, <1>8, <1>9, <1>10

(* A list behind another.                                                  *)
LEMMA Concatenated ==
  ASSUME NEW list \in Seq(Nat), NEW more \in Seq(Nat)
  PROVE  /\ list \o more \in Seq(Nat)
         /\ ToSet(list \o more) = ToSet(list) \cup ToSet(more)
         /\ NoTwins(list) /\ NoTwins(more) /\ ToSet(list) \cap ToSet(more) = {} => NoTwins(list \o more)
<1> DEFINE both == list \o more
           m == Len(list)
           n == Len(more)
<1>1. /\ both \in Seq(Nat) /\ Len(both) = m + n
      /\ \A i \in 1 .. m + n : both[i] = IF i <= m THEN list[i] ELSE more[i - m]
  BY ConcatProperties
<1>2. /\ m \in Nat /\ n \in Nat
      /\ DOMAIN list = 1 .. m /\ DOMAIN more = 1 .. n /\ DOMAIN both = 1 .. m + n
  BY <1>1, LenProperties
<1> HIDE DEF both, m, n
<1>3. \A i \in 1 .. m : i \in 1 .. m + n /\ both[i] = list[i]
  BY <1>1, <1>2, SMT
<1>4. \A i \in 1 .. n : m + i \in 1 .. m + n /\ both[m + i] = more[i]
  <2> TAKE i \in 1 .. n
  <2> DEFINE k == m + i
  <2>1. k \in 1 .. m + n /\ ~(k <= m) /\ k - m = i
    BY <1>2, SMT
  <2> HIDE DEF k
  <2>2. both[k] = more[i]
    BY <1>1, <2>1
  <2> QED
    BY <2>1, <2>2 DEF k
<1>5. \A i \in 1 .. m + n : i \in 1 .. m \/ \E j \in 1 .. n : i = m + j
  <2> TAKE i \in 1 .. m + n
  <2>1. CASE i <= m
    BY <1>2, <2>1, SMT
  <2>2. CASE ~(i <= m)
    <3>1. i - m \in 1 .. n /\ i = m + (i - m)
      BY <1>2, <2>2, SMT
    <3> QED
      BY <3>1
  <2> QED
    BY <2>1, <2>2
<1>6. ToSet(both) = ToSet(list) \cup ToSet(more)
  <2>1. ToSet(both) = {both[i] : i \in 1 .. m + n}
    BY <1>2 DEF ToSet
  <2>2. ToSet(list) = {list[i] : i \in 1 .. m} /\ ToSet(more) = {more[i] : i \in 1 .. n}
    BY <1>2 DEF ToSet
  <2>3. ASSUME NEW x \in ToSet(both) PROVE x \in ToSet(list) \cup ToSet(more)
    <3>1. PICK i \in 1 .. m + n : x = both[i]
      BY <2>1, <2>3
    <3> QED
      BY <1>3, <1>4, <1>5, <2>2, <3>1
  <2>4. ASSUME NEW x \in ToSet(list) \cup ToSet(more) PROVE x \in ToSet(both)
    BY <1>3, <1>4, <2>1, <2>2, <2>4
  <2> QED
    BY <2>3, <2>4
<1>7. ASSUME NoTwins(list), NoTwins(more), ToSet(list) \cap ToSet(more) = {}
      PROVE  NoTwins(both)
  <2>1. \A i \in 1 .. m, j \in 1 .. n : list[i] # more[j]
    BY <1>2, <1>7 DEF ToSet
  <2>2. ASSUME NEW i \in 1 .. m + n, NEW j \in 1 .. m + n, both[i] = both[j]
        PROVE  i = j
    <3>1. CASE i \in 1 .. m /\ j \in 1 .. m
      BY <1>2, <1>3, <1>7, <2>2, <3>1 DEF NoTwins
    <3>2. CASE i \notin 1 .. m /\ j \notin 1 .. m
      <4>1. PICK a \in 1 .. n : i = m + a
        BY <1>5, <3>2
      <4>2. PICK b \in 1 .. n : j = m + b
        BY <1>5, <3>2
      <4>3. more[a] = more[b]
        BY <1>4, <2>2, <4>1, <4>2
      <4> QED
        BY <1>2, <1>7, <4>1, <4>2, <4>3 DEF NoTwins
    <3>3. CASE (i \in 1 .. m) # (j \in 1 .. m)
      BY <1>3, <1>4, <1>5, <2>1, <2>2, <3>3
    <3> QED
      BY <3>1, <3>2, <3>3
  <2> QED
    BY <1>2, <2>2 DEF NoTwins
<1> QED
  BY <1>1, <1>6, <1>7 DEF both

(* The elements of a finite set, each once.                                *)
LEMMA SetAsSeq ==
  ASSUME NEW S, IsFiniteSet(S), S \subseteq Nat
  PROVE  SetToSeq(S) \in Seq(Nat) /\ ToSet(SetToSeq(S)) = S /\ NoTwins(SetToSeq(S))
<1> DEFINE n == Cardinality(S)
           f == SetToSeq(S)
<1>1. n \in Nat /\ IsFiniteSet(1 .. n) /\ Cardinality(1 .. n) = n
  <2>1. n \in Nat
    BY FS_CardinalityType
  <2> HIDE DEF n
  <2> QED
    BY <2>1, FS_Interval, SMT
<1>2. \E g \in [1 .. n -> S] : IsInjective(g)
  <2>1. ExistsBijection(1 .. n, S)
    BY <1>1, FS_SameCardinalityBij
  <2> QED
    BY <2>1 DEF ExistsBijection, Bijection, Injection, IsInjective
<1>3. f \in [1 .. n -> S] /\ IsInjective(f)
  BY <1>2 DEF SetToSeq
<1> HIDE DEF f
<1>4. f \in Surjection(1 .. n, S)
  <2>1. f \in Injection(1 .. n, S)
    BY <1>3 DEF Injection, IsInjective
  <2> QED
    BY <1>1, <2>1, FS_Injection
<1>5. DOMAIN f = 1 .. n /\ f \in [1 .. n -> Nat]
  BY <1>3
<1>6. f \in Seq(Nat)
  BY <1>1, <1>5, SeqDef
<1>7. ToSet(f) = S
  BY <1>3, <1>4, <1>5 DEF Surjection, ToSet
<1> QED
  BY <1>3, <1>6, <1>7 DEF NoTwins, IsInjective, f

LEMMA EntitySubIds ==
  ASSUME NEW e \in Entities, NEW n \in Entries[e.kind]
  PROVE  /\ SetToSeq(SubIds(e, n)) \in Seq(Nat)
         /\ ToSet(SetToSeq(SubIds(e, n))) = SubIds(e, n)
         /\ NoTwins(SetToSeq(SubIds(e, n)))
<1> DEFINE f == [s \in Shown(e, n) |-> SubId(e, s)]
<1>1. IsFiniteSet(Shown(e, n))
  BY SensorsAssumption, FS_Subset DEF Shown
<1>2. f \in Surjection(Shown(e, n), SubIds(e, n))
  BY DEF SubIds, Surjection
<1>3. IsFiniteSet(SubIds(e, n))
  BY <1>1, <1>2, FS_Surjection
<1> QED
  BY <1>3, SubIdsInNat, SetAsSeq

-----------------------------------------------------------------------------
(* Types.                                                                  *)

DatabaseOK ==
  /\ DOMAIN entry = Entities /\ DOMAIN place = Entities
  /\ \A e \in Entities : entry[e] \in Maybe(Entries[e.kind]) /\ place[e] \in Places(e.kind)
  /\ changes \in 0 .. MaxChanges /\ faults \in 0 .. MaxFaults

(* Between rounds, and while the keys are read, no entity is to be read.   *)
RoundOK ==
  /\ pc \in {"asleep", "reinit", "update"} /\ kind \in DOMAIN Kinds
  /\ todo \subseteq Of(kind)
  /\ pc # "update" => todo = {}
  /\ DOMAIN keys = DOMAIN Kinds
  /\ \A k \in DOMAIN Kinds : keys[k] \subseteq Of(k)

FlagsOK == finished \in BOOLEAN /\ torn \in BOOLEAN

TableOK ==
  /\ sub_ids \in Seq(Nat)
  /\ \A s \in DOMAIN values :
       values[s].value \in -Limit .. Limit /\ values[s].status \in {"ok", "unavailable"}

LEMMA KindsFacts == DOMAIN Kinds = 1 .. 4 /\ Len(Kinds) = 4
BY DEF Kinds

LEMMA DatabaseInit == Init => DatabaseOK
<1> SUFFICES ASSUME Init PROVE DatabaseOK
  OBVIOUS
<1>1. DOMAIN entry = Entities /\ \A e \in Entities : entry[e] \in Maybe(Entries[e.kind])
  BY SensorsAssumption DEF Init, Maybe
<1>2. DOMAIN place = Entities /\ \A e \in Entities : place[e] \in Places(e.kind)
  BY DEF Init, Places
<1>3. changes \in 0 .. MaxChanges /\ faults \in 0 .. MaxFaults
  BY SensorsAssumption, SMT DEF Init
<1> QED
  BY <1>1, <1>2, <1>3 DEF DatabaseOK

LEMMA DatabaseStep == DatabaseOK /\ [Next]_vars => DatabaseOK'
<1> SUFFICES ASSUME DatabaseOK, [Next]_vars PROVE DatabaseOK'
  OBVIOUS
<1>1. ASSUME NEW e \in Entities, NEW n \in Maybe(Entries[e.kind]), EntryChanges(e, n)
      PROVE  DatabaseOK'
  <2>1. changes' \in 0 .. MaxChanges
    BY <1>1, SensorsAssumption, SMT DEF EntryChanges, Count, DatabaseOK
  <2>2. DOMAIN entry' = Entities /\ \A f \in Entities : entry'[f] \in Maybe(Entries[f.kind])
    BY <1>1 DEF EntryChanges, DatabaseOK
  <2> QED
    BY <1>1, <2>1, <2>2 DEF EntryChanges, DatabaseOK
<1>2. ASSUME NEW e \in Entities, NEW p \in Places(e.kind), PlaceChanges(e, p)
      PROVE  DatabaseOK'
  <2>1. changes' \in 0 .. MaxChanges
    BY <1>2, SensorsAssumption, SMT DEF PlaceChanges, Count, DatabaseOK
  <2>2. DOMAIN place' = Entities /\ \A f \in Entities : place'[f] \in Places(f.kind)
    BY <1>2 DEF PlaceChanges, DatabaseOK
  <2> QED
    BY <1>2, <2>1, <2>2 DEF PlaceChanges, DatabaseOK
<1>3. CASE Fault
  <2>1. faults' \in 0 .. MaxFaults
    BY <1>3, SensorsAssumption, SMT DEF Fault, DatabaseOK
  <2> QED
    BY <1>3, <2>1 DEF Fault, redisVars, DatabaseOK
<1>4. CASE Wake \/ WakeReinit \/ Proceed \/ UNCHANGED vars
  <2>1. UNCHANGED <<entry, place, changes, faults>>
    BY <1>4 DEF Wake, WakeReinit, Proceed, Reinit, ReinitEnds, TableEnds, UpdateEnds, SkipEntity, EntityRaises,
                ReadEntity, vars, redisVars
  <2> QED
    BY <2>1 DEF DatabaseOK
<1> QED
  BY <1>1, <1>2, <1>3, <1>4 DEF Next, Redis

LEMMA RoundInit == Init => RoundOK
BY KindsFacts DEF Init, RoundOK

LEMMA RoundStep == RoundOK /\ [Next]_vars => RoundOK'
<1> SUFFICES ASSUME RoundOK, [Next]_vars PROVE RoundOK'
  OBVIOUS
<1>1. CASE Redis \/ UNCHANGED vars
  <2>1. UNCHANGED <<pc, kind, todo, finished, torn, keys>>
    BY <1>1 DEF Redis, EntryChanges, PlaceChanges, vars, roundVars
  <2> QED
    BY <2>1 DEF RoundOK
<1>2. CASE Wake
  BY <1>2, KindsFacts DEF Wake, RoundOK
<1>3. CASE WakeReinit
  BY <1>3, KindsFacts DEF WakeReinit, RoundOK
<1>4. \A k \in DOMAIN Kinds : ReadKeys(k) \subseteq Of(k)
  BY DEF ReadKeys, Found, RoundOK
<1>5. CASE Reinit
  <2>1. kind + 1 \in DOMAIN Kinds
    BY <1>5, KindsFacts, SMT DEF Reinit, RoundOK
  <2> QED
    BY <1>4, <1>5, <2>1 DEF Reinit, RoundOK
<1>6. CASE ReinitEnds
  <2>1. DOMAIN keys' = DOMAIN Kinds /\ \A k \in DOMAIN Kinds : keys'[k] \subseteq Of(k)
    BY <1>4, <1>6 DEF ReinitEnds, RoundOK
  <2> QED
    BY <1>6, <2>1, KindsFacts DEF ReinitEnds, RoundOK
<1>7. CASE TableEnds
  <2>1. kind + 1 \in DOMAIN Kinds
    BY <1>7, KindsFacts, SMT DEF TableEnds, RoundOK
  <2> QED
    BY <1>7, <2>1 DEF TableEnds, RoundOK
<1>8. CASE UpdateEnds
  BY <1>8, KindsFacts DEF UpdateEnds, RoundOK
<1>9. ASSUME NEW e \in Entities, SkipEntity(e) \/ ReadEntity(e) PROVE RoundOK'
  BY <1>9 DEF SkipEntity, ReadEntity, RoundOK
<1>10. ASSUME NEW e \in Entities, EntityRaises(e) PROVE RoundOK'
  BY <1>10, KindsFacts DEF EntityRaises, Raise, RoundOK
<1>11. CASE Fault
  BY <1>11, KindsFacts DEF Fault, Raise, RoundOK
<1> QED
  BY <1>1, <1>2, <1>3, <1>5, <1>6, <1>7, <1>8, <1>9, <1>10, <1>11 DEF Next, Proceed

LEMMA FlagsStep == FlagsOK /\ [Next]_vars => FlagsOK'
<1> SUFFICES ASSUME FlagsOK, [Next]_vars PROVE FlagsOK'
  OBVIOUS
<1>1. CASE Redis \/ Wake \/ WakeReinit \/ Reinit \/ TableEnds \/ UNCHANGED vars
  <2>1. UNCHANGED <<finished, torn>>
    BY <1>1 DEF Redis, EntryChanges, PlaceChanges, Wake, WakeReinit, Reinit, TableEnds, vars, roundVars
  <2> QED
    BY <2>1 DEF FlagsOK
<1>2. CASE ReinitEnds
  BY <1>2, Zenon DEF ReinitEnds, FlagsOK
<1>3. CASE UpdateEnds
  BY <1>3, Zenon DEF UpdateEnds, FlagsOK
<1>4. ASSUME NEW e \in Entities, SkipEntity(e) \/ ReadEntity(e) PROVE FlagsOK'
  BY <1>4 DEF SkipEntity, ReadEntity, FlagsOK
<1>5. ASSUME NEW e \in Entities, EntityRaises(e) PROVE FlagsOK'
  BY <1>5, Zenon DEF EntityRaises, Raise, FlagsOK
<1>6. CASE Fault
  <2>1. finished' = FALSE /\ torn' = (torn \/ pc = "reinit")
    BY <1>6 DEF Fault, Raise
  <2> QED
    BY <2>1, Zenon DEF FlagsOK
<1> QED
  BY <1>1, <1>2, <1>3, <1>4, <1>5, <1>6 DEF Next, Proceed

(* What a step does to the list and to the values: nothing, or it clears   *)
(* one of them, reads an entity or sorts.                                  *)
LEMMA TableSteps ==
  ASSUME [Next]_vars
  PROVE  \/ UNCHANGED <<sub_ids, values>>
         \/ sub_ids' = <<>> /\ UNCHANGED values
         \/ values' = <<>> /\ UNCHANGED sub_ids
         \/ \E e \in Entities : ReadEntity(e)
         \/ UpdateEnds
<1>1. CASE Redis \/ TableEnds \/ Fault \/ UNCHANGED vars
  BY <1>1 DEF Redis, EntryChanges, PlaceChanges, TableEnds, Fault, vars
<1>2. CASE Wake \/ ReinitEnds
  BY <1>2 DEF Wake, ReinitEnds
<1>3. CASE WakeReinit \/ Reinit
  BY <1>3 DEF WakeReinit, Reinit
<1>4. ASSUME NEW e \in Entities, SkipEntity(e) \/ EntityRaises(e)
      PROVE  UNCHANGED <<sub_ids, values>>
  BY <1>4 DEF SkipEntity, EntityRaises
<1> QED
  BY <1>1, <1>2, <1>3, <1>4 DEF Next, Proceed

(* An entity is read: its list and its values.                             *)
LEMMA ReadFacts ==
  ASSUME DatabaseOK, TableOK, NEW e \in Entities, ReadEntity(e)
  PROVE  /\ entry[e] \in Entries[e.kind]
         /\ sub_ids' \in Seq(Nat)
         /\ ToSet(sub_ids') = ToSet(sub_ids) \cup SubIds(e, entry[e])
         /\ NoTwins(sub_ids) /\ ToSet(sub_ids) \cap SubIds(e, entry[e]) = {} => NoTwins(sub_ids')
         /\ DOMAIN values' = DOMAIN values \cup SubIds(e, entry[e])
         /\ \A id \in DOMAIN values' :
              values'[id] = IF id \in SubIds(e, entry[e]) THEN ValuesOf(e, entry[e])[id] ELSE values[id]
<1>1. entry[e] \in Entries[e.kind]
  BY DEF DatabaseOK, Maybe, ReadEntity
<1> DEFINE n == entry[e]
           more == SetToSeq(SubIds(e, n))
<1>2. more \in Seq(Nat) /\ ToSet(more) = SubIds(e, n) /\ NoTwins(more)
  BY <1>1, EntitySubIds
<1>3. sub_ids' = sub_ids \o more /\ sub_ids \in Seq(Nat)
  BY DEF ReadEntity, TableOK
<1>4. values' = Updated(values, ValuesOf(e, n)) /\ DOMAIN ValuesOf(e, n) = SubIds(e, n)
  BY <1>1, EntityValues DEF ReadEntity
<1>5. /\ DOMAIN values' = DOMAIN values \cup SubIds(e, n)
      /\ \A id \in DOMAIN values' :
           values'[id] = IF id \in SubIds(e, n) THEN ValuesOf(e, n)[id] ELSE values[id]
  BY <1>4 DEF Updated
<1> HIDE DEF more
<1>6. /\ sub_ids' \in Seq(Nat) /\ ToSet(sub_ids') = ToSet(sub_ids) \cup SubIds(e, n)
      /\ NoTwins(sub_ids) /\ ToSet(sub_ids) \cap SubIds(e, n) = {} => NoTwins(sub_ids')
  BY <1>2, <1>3, Concatenated
<1> QED
  BY <1>1, <1>5, <1>6

(* The round ends: the list is sorted.                                     *)
LEMMA SortFacts ==
  ASSUME TableOK, UpdateEnds
  PROVE  /\ UNCHANGED values
         /\ sub_ids' \in Seq(Nat)
         /\ ToSet(sub_ids') = ToSet(sub_ids)
         /\ NoTwins(sub_ids) => \A i, j \in DOMAIN sub_ids' : i < j => sub_ids'[i] < sub_ids'[j]
<1>1. sub_ids \in Seq(Nat) /\ sub_ids' = Sorted(sub_ids) /\ UNCHANGED values
  BY DEF TableOK, UpdateEnds
<1>2. sub_ids \in Seq(Int)
  <2>1. Nat \subseteq Int
    BY SMT
  <2> QED
    BY <1>1, <2>1, SeqMonotonic
<1>3. /\ DOMAIN Sorted(sub_ids) = DOMAIN sub_ids
      /\ ToSet(Sorted(sub_ids)) = ToSet(sub_ids)
      /\ NoTwins(sub_ids) => \A i, j \in DOMAIN Sorted(sub_ids) : i < j => Sorted(sub_ids)[i] < Sorted(sub_ids)[j]
  BY <1>2, SortedAscends DEF NoTwins
<1>4. Sorted(sub_ids) \in Seq(Nat)
  <2> DEFINE n == Len(sub_ids)
             sorted == Sorted(sub_ids)
  <2>1. n \in Nat /\ DOMAIN sub_ids = 1 .. n
    BY <1>1, LenProperties
  <2>2. \A id \in ToSet(sub_ids) : id \in Nat
    BY <1>1, ElementOfSeq, LenProperties DEF ToSet
  <2>3. sorted = [k \in 1 .. n |-> sorted[k]]
    BY <2>1 DEF Sorted
  <2>4. \A k \in DOMAIN sorted : sorted[k] \in ToSet(sorted)
    BY DEF ToSet
  <2> HIDE DEF sorted, n
  <2>5. \A k \in 1 .. n : sorted[k] \in Nat
    BY <1>3, <2>1, <2>2, <2>4 DEF sorted
  <2>6. sorted \in [1 .. n -> Nat]
    BY <2>3, <2>5
  <2> QED
    BY <2>1, <2>6, SeqDef DEF sorted
<1> QED
  BY <1>1, <1>3, <1>4

LEMMA TableInit == Init => TableOK
BY EmptySeq DEF Init, TableOK

LEMMA TableStep == DatabaseOK /\ TableOK /\ [Next]_vars => TableOK'
<1> SUFFICES ASSUME DatabaseOK, TableOK, [Next]_vars PROVE TableOK'
  OBVIOUS
<1>1. CASE UNCHANGED <<sub_ids, values>>
  BY <1>1 DEF TableOK
<1>2. CASE sub_ids' = <<>> /\ UNCHANGED values
  BY <1>2, EmptySeq DEF TableOK
<1>3. CASE values' = <<>> /\ UNCHANGED sub_ids
  BY <1>3 DEF TableOK
<1>4. ASSUME NEW e \in Entities, ReadEntity(e) PROVE TableOK'
  <2>1. entry[e] \in Entries[e.kind] /\ sub_ids' \in Seq(Nat)
    BY <1>4, ReadFacts
  <2>2. ASSUME NEW id \in DOMAIN values'
        PROVE  values'[id].value \in -Limit .. Limit /\ values'[id].status \in {"ok", "unavailable"}
    <3>1. /\ id \in DOMAIN values \cup SubIds(e, entry[e])
          /\ values'[id] = IF id \in SubIds(e, entry[e]) THEN ValuesOf(e, entry[e])[id] ELSE values[id]
      BY <1>4, <2>2, ReadFacts
    <3>2. CASE id \in SubIds(e, entry[e])
      BY <2>1, <3>1, <3>2, EntityValues
    <3>3. CASE id \notin SubIds(e, entry[e])
      BY <3>1, <3>3 DEF TableOK
    <3> QED
      BY <3>2, <3>3
  <2> QED
    BY <2>1, <2>2 DEF TableOK
<1>5. CASE UpdateEnds
  BY <1>5, SortFacts DEF TableOK
<1> QED
  BY <1>1, <1>2, <1>3, <1>4, <1>5, TableSteps

(* For any entities, entries and readings: every variable keeps its type,  *)
(* and no reading is shown outside EntitySensorValueRange, whether it      *)
(* overflows its scale, rounds up to the limit or is no number.            *)
THEOREM SensorsTypeCorrect == Spec => []TypeOK
<1>1. Init => DatabaseOK /\ RoundOK /\ FlagsOK /\ TableOK
  <2>1. Init => FlagsOK
    BY Zenon DEF Init, FlagsOK
  <2> QED
    BY <2>1, DatabaseInit, RoundInit, TableInit
<1>2. DatabaseOK /\ RoundOK /\ FlagsOK /\ TableOK /\ [Next]_vars => DatabaseOK' /\ RoundOK' /\ FlagsOK' /\ TableOK'
  BY DatabaseStep, RoundStep, FlagsStep, TableStep
<1>3. DatabaseOK /\ RoundOK /\ FlagsOK /\ TableOK => TypeOK
  BY DEF DatabaseOK, RoundOK, FlagsOK, TableOK, TypeOK
<1> QED
  BY <1>1, <1>2, <1>3, PTL DEF Spec

-----------------------------------------------------------------------------
(* What is listed has a value.                                             *)

(* A round begins with an empty list, and what it lists it has read.       *)
HasValues == pc = "update" \/ (pc = "asleep" /\ ~torn) => ToSet(sub_ids) \subseteq DOMAIN values

LEMMA HasValuesInit == Init => HasValues
BY DEF Init, HasValues, ToSet

LEMMA HasValuesStep == DatabaseOK /\ RoundOK /\ TableOK /\ HasValues /\ [Next]_vars => HasValues'
<1> SUFFICES ASSUME DatabaseOK, RoundOK, TableOK, HasValues, [Next]_vars PROVE HasValues'
  OBVIOUS
<1>1. CASE Redis \/ UNCHANGED vars
  <2>1. UNCHANGED <<pc, torn, sub_ids, values>>
    BY <1>1 DEF Redis, EntryChanges, PlaceChanges, vars, roundVars
  <2> QED
    BY <2>1 DEF HasValues
<1>2. CASE Wake \/ ReinitEnds
  <2>1. sub_ids' = <<>>
    BY <1>2 DEF Wake, ReinitEnds
  <2> QED
    BY <2>1 DEF HasValues, ToSet
<1>3. CASE WakeReinit \/ Reinit
  <2>1. pc' = "reinit"
    BY <1>3 DEF WakeReinit, Reinit
  <2> QED
    BY <2>1 DEF HasValues
<1>4. CASE TableEnds
  BY <1>4 DEF TableEnds, HasValues
<1>5. CASE UpdateEnds
  <2>1. ToSet(sub_ids') = ToSet(sub_ids) /\ UNCHANGED values
    BY <1>5, SortFacts
  <2> QED
    BY <1>5, <2>1 DEF UpdateEnds, HasValues
<1>6. ASSUME NEW e \in Entities, SkipEntity(e) \/ EntityRaises(e) PROVE HasValues'
  <2>1. pc = "update" /\ UNCHANGED <<sub_ids, values>>
    BY <1>6 DEF SkipEntity, EntityRaises
  <2> QED
    BY <2>1 DEF HasValues
<1>7. ASSUME NEW e \in Entities, ReadEntity(e) PROVE HasValues'
  <2>1. /\ ToSet(sub_ids') = ToSet(sub_ids) \cup SubIds(e, entry[e])
        /\ DOMAIN values' = DOMAIN values \cup SubIds(e, entry[e])
    BY <1>7, ReadFacts
  <2>2. ToSet(sub_ids) \subseteq DOMAIN values
    BY <1>7 DEF ReadEntity, HasValues
  <2>3. ToSet(sub_ids') \subseteq DOMAIN values'
    BY <2>1, <2>2
  <2> QED
    BY <2>3 DEF HasValues
<1>8. CASE Fault
  <2>1. UNCHANGED <<sub_ids, values>>
    BY <1>8 DEF Fault
  <2>2. pc = "update" \/ torn'
    BY <1>8, Zenon DEF Fault, RoundOK
  <2>3. pc' = "asleep"
    BY <1>8 DEF Fault, Raise
  <2> QED
    BY <2>1, <2>2, <2>3 DEF HasValues
<1> QED
  BY <1>1, <1>2, <1>3, <1>4, <1>5, <1>6, <1>7, <1>8 DEF Next, Proceed

(* However the rounds before ended, what get_next finds between rounds has *)
(* a value that was read for it, unless a reinit raised and left the maps  *)
(* cleared.                                                                *)
THEOREM ListedHasValuesHolds == Spec => []ListedHasValues
<1> DEFINE Inv == DatabaseOK /\ RoundOK /\ TableOK /\ HasValues
<1>1. Init => Inv
  BY DatabaseInit, RoundInit, TableInit, HasValuesInit
<1>2. Inv /\ [Next]_vars => Inv'
  BY DatabaseStep, RoundStep, TableStep, HasValuesStep
<1>3. Inv => ListedHasValues
  BY DEF HasValues, ListedHasValues
<1> QED
  BY <1>1, <1>2, <1>3, PTL DEF Spec

-----------------------------------------------------------------------------
(* The list is sorted.                                                     *)

(* The entities that the round has come to.                                *)
WasRead(e) == \E k \in 1 .. kind : e \in Of(k) \ todo

(* While a round reads, no sub OID is listed twice, and what is listed is  *)
(* of entities that are not to be read again.                              *)
Owned ==
  pc = "update" =>
    /\ NoTwins(sub_ids)
    /\ \A id \in ToSet(sub_ids) :
         \E e \in Entities : WasRead(e) /\ \E n \in Entries[e.kind] : id \in SubIds(e, n)

SortInv == Owned /\ SensorsSorted

(* No entity of the table that is being read is of an earlier one.         *)
LEMMA ToRead ==
  ASSUME RoundOK, NEW e \in todo
  PROVE  ~WasRead(e)
<1>1. kind \in 1 .. 4 /\ e \in Of(kind)
  BY KindsFacts DEF RoundOK
<1>2. \A k \in 1 .. kind : k \in 1 .. 4
  BY <1>1, SMT
<1>3. \A k, l \in 1 .. 4 : Kinds[k] = Kinds[l] => k = l
  BY DEF Kinds
<1> QED
  BY <1>1, <1>2, <1>3 DEF WasRead, Of

LEMMA SortStep ==
  ASSUME WithinLayers, Apart
  PROVE  DatabaseOK /\ RoundOK /\ TableOK /\ SortInv /\ [Next]_vars => SortInv'
<1> SUFFICES ASSUME DatabaseOK, RoundOK, TableOK, SortInv, [Next]_vars PROVE SortInv'
  OBVIOUS
<1>1. CASE Redis \/ UNCHANGED vars
  <2>1. UNCHANGED <<pc, kind, todo, finished, sub_ids>>
    BY <1>1 DEF Redis, EntryChanges, PlaceChanges, vars, roundVars
  <2> QED
    BY <2>1 DEF SortInv, Owned, SensorsSorted, WasRead
<1>2. CASE Wake \/ ReinitEnds
  <2>1. sub_ids' = <<>> /\ pc' = "update"
    BY <1>2 DEF Wake, ReinitEnds
  <2> QED
    BY <2>1 DEF SortInv, Owned, SensorsSorted, NoTwins, ToSet
<1>3. CASE WakeReinit \/ Reinit
  <2>1. pc' = "reinit"
    BY <1>3 DEF WakeReinit, Reinit
  <2> QED
    BY <2>1 DEF SortInv, Owned, SensorsSorted
<1>4. CASE TableEnds
  <2>1. pc = "update" /\ pc' = "update" /\ todo = {} /\ kind \in 1 .. 4 /\ kind' = kind + 1 /\ UNCHANGED sub_ids
    BY <1>4, KindsFacts DEF TableEnds, RoundOK
  <2>2. \A k \in 1 .. kind : k \in 1 .. kind' /\ todo' \cap Of(k) = {}
    <3>1. todo' \subseteq Of(kind') /\ kind' \in 1 .. 4
      BY RoundStep, KindsFacts DEF RoundOK
    <3>2. \A k \in 1 .. kind : k \in 1 .. kind' /\ k \in 1 .. 4 /\ k # kind'
      BY <2>1, SMT
    <3>3. \A k, l \in 1 .. 4 : Kinds[k] = Kinds[l] => k = l
      BY DEF Kinds
    <3> QED
      BY <3>1, <3>2, <3>3 DEF Of
  <2>3. ASSUME NEW e \in Entities, WasRead(e) PROVE WasRead(e)'
    BY <2>2, <2>3 DEF WasRead
  <2> QED
    BY <2>1, <2>3 DEF SortInv, Owned, SensorsSorted
<1>5. CASE UpdateEnds
  <2>1. pc = "update" /\ pc' = "asleep"
    BY <1>5 DEF UpdateEnds
  <2>2. \A i, j \in DOMAIN sub_ids' : i < j => sub_ids'[i] < sub_ids'[j]
    BY <1>5, <2>1, SortFacts DEF SortInv, Owned
  <2> QED
    BY <2>1, <2>2 DEF SortInv, Owned, SensorsSorted
<1>6. ASSUME NEW e \in Entities, SkipEntity(e) \/ ReadEntity(e) PROVE SortInv'
  <2>1. pc = "update" /\ pc' = "update" /\ e \in todo /\ todo' = todo \ {e} /\ UNCHANGED kind
    BY <1>6 DEF SkipEntity, ReadEntity
  <2>2. ASSUME NEW f \in Entities, WasRead(f) PROVE WasRead(f)'
    BY <2>1, <2>2 DEF WasRead
  <2>3. CASE SkipEntity(e)
    <3>1. UNCHANGED sub_ids
      BY <2>3 DEF SkipEntity
    <3> QED
      BY <2>1, <2>2, <3>1 DEF SortInv, Owned, SensorsSorted
  <2>4. CASE ReadEntity(e)
    <3> DEFINE ids == SubIds(e, entry[e])
    <3>1. /\ entry[e] \in Entries[e.kind]
          /\ ToSet(sub_ids') = ToSet(sub_ids) \cup ids
          /\ NoTwins(sub_ids) /\ ToSet(sub_ids) \cap ids = {} => NoTwins(sub_ids')
      BY <2>4, ReadFacts
    <3>2. ToSet(sub_ids) \cap ids = {}
      <4> SUFFICES ASSUME NEW id \in ToSet(sub_ids), id \in ids PROVE FALSE
        OBVIOUS
      <4>1. PICK f \in Entities : WasRead(f) /\ \E m \in Entries[f.kind] : id \in SubIds(f, m)
        BY <2>1 DEF SortInv, Owned
      <4>2. f # e
        BY <2>1, <4>1, ToRead
      <4> QED
        BY <3>1, <4>1, <4>2, SubIdsApart
    <3>3. WasRead(e)'
      <4>1. kind \in 1 .. 4 /\ e \in Of(kind)
        BY <2>1, KindsFacts DEF RoundOK
      <4>2. kind \in 1 .. kind
        BY <4>1, SMT
      <4> QED
        BY <2>1, <4>1, <4>2 DEF WasRead
    <3>4. NoTwins(sub_ids')
      BY <2>1, <3>1, <3>2 DEF SortInv, Owned
    <3>5. ASSUME NEW id \in ToSet(sub_ids')
          PROVE  \E f \in Entities : WasRead(f)' /\ \E n \in Entries[f.kind] : id \in SubIds(f, n)
      <4>1. CASE id \in ids
        BY <3>1, <3>3, <4>1
      <4>2. CASE id \in ToSet(sub_ids)
        BY <2>1, <2>2, <4>2 DEF SortInv, Owned
      <4> QED
        BY <3>1, <4>1, <4>2
    <3> HIDE DEF ids
    <3>6. Owned'
      BY <3>4, <3>5 DEF Owned
    <3> QED
      BY <2>1, <3>6 DEF SortInv, SensorsSorted
  <2> QED
    BY <1>6, <2>3, <2>4
<1>7. ASSUME NEW e \in Entities, EntityRaises(e) PROVE SortInv'
  <2>1. pc' = "asleep" /\ finished' = FALSE
    BY <1>7 DEF EntityRaises, Raise
  <2> QED
    BY <2>1 DEF SortInv, Owned, SensorsSorted
<1>8. CASE Fault
  <2>1. pc' = "asleep" /\ finished' = FALSE
    BY <1>8 DEF Fault, Raise
  <2> QED
    BY <2>1 DEF SortInv, Owned, SensorsSorted
<1> QED
  BY <1>1, <1>2, <1>3, <1>4, <1>5, <1>6, <1>7, <1>8 DEF Next, Proceed

(* For any entities at positions below 100 and with up to nine lanes, no   *)
(* two of a kind in one place, and whatever raised before: after a round   *)
(* that raised nothing the list of get_next is strictly ascending.  The    *)
(* inductive invariant is that while a round reads, the sub OIDs listed    *)
(* are of entities that it has come to, and that the digits keep apart.    *)
THEOREM SensorsSortedHolds ==
  ASSUME WithinLayers, Apart
  PROVE  Spec => []SensorsSorted
<1> DEFINE Inv == DatabaseOK /\ RoundOK /\ TableOK /\ SortInv
<1>1. Init => Inv
  <2>1. Init => SortInv
    BY DEF Init, SortInv, Owned, SensorsSorted
  <2> QED
    BY <2>1, DatabaseInit, RoundInit, TableInit
<1>2. Inv /\ [Next]_vars => Inv'
  BY DatabaseStep, RoundStep, TableStep, SortStep
<1>3. Inv => SensorsSorted
  BY DEF SortInv
<1> QED
  BY <1>1, <1>2, <1>3, PTL DEF Spec

=============================================================================
