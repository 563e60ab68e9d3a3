------------------------------ MODULE SubOids ------------------------------
(***************************************************************************)
(* physical_entity_sub_oid_generator.py: the entPhysicalIndex of every     *)
(* physical entity, in layers of decimal digits.  A sub OID of the code is *)
(* a tuple of one number; here it is the number.                           *)
(***************************************************************************)
EXTENDS Integers

MODULE_TYPE_MULTIPLE   == 100000000
MODULE_INDEX_MULTIPLE  == 1000000
MODULE_TYPE_MGMT       == 2 * MODULE_TYPE_MULTIPLE
MODULE_TYPE_FAN_DRAWER == 5 * MODULE_TYPE_MULTIPLE
MODULE_TYPE_PSU        == 6 * MODULE_TYPE_MULTIPLE
MODULE_TYPE_PORT       == 1000000000

DEVICE_TYPE_MULTIPLE        == 10000
DEVICE_INDEX_MULTIPLE       == 100
DEVICE_TYPE_FAN             == 2 * DEVICE_TYPE_MULTIPLE
DEVICE_TYPE_CHASSIS_THERMAL == 99 * DEVICE_TYPE_MULTIPLE
DEVICE_TYPE_POWER_MONITOR   == 24 * DEVICE_TYPE_MULTIPLE

SENSOR_TYPE_TEMP    == 10
SENSOR_TYPE_FAN     == 20
SENSOR_TYPE_POWER   == 30
SENSOR_TYPE_CURRENT == 40
SENSOR_TYPE_VOLTAGE == 50

PORT_IFINDEX_MULTIPLE     == 100
SENSOR_TYPE_PORT_TX_POWER == 20
SENSOR_TYPE_PORT_RX_POWER == 30
SENSOR_TYPE_PORT_TX_BIAS  == 40

CHASSIS_SUB_ID      == 1
CHASSIS_MGMT_SUB_ID == MODULE_TYPE_MGMT

\* The part ids of a PSU's sensors.
PSU_SENSOR_PART_IDS ==
  {SENSOR_TYPE_TEMP, SENSOR_TYPE_POWER, SENSOR_TYPE_CURRENT, SENSOR_TYPE_VOLTAGE}

\* The offsets of a transceiver's sensors: two for the module, three per lane.
TransceiverSensorOffsets(lanes) ==
  {SENSOR_TYPE_TEMP, SENSOR_TYPE_VOLTAGE} \cup
  {base + lane : base \in {SENSOR_TYPE_PORT_TX_POWER, SENSOR_TYPE_PORT_RX_POWER,
                           SENSOR_TYPE_PORT_TX_BIAS}, lane \in lanes}

get_chassis_thermal_sub_id(position) ==
  CHASSIS_MGMT_SUB_ID + DEVICE_TYPE_CHASSIS_THERMAL
    + position * DEVICE_INDEX_MULTIPLE + SENSOR_TYPE_TEMP

get_fan_drawer_sub_id(position) == MODULE_TYPE_FAN_DRAWER + position * MODULE_INDEX_MULTIPLE

\* A fan of the chassis is given a virtual drawer of its own position.
get_fan_sub_id(parent_id, position) ==
  LET drawer == IF parent_id = CHASSIS_SUB_ID THEN get_fan_drawer_sub_id(position) ELSE parent_id
  IN  drawer + DEVICE_TYPE_FAN + position * DEVICE_INDEX_MULTIPLE

get_fan_tachometers_sub_id(parent_id) == parent_id + SENSOR_TYPE_FAN

get_psu_sub_id(position) == MODULE_TYPE_PSU + position * MODULE_INDEX_MULTIPLE

get_psu_sensor_sub_id(parent_id, part_id) == parent_id + DEVICE_TYPE_POWER_MONITOR + part_id

get_transceiver_sub_id(ifindex) == MODULE_TYPE_PORT + ifindex * PORT_IFINDEX_MULTIPLE

get_transceiver_sensor_sub_id(ifindex, offset) == get_transceiver_sub_id(ifindex) + offset

=============================================================================
