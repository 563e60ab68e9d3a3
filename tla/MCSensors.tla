------------------------------ MODULE MCSensors ------------------------------
(* Sensors with a transceiver of two sensors, a PSU, a fan in a drawer and    *)
(* two thermals whose positions are around a power of ten.  Readings are in   *)
(* halves.                                                                    *)
EXTENDS Sensors

MCEntities == {
  [kind |-> "xcvr", ifindex |-> 1], [kind |-> "psu", pos |-> 1],
  [kind |-> "fan", pos |-> 1, parent |-> get_fan_drawer_sub_id(2)],
  [kind |-> "thermal", pos |-> 9], [kind |-> "thermal", pos |-> 10]}

MCEntries == [
  xcvr    |-> {SENSOR_TYPE_TEMP :> Null @@ SENSOR_TYPE_PORT_RX_POWER + 8 :> 5},
  psu     |-> {SENSOR_TYPE_POWER :> Null @@ SENSOR_TYPE_VOLTAGE :> -50},
  fan     |-> {SENSOR_TYPE_FAN :> 3, SENSOR_TYPE_FAN :> Overflows},
  thermal |-> {SENSOR_TYPE_TEMP :> Text, SENSOR_TYPE_TEMP :> 50}]

MCInitial == {
  [e \in MCEntities |-> None],
  [e \in MCEntities |-> CHOOSE n \in MCEntries[e.kind] : TRUE]}

MCFactor == [
  xcvr    |-> SENSOR_TYPE_TEMP :> 100 @@ SENSOR_TYPE_PORT_RX_POWER + 8 :> 1,
  psu     |-> SENSOR_TYPE_POWER :> 1 @@ SENSOR_TYPE_VOLTAGE :> 1,
  fan     |-> SENSOR_TYPE_FAN :> 1,
  thermal |-> SENSOR_TYPE_TEMP :> 10]

ASSUME WithinLayers /\ Apart

=============================================================================
