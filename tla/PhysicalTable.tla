--------------------------- MODULE PhysicalTable ---------------------------
(***************************************************************************)
(* entPhysicalTable (rfc2737.py): a cache of STATE_DB kept by five entity  *)
(* updaters.  A reinit reads every key; between reinits an updater handles *)
(* the keyspace notifications of its own table.  The daemons of the switch *)
(* write STATE_DB at any moment, also in the middle of a round.            *)
(*                                                                         *)
(* A round runs without an await: the table is served to the master only   *)
(* between rounds (pc = "asleep").  It is split here where it reads Redis. *)
(*                                                                         *)
(* Of an entity's row the model keeps that it is listed, and how often:    *)
(* physical_entities is a list, and every "set" inserts the sub OID again. *)
(* The rows of the chassis and of its management node are always there and *)
(* are left out, and so are the attributes of a row.                       *)
(***************************************************************************)
EXTENDS SubOids, Sequences

CONSTANTS
  Xcvrs, Psus, Drawers, Fans, Thermals,  \* names of the entities, by updater
  Chassis,      \* the name of the chassis, parent of fans and of all other entities
  Parent,       \* the parent name of each fan
  Position,     \* the position of each entity, or the ifindex of a transceiver
  ReinitRate,   \* MIBUpdater.reinit_rate
  MaxChanges,   \* bound: writes to STATE_DB
  MaxFaults     \* bound: exceptions of Redis

Modules  == Psus \cup Drawers
Entities == Xcvrs \cup Modules \cup Fans \cup Thermals

ASSUME PhysicalAssumption ==
  /\ Chassis \notin Entities
  /\ Parent \in [Fans -> Modules \cup {Chassis}]
  /\ Position \in [Entities -> Nat]
  /\ ReinitRate \in Nat /\ MaxChanges \in Nat /\ MaxFaults \in Nat

\* physical_entity_updater_types: the order in which the classes are decorated.
Updaters == <<Xcvrs, Psus, Drawers, Fans, Thermals>>

\* The names of the five tables are different.
ASSUME NamesAssumption ==
  \A u, v \in DOMAIN Updaters : u # v => Updaters[u] \cap Updaters[v] = {}

UpdaterOf(e) == CHOOSE u \in DOMAIN Updaters : e \in Updaters[u]

VARIABLES
  info,        \* STATE_DB: the info table's entry of each entity
  related,     \* STATE_DB: the entities with a PHYSICAL_ENTITY_INFO entry
  changes,     \* writes to STATE_DB so far
  faults,      \* exceptions of Redis so far
  pc,          \* the part of the round that runs next
  at,          \* the updater whose turn it is
  todo,        \* the keys that this updater's reinit_data has still to cache
  raised,      \* whether an updater's reinit_data raised in this round
  update_counter,  \* MIBUpdater.update_counter
  subscribed,  \* pub_sub_dict: the updaters with a subscription
  queue,       \* the notifications that each subscription has not delivered
  rows,        \* physical_entities: how often each sub OID is in the list
  owned,       \* entity_to_oid_map: how often each sub OID is in its entity's list
  resolved,    \* physical_name_to_oid_map: the names in it
  waiting,     \* pending_resolve_parent_name_map: callbacks to add each fan
  lost         \* history: the entities that changed unnoticed

dbVars    == <<info, related, changes>>
roundVars == <<pc, at, todo, raised, update_counter>>
subVars   == <<subscribed, queue>>
tableVars == <<rows, owned, resolved, waiting>>
vars == <<dbVars, faults, roundVars, subVars, tableVars, lost>>

-----------------------------------------------------------------------------
(* Sub OIDs.                                                               *)

\* The sub OID of a PSU or a drawer, and of the parent of a fan.
ModuleSubId(m) ==
  IF m \in Psus THEN get_psu_sub_id(Position[m])
  ELSE IF m \in Drawers THEN get_fan_drawer_sub_id(Position[m]) ELSE CHASSIS_SUB_ID

OwnSubId(e) ==
  CASE e \in Xcvrs    -> get_transceiver_sub_id(Position[e])
    [] e \in Modules  -> ModuleSubId(e)
    [] e \in Fans     -> get_fan_sub_id(ModuleSubId(Parent[e]), Position[e])
    [] e \in Thermals -> get_chassis_thermal_sub_id(Position[e])

\* Four sensors of a PSU, the tachometers of a fan, five of a one-lane transceiver.
SensorSubIds(e) ==
  CASE e \in Xcvrs -> {get_transceiver_sensor_sub_id(Position[e], o) : o \in TransceiverSensorOffsets({1})}
    [] e \in Psus  -> {get_psu_sensor_sub_id(OwnSubId(e), p) : p \in PSU_SENSOR_PART_IDS}
    [] e \in Fans  -> {get_fan_tachometers_sub_id(OwnSubId(e))}
    [] OTHER       -> {}

SubIdsOf(e) == {OwnSubId(e)} \cup SensorSubIds(e)
SubIds == UNION {SubIdsOf(e) : e \in Entities}
\* Positions are such that no two entities share a sub OID.
ASSUME SubIdsAssumption ==
  \A e, d \in Entities : e # d => SubIdsOf(e) \cap SubIdsOf(d) = {}

EntityOf(s) == CHOOSE e \in Entities : s \in SubIdsOf(e)

-----------------------------------------------------------------------------
(* STATE_DB.  An entry is absent, or of an entity that is not there (its    *)
(* presence is false, a thermal has no temperature, a transceiver is an     *)
(* RJ45 port), or plain, or metered: with readings for its sensors.         *)

InfosOf(e) ==
  {"unplugged", "plain"} \cup (IF e \in Xcvrs \cup Psus \cup Fans THEN {"metered"} ELSE {})

Plugged(e) == info[e] \in {"plain", "metered"}

\* Whether STATE_DB asks for rows of an entity.
Warranted(e) == Plugged(e) /\ (e \in Xcvrs \/ e \in related)

TypeOK ==
  /\ info \in [Entities -> {"absent", "unplugged", "plain", "metered"}]
  /\ related \subseteq Entities \ Xcvrs
  /\ changes \in 0 .. MaxChanges
  /\ faults \in 0 .. MaxFaults
  /\ pc \in {"asleep", "reinit", "keys", "update"}
  /\ at \in DOMAIN Updaters
  /\ todo \subseteq Updaters[at]
  /\ raised \in BOOLEAN
  /\ update_counter \in 0 .. ReinitRate + 1
  /\ subscribed \subseteq DOMAIN Updaters
  /\ queue \in [DOMAIN Updaters -> Seq([event : {"set", "del"}, name : Entities])]
  /\ rows \in [SubIds -> Nat]
  /\ owned \in [SubIds -> Nat]
  /\ resolved \subseteq Modules \cup {Chassis}
  /\ waiting \in [Fans -> [{"plain", "metered"} -> Nat]]
  /\ lost \subseteq Entities

NoCallbacks == [kind \in {"plain", "metered"} |-> 0]

\* When the agent starts every slot of a module or a fan has its entry, and a port
\* has one if there is a transceiver in it.
Init ==
  /\ info \in {i \in [Entities -> {"absent", "unplugged", "plain", "metered"}] :
                 \A e \in Entities : i[e] \in InfosOf(e) \/ (e \in Xcvrs /\ i[e] = "absent")}
  /\ related = Entities \ Xcvrs
  /\ changes = 0 /\ faults = 0
  /\ pc = "asleep" /\ at = 1 /\ todo = {} /\ raised = FALSE
  /\ update_counter = ReinitRate + 1
  /\ subscribed = {}
  /\ queue = [u \in DOMAIN Updaters |-> <<>>]
  /\ rows = [s \in SubIds |-> 0]
  /\ owned = [s \in SubIds |-> 0]
  /\ resolved = {}
  /\ waiting = [f \in Fans |-> NoCallbacks]
  /\ lost = Entities

\* A notification reaches the subscription of the entity's updater, if it has one.
Notify(e, event) ==
  LET u == UpdaterOf(e)
  IN  IF u \in subscribed
      THEN /\ queue' = [queue EXCEPT ![u] = Append(@, [event |-> event, name |-> e])]
           /\ UNCHANGED lost
      ELSE /\ lost' = lost \cup {e}
           /\ UNCHANGED queue

MayChange == changes < MaxChanges /\ changes' = changes + 1

\* A daemon writes an entry.  xcvrd deletes the entry of a port before it writes
\* one of another type.
DbSet(e, i) ==
  /\ MayChange
  /\ e \in Xcvrs /\ info[e] # "absent" => (i = "unplugged" <=> info[e] = "unplugged")
  /\ info' = [info EXCEPT ![e] = i]
  /\ Notify(e, "set")
  /\ UNCHANGED <<related, faults, roundVars, subscribed, tableVars>>

DbDel(e) ==
  /\ MayChange
  /\ info[e] # "absent"
  /\ info' = [info EXCEPT ![e] = "absent"]
  /\ Notify(e, "del")
  /\ UNCHANGED <<related, faults, roundVars, subscribed, tableVars>>

\* The entry in PHYSICAL_ENTITY_INFO comes or goes: another table, to which no
\* updater subscribes.
DbRelate(e) ==
  /\ MayChange
  /\ related' \in {related \cup {e}, related \ {e}}
  /\ lost' = lost \cup {e}
  /\ UNCHANGED <<info, faults, roundVars, subVars, tableVars>>

\* Likewise the readings of a transceiver, in TRANSCEIVER_DOM_SENSOR.
DbMeter(e) ==
  /\ MayChange
  /\ Plugged(e)
  /\ info' = [info EXCEPT ![e] = IF @ = "plain" THEN "metered" ELSE "plain"]
  /\ lost' = lost \cup {e}
  /\ UNCHANGED <<related, faults, roundVars, subVars, tableVars>>

-----------------------------------------------------------------------------
(* The cache of one entity.                                                *)

Minus(a, b) == IF a <= b THEN 0 ELSE a - b

\* Fault: remove_sub_ids removes one copy of each sub OID.
RemoveEntityCache_OneCopy(e) ==
  /\ rows' = [s \in SubIds |-> IF s \in SubIdsOf(e) /\ owned[s] > 0 THEN Minus(rows[s], 1) ELSE rows[s]]
  /\ owned' = [s \in SubIds |-> IF s \in SubIdsOf(e) THEN 0 ELSE owned[s]]
  /\ resolved' = IF owned[OwnSubId(e)] > 0 THEN resolved \ {e} ELSE resolved
  /\ waiting' = [f \in Fans |-> IF Parent[f] = e /\ resolved' # resolved THEN NoCallbacks ELSE waiting[f]]

\* _remove_entity_cache and remove_sub_ids: a copy for each time the entity owns
\* the sub OID, its name with it, and the callbacks that wait for its name.
RemoveEntityCache(e) ==
  /\ rows' = [s \in SubIds |-> IF s \in SubIdsOf(e) THEN Minus(rows[s], owned[s]) ELSE rows[s]]
  /\ owned' = [s \in SubIds |-> IF s \in SubIdsOf(e) THEN 0 ELSE owned[s]]
  /\ resolved' = IF owned[OwnSubId(e)] > 0 THEN resolved \ {e} ELSE resolved
  /\ waiting' = [f \in Fans |-> IF Parent[f] = e /\ resolved' # resolved THEN NoCallbacks ELSE waiting[f]]

\* What the entry of e adds: its row, and those of the sensors it has readings of.
Additions(e) == IF info[e] = "metered" THEN SubIdsOf(e) ELSE {OwnSubId(e)}

\* How often the callbacks that wait for the name e add a sub OID.
CallbackCopies(e, s) ==
  LET f == EntityOf(s)
  IN  IF f \notin Fans \/ e \notin Modules THEN 0
      ELSE IF Parent[f] # e THEN 0
      ELSE waiting[f]["metered"] + (IF s = OwnSubId(f) THEN waiting[f]["plain"] ELSE 0)

Copies(e, s) == (IF s \in Additions(e) THEN 1 ELSE 0) + CallbackCopies(e, s)

\* Fault: update_name_to_oid_map leaves the callbacks to the next reinit.
AddEntityCache_NoCallbacks(e) ==
  /\ rows' = [s \in SubIds |-> rows[s] + (IF s \in Additions(e) THEN 1 ELSE 0)]
  /\ owned' = [s \in SubIds |-> owned[s] + (IF s \in Additions(e) THEN 1 ELSE 0)]
  /\ resolved' = resolved \cup ({e} \cap Modules)
  /\ UNCHANGED waiting

\* Fault: the rows of the sensors are not recorded in entity_to_oid_map.
AddEntityCache_SensorsNotOwned(e) ==
  /\ rows' = [s \in SubIds |-> rows[s] + Copies(e, s)]
  /\ owned' = [s \in SubIds |-> owned[s] + (IF s = OwnSubId(EntityOf(s)) THEN Copies(e, s) ELSE 0)]
  /\ resolved' = resolved \cup ({e} \cap Modules)
  /\ waiting' = [f \in Fans |-> IF Parent[f] = e THEN NoCallbacks ELSE waiting[f]]

\* _update_entity_cache to its end: the rows are inserted and recorded, and a
\* PSU's or a drawer's name is resolved, which runs the callbacks that wait for it.
AddEntityCache(e) ==
  /\ rows' = [s \in SubIds |-> rows[s] + Copies(e, s)]
  /\ owned' = [s \in SubIds |-> owned[s] + Copies(e, s)]
  /\ resolved' = resolved \cup ({e} \cap Modules)
  /\ waiting' = [f \in Fans |-> IF Parent[f] = e THEN NoCallbacks ELSE waiting[f]]

\* A fan whose parent's name is not resolved: a callback is stored.
DeferFan(e) ==
  /\ waiting' = [waiting EXCEPT ![e][info[e]] = @ + 1]
  /\ UNCHANGED <<rows, owned, resolved>>

\* The reading of a transceiver's sensors raises: its own row is there by then.
AddTransceiverOnly(e) ==
  /\ e \in Xcvrs /\ Plugged(e)
  /\ rows' = [rows EXCEPT ![OwnSubId(e)] = @ + 1]
  /\ owned' = [owned EXCEPT ![OwnSubId(e)] = @ + 1]
  /\ UNCHANGED <<resolved, waiting>>

\* The position of a PSU or a fan without a relation entry is int(''): ValueError.
Raises(e) == Plugged(e) /\ e \in Psus \cup Fans /\ e \notin related

\* Entries of which _update_entity_cache does nothing, the row of an earlier one
\* included: none, an RJ45 port's, and those without the relation entry they need.
PassedOver(e) == ~Warranted(e) /\ (info[e] = "unplugged" => e \in Xcvrs)

\* _update_entity_cache of the five classes.
UpdateEntityCache(e) ==
  \/ /\ info[e] = "unplugged" /\ e \notin Xcvrs
     /\ RemoveEntityCache(e)
  \/ /\ Warranted(e)
     /\ e \in Fans => Parent[e] \in resolved
     /\ AddEntityCache(e)
  \/ /\ Warranted(e)
     /\ e \in Fans /\ Parent[e] \notin resolved
     /\ DeferFan(e)
  \/ /\ PassedOver(e)
     /\ UNCHANGED tableVars

-----------------------------------------------------------------------------
(* A round.                                                                *)

\* Fault: every round that does not reinitialize starts the count again.
RoundStarts_CounterReset ==
  /\ pc = "asleep"
  /\ IF update_counter > ReinitRate
     THEN /\ pc' = "reinit"
          /\ raised' = FALSE
          /\ rows' = [s \in SubIds |-> 0]
          /\ resolved' = {Chassis}
          /\ waiting' = [f \in Fans |-> NoCallbacks]
          /\ UNCHANGED update_counter
     ELSE /\ pc' = "update"
          /\ update_counter' = 0
          /\ UNCHANGED <<raised, rows, resolved, waiting>>
  /\ at' = 1
  /\ UNCHANGED <<dbVars, faults, todo, subVars, owned, lost>>

\* Fault: every round is counted, also one whose reinit_data raises.
RoundStarts_CountsAllRounds ==
  /\ pc = "asleep"
  /\ IF update_counter > ReinitRate
     THEN /\ pc' = "reinit"
          /\ raised' = FALSE
          /\ rows' = [s \in SubIds |-> 0]
          /\ resolved' = {Chassis}
          /\ waiting' = [f \in Fans |-> NoCallbacks]
     ELSE /\ pc' = "update"
          /\ UNCHANGED <<raised, rows, resolved, waiting>>
  /\ update_counter' = update_counter + 1
  /\ at' = 1
  /\ UNCHANGED <<dbVars, faults, todo, subVars, owned, lost>>

\* MIBUpdater.start: reinit_data, which first forgets the whole table, or the
\* update alone.
RoundStarts ==
  /\ pc = "asleep"
  /\ IF update_counter > ReinitRate
     THEN /\ pc' = "reinit"
          /\ raised' = FALSE
          /\ rows' = [s \in SubIds |-> 0]
          /\ resolved' = {Chassis}
          /\ waiting' = [f \in Fans |-> NoCallbacks]
          /\ UNCHANGED update_counter
     ELSE /\ pc' = "update"
          /\ update_counter' = update_counter + 1
          /\ UNCHANGED <<raised, rows, resolved, waiting>>
  /\ at' = 1
  /\ UNCHANGED <<dbVars, faults, todo, subVars, owned, lost>>

Fault == faults < MaxFaults /\ faults' = faults + 1

\* reinit_data raises where it reads the metadata of the device: the names and the
\* callbacks are forgotten, the list of rows is still the old one, and the updaters
\* do not get their turn.
RoundStartsFails ==
  /\ pc = "asleep"
  /\ update_counter > ReinitRate
  /\ Fault
  /\ resolved' = {}
  /\ waiting' = [f \in Fans |-> NoCallbacks]
  /\ UNCHANGED <<dbVars, roundVars, subVars, rows, owned, lost>>

\* After the reinit_data of one updater: the next one's, or the exception that was
\* caught, or the update.
ReinitAdvances(fails) ==
  /\ raised' = (raised \/ fails)
  /\ todo' = {}
  /\ IF at < Len(Updaters)
     THEN pc' = "reinit" /\ at' = at + 1 /\ UNCHANGED update_counter
     ELSE /\ at' = 1
          /\ IF raised'
             THEN pc' = "asleep" /\ UNCHANGED update_counter
             ELSE pc' = "update" /\ update_counter' = 0

\* PhysicalEntityCacheUpdater.reinit_data: the subscription is cleared and
\* cancelled, the map is cleared and the keys of the table are read.
ReinitUpdater ==
  /\ pc = "reinit"
  /\ subscribed' = subscribed \ {at}
  /\ queue' = [queue EXCEPT ![at] = <<>>]
  /\ owned' = [s \in SubIds |-> IF EntityOf(s) \in Updaters[at] THEN 0 ELSE owned[s]]
  /\ pc' = "keys"
  /\ todo' = {e \in Updaters[at] : info[e] # "absent"}
  /\ lost' = lost \ Updaters[at]
  /\ UNCHANGED <<dbVars, faults, at, raised, update_counter, rows, resolved, waiting>>

\* It raises before that: XcvrCacheUpdater.reinit_data reads the interface tables
\* first, and the cancellation, after the messages are dropped, may fail.
ReinitUpdaterFails ==
  /\ pc = "reinit"
  /\ Fault
  /\ \/ Updaters[at] = Xcvrs /\ UNCHANGED queue
     \/ at \in subscribed /\ queue' = [queue EXCEPT ![at] = <<>>]
  /\ lost' = lost \cup Updaters[at]
  /\ ReinitAdvances(TRUE)
  /\ UNCHANGED <<dbVars, subscribed, tableVars>>

\* One of its keys is cached.
ReinitKey(e) ==
  /\ pc = "keys"
  /\ e \in todo
  /\ ~Raises(e)
  /\ UpdateEntityCache(e)
  /\ todo' = todo \ {e}
  /\ lost' = lost \ {e}
  /\ UNCHANGED <<dbVars, faults, pc, at, raised, update_counter, subVars>>

\* Caching a key raises, and the keys after it are not cached.
ReinitKeyFails(e) ==
  /\ pc = "keys"
  /\ e \in todo
  /\ \/ Raises(e) /\ lost' = lost \cup (todo \ {e}) /\ UNCHANGED <<faults, tableVars>>
     \/ Fault /\ lost' = lost \cup todo /\ (UNCHANGED tableVars \/ AddTransceiverOnly(e))
  /\ ReinitAdvances(TRUE)
  /\ UNCHANGED <<dbVars, subVars>>

ReinitUpdaterEnds ==
  /\ pc = "keys"
  /\ todo = {}
  /\ ReinitAdvances(FALSE)
  /\ UNCHANGED <<dbVars, faults, subVars, tableVars, lost>>

\* PhysicalEntityCacheUpdater.update_data subscribes if it has to.
Subscribe ==
  /\ pc = "update"
  /\ at \notin subscribed
  /\ subscribed' = subscribed \cup {at}
  /\ UNCHANGED <<dbVars, faults, roundVars, queue, tableVars, lost>>

\* It handles the next notification: of a "set" it reads the entry anew.
HandleMessage ==
  /\ pc = "update"
  /\ queue[at] # <<>>
  /\ LET m == Head(queue[at])
     IN  \/ /\ m.event = "set" /\ ~Raises(m.name)
            /\ UpdateEntityCache(m.name)
            /\ lost' = IF PassedOver(m.name) THEN lost ELSE lost \ {m.name}
         \/ /\ m.event = "del"
            /\ RemoveEntityCache(m.name)
            /\ lost' = lost \ {m.name}
  /\ queue' = [queue EXCEPT ![at] = Tail(@)]
  /\ UNCHANGED <<dbVars, faults, roundVars, subscribed>>

\* Handling it raises: the notification is gone and the round is over.
HandleMessageFails ==
  /\ pc = "update"
  /\ queue[at] # <<>>
  /\ LET m == Head(queue[at])
     IN  /\ m.event = "set"
         /\ \/ Raises(m.name) /\ UNCHANGED <<faults, lost, tableVars>>
            \/ Fault /\ lost' = lost \cup {m.name} /\ (UNCHANGED tableVars \/ AddTransceiverOnly(m.name))
  /\ queue' = [queue EXCEPT ![at] = Tail(@)]
  /\ pc' = "asleep"
  /\ UNCHANGED <<dbVars, at, todo, raised, update_counter, subscribed>>

\* Subscribing or asking for the next notification raises: the round is over.
UpdateFails ==
  /\ pc = "update"
  /\ Fault
  /\ pc' = "asleep"
  /\ UNCHANGED <<dbVars, at, todo, raised, update_counter, subVars, tableVars, lost>>

\* get_message() returns None: the next updater, or the end of the round.
UpdaterEnds ==
  /\ pc = "update"
  /\ at \in subscribed
  /\ queue[at] = <<>>
  /\ IF at < Len(Updaters) THEN at' = at + 1 /\ UNCHANGED pc ELSE at' = 1 /\ pc' = "asleep"
  /\ UNCHANGED <<dbVars, faults, todo, raised, update_counter, subVars, tableVars, lost>>

Round ==
  \/ RoundStarts \/ RoundStartsFails
  \/ ReinitUpdater \/ ReinitUpdaterFails \/ ReinitUpdaterEnds
  \/ \E e \in Entities : ReinitKey(e) \/ ReinitKeyFails(e)
  \/ Subscribe \/ HandleMessage \/ HandleMessageFails \/ UpdateFails \/ UpdaterEnds

Next ==
  \/ \E e \in Entities : (\E i \in InfosOf(e) : DbSet(e, i)) \/ DbDel(e)
  \/ \E e \in Entities \ Xcvrs : DbRelate(e)
  \/ \E e \in Xcvrs : DbMeter(e)
  \/ Round

Spec == Init /\ [][Next]_vars

\* The updater's task is resumed after each sleep; the daemons owe nothing.
FairSpec == Spec /\ WF_vars(Round)

-----------------------------------------------------------------------------
(* Properties.                                                             *)

Listed(s) == rows[s] > 0

\* No notification about e is on its way, and no change of e went unnoticed.
Informed(e) ==
  e \notin lost /\ \A i \in DOMAIN queue[UpdaterOf(e)] : queue[UpdaterOf(e)][i].name # e

\* A row can be taken away: for every copy of a sub OID in the table its entity
\* has recorded one, so that a removal leaves none behind, however often the
\* entity was set before, and whatever reinit_data of its updater raised.
Removable == \A s \in SubIds : rows[s] <= owned[s]

\* A fan waits only for a parent that is not in the table: no callback is left
\* behind when the name is resolved, and none for a parent that was removed and
\* came back.
WaitsForAbsentParent ==
  \A f \in Fans : waiting[f] # NoCallbacks => Parent[f] \notin resolved

\* Between rounds, an entity about which the updater has been told everything has
\* a row just if STATE_DB asks for one, and rows for all the sensors it has
\* readings of.  Of fans only this: one whose parent has a row has one too.
Agreement ==
  pc = "asleep" =>
    \A e \in Entities : Informed(e) =>
      /\ e \notin Fans => (Listed(OwnSubId(e)) <=> Warranted(e))
      /\ Warranted(e) /\ (e \in Fans => Parent[e] \in resolved) =>
           \A s \in Additions(e) : Listed(s)

\* Where the table should arrive: a fan is listed if its parent is, too.
Settled ==
  pc = "asleep" =>
    \A e \in Entities :
      Listed(OwnSubId(e)) <=>
        Warranted(e) /\ (e \in Fans /\ Parent[e] \in Modules => Warranted(Parent[e]))

\* When STATE_DB and Redis are at rest and every entity has its relation entry,
\* the table ends up right for good, whatever was lost before: the reinit repairs
\* it.
Converges == <>[](Entities \ Xcvrs \subseteq related) => <>[]Settled

\* rfc2737.py, PhysicalEntityCacheUpdater: the map "is used for removing fan mib
\* objects when a fan removing from the system".  A fan that STATE_DB does not ask
\* for, and about which the updater has been told everything, has no row.
RemovedFanIsGone ==
  pc = "asleep" =>
    \A f \in Fans : Informed(f) /\ Listed(OwnSubId(f)) => Warranted(f)

=============================================================================
