------------------------ MODULE PhysicalTableProofs ------------------------
(***************************************************************************)
(* Theorems about PhysicalTable, for any entities of the five kinds and    *)
(* any number of writes and of exceptions.                                 *)
(***************************************************************************)
EXTENDS PhysicalTable, SequenceTheorems, TLAPS

(* The five updaters and their tables.                                     *)
LEMMA UpdatersFacts ==
  /\ DOMAIN Updaters = 1 .. 5 /\ Len(Updaters) = 5
  /\ Updaters[1] = Xcvrs /\ Updaters[2] = Psus /\ Updaters[3] = Drawers
  /\ Updaters[4] = Fans /\ Updaters[5] = Thermals
  /\ \A u \in 1 .. 5 : Updaters[u] \subseteq Entities
  /\ \A u, v \in 1 .. 5 : u # v => Updaters[u] \cap Updaters[v] = {}
<1>1. /\ DOMAIN Updaters = 1 .. 5 /\ Len(Updaters) = 5
      /\ Updaters[1] = Xcvrs /\ Updaters[2] = Psus /\ Updaters[3] = Drawers
      /\ Updaters[4] = Fans /\ Updaters[5] = Thermals
  BY DEF Updaters
<1>2. ASSUME NEW u \in 1 .. 5 PROVE Updaters[u] \subseteq Entities
  <2>1. u = 1 \/ u = 2 \/ u = 3 \/ u = 4 \/ u = 5
    OBVIOUS
  <2> QED
    BY <1>1, <2>1 DEF Entities, Modules
<1> QED
  BY <1>1, <1>2, NamesAssumption

(* A sub OID is that of one entity.                                        *)
LEMMA SubIdsFacts ==
  /\ \A e \in Entities : OwnSubId(e) \in SubIdsOf(e) /\ SubIdsOf(e) \subseteq SubIds
  /\ \A e \in Entities : \A s \in SubIdsOf(e) : EntityOf(s) = e
  /\ \A s \in SubIds : EntityOf(s) \in Entities /\ s \in SubIdsOf(EntityOf(s))
<1>1. \A e \in Entities : OwnSubId(e) \in SubIdsOf(e) /\ SubIdsOf(e) \subseteq SubIds
  BY Zenon DEF SubIdsOf, SubIds
<1>2. ASSUME NEW s \in SubIds PROVE EntityOf(s) \in Entities /\ s \in SubIdsOf(EntityOf(s))
  <2>1. \E e \in Entities : s \in SubIdsOf(e)
    BY Zenon DEF SubIds
  <2> QED
    BY <2>1, Zenon DEF EntityOf
<1>3. ASSUME NEW e \in Entities, NEW s \in SubIdsOf(e) PROVE EntityOf(s) = e
  <2>1. EntityOf(s) \in Entities /\ s \in SubIdsOf(EntityOf(s))
    BY <1>1, <1>2
  <2> QED
    BY <2>1, SubIdsAssumption, Zenon
<1> QED
  BY <1>1, <1>2, <1>3, Zenon

-----------------------------------------------------------------------------
(* The types of the tables, and what keeps them.                           *)
TablesOK ==
  /\ rows \in [SubIds -> Nat]
  /\ owned \in [SubIds -> Nat]
  /\ resolved \subseteq Modules \cup {Chassis}
  /\ waiting \in [Fans -> [{"plain", "metered"} -> Nat]]

LEMMA AdditionsFacts ==
  ASSUME NEW e \in Entities
  PROVE  Additions(e) \subseteq SubIdsOf(e)
BY SubIdsFacts, Zenon DEF Additions

LEMMA CopiesFacts ==
  ASSUME TablesOK, NEW e \in Entities, NEW s \in SubIds
  PROVE  /\ CallbackCopies(e, s) \in Nat
         /\ Copies(e, s) \in Nat
         /\ EntityOf(s) \notin Fans => CallbackCopies(e, s) = 0
<1>1. EntityOf(s) \in Fans => waiting[EntityOf(s)]["metered"] \in Nat /\ waiting[EntityOf(s)]["plain"] \in Nat
  BY DEF TablesOK
<1>2. CallbackCopies(e, s) \in Nat /\ (EntityOf(s) \notin Fans => CallbackCopies(e, s) = 0)
  BY <1>1 DEF CallbackCopies
<1> QED
  BY <1>2 DEF Copies

LEMMA RemoveKeepsTypes ==
  ASSUME TablesOK, NEW e \in Entities, RemoveEntityCache(e)
  PROVE  TablesOK'
<1> USE DEF TablesOK, RemoveEntityCache, NoCallbacks
<1>1. rows' \in [SubIds -> Nat]
  BY DEF Minus
<1>2. owned' \in [SubIds -> Nat]
  OBVIOUS
<1>3. resolved' \subseteq Modules \cup {Chassis}
  OBVIOUS
<1>4. waiting' \in [Fans -> [{"plain", "metered"} -> Nat]]
  OBVIOUS
<1> QED
  BY <1>1, <1>2, <1>3, <1>4

LEMMA AddKeepsTypes ==
  ASSUME TablesOK, NEW e \in Entities, AddEntityCache(e)
  PROVE  TablesOK'
<1>1. \A s \in SubIds : Copies(e, s) \in Nat
  BY CopiesFacts
<1>2. rows' \in [SubIds -> Nat] /\ owned' \in [SubIds -> Nat]
  BY <1>1 DEF TablesOK, AddEntityCache
<1>3. resolved' \subseteq Modules \cup {Chassis}
  BY DEF TablesOK, AddEntityCache
<1>4. waiting' \in [Fans -> [{"plain", "metered"} -> Nat]]
  BY DEF TablesOK, AddEntityCache, NoCallbacks
<1> QED
  BY <1>2, <1>3, <1>4 DEF TablesOK

LEMMA UpdateKeepsTypes ==
  ASSUME TablesOK, NEW e \in Entities, UpdateEntityCache(e)
  PROVE  TablesOK'
<1>1. CASE RemoveEntityCache(e)
  BY <1>1, RemoveKeepsTypes
<1>2. CASE AddEntityCache(e)
  BY <1>2, AddKeepsTypes
<1>3. CASE e \in Fans /\ Warranted(e) /\ DeferFan(e)
  <2>1. info[e] \in {"plain", "metered"}
    BY <1>3 DEF Warranted, Plugged
  <2> QED
    BY <1>3, <2>1 DEF DeferFan, TablesOK
<1>4. CASE UNCHANGED tableVars
  BY <1>4 DEF tableVars, TablesOK
<1> QED
  BY <1>1, <1>2, <1>3, <1>4 DEF UpdateEntityCache

LEMMA TransceiverKeepsTypes ==
  ASSUME TablesOK, NEW e \in Entities, AddTransceiverOnly(e)
  PROVE  TablesOK'
BY SubIdsFacts DEF TablesOK, AddTransceiverOnly

-----------------------------------------------------------------------------
(* Type correctness.  The keys that are still to be cached are those of the *)
(* updater whose turn it is only because there are none in other parts of   *)
(* the round.                                                               *)
NoKeysLeft == pc # "keys" => todo = {}

TypeInv == TypeOK /\ NoKeysLeft

LEMMA ReinitAdvancesTypes ==
  ASSUME TypeOK, NEW fails \in BOOLEAN, ReinitAdvances(fails)
  PROVE  /\ pc' \in {"asleep", "reinit", "update"} /\ at' \in DOMAIN Updaters
         /\ todo' = {} /\ raised' \in BOOLEAN
         /\ update_counter' \in 0 .. ReinitRate + 1
<1>1. /\ at \in 1 .. 5 /\ DOMAIN Updaters = 1 .. 5 /\ Len(Updaters) = 5
      /\ update_counter \in 0 .. ReinitRate + 1 /\ ReinitRate \in Nat
  BY UpdatersFacts, PhysicalAssumption DEF TypeOK
<1>2. pc' \in {"asleep", "reinit", "update"} /\ todo' = {}
  BY Zenon DEF ReinitAdvances
<1>3. raised' \in BOOLEAN
  BY Zenon DEF ReinitAdvances, TypeOK
<1>4. at' \in 1 .. 5
  BY <1>1 DEF ReinitAdvances
<1>5. update_counter' \in 0 .. ReinitRate + 1
  BY <1>1 DEF ReinitAdvances
<1> QED
  BY <1>1, <1>2, <1>3, <1>4, <1>5

LEMMA NotifyTypes ==
  ASSUME TypeOK, NEW e \in Entities, NEW event \in {"set", "del"}, Notify(e, event)
  PROVE  /\ queue' \in [DOMAIN Updaters -> Seq([event : {"set", "del"}, name : Entities])]
         /\ lost' \subseteq Entities
<1> DEFINE m == [event |-> event, name |-> e]
<1>1. m \in [event : {"set", "del"}, name : Entities]
  OBVIOUS
<1>2. CASE UpdaterOf(e) \in subscribed
  <2>1. UpdaterOf(e) \in DOMAIN Updaters
    BY <1>2 DEF TypeOK
  <2>2. Append(queue[UpdaterOf(e)], m) \in Seq([event : {"set", "del"}, name : Entities])
    <3>1. queue[UpdaterOf(e)] \in Seq([event : {"set", "del"}, name : Entities])
      BY <2>1 DEF TypeOK
    <3> HIDE DEF m
    <3> QED
      BY <1>1, <3>1, AppendProperties, Zenon
  <2> QED
    BY <1>2, <2>1, <2>2 DEF TypeOK, Notify
<1>3. CASE UpdaterOf(e) \notin subscribed
  BY <1>3 DEF TypeOK, Notify
<1> QED
  BY <1>2, <1>3

(* The message that is handled names an entity.                            *)
LEMMA HeadTypes ==
  ASSUME TypeOK, queue[at] # <<>>
  PROVE  /\ Head(queue[at]).name \in Entities
         /\ [queue EXCEPT ![at] = Tail(@)]
              \in [DOMAIN Updaters -> Seq([event : {"set", "del"}, name : Entities])]
<1>1. queue[at] \in Seq([event : {"set", "del"}, name : Entities]) /\ at \in DOMAIN Updaters
  BY DEF TypeOK
<1>2. /\ Head(queue[at]) \in [event : {"set", "del"}, name : Entities]
      /\ Tail(queue[at]) \in Seq([event : {"set", "del"}, name : Entities])
  BY <1>1, HeadTailProperties, Zenon
<1> QED
  BY <1>1, <1>2 DEF TypeOK

LEMMA TypeTables ==
  ASSUME TypeOK
  PROVE  TablesOK
BY DEF TypeOK, TablesOK

LEMMA TypeStep == TypeInv /\ [Next]_vars => TypeInv'
<1> SUFFICES ASSUME TypeInv, [Next]_vars PROVE TypeInv'
  OBVIOUS
<1>0. /\ TypeOK /\ NoKeysLeft /\ TablesOK /\ DOMAIN Updaters = 1 .. 5 /\ Len(Updaters) = 5
      /\ MaxChanges \in Nat /\ MaxFaults \in Nat /\ ReinitRate \in Nat
  BY TypeTables, UpdatersFacts, PhysicalAssumption DEF TypeInv
<1>1. ASSUME NEW e \in Entities, NEW i \in InfosOf(e), DbSet(e, i) PROVE TypeInv'
  <2>1. i \in {"absent", "unplugged", "plain", "metered"}
    BY Zenon DEF InfosOf
  <2>2. queue' \in [DOMAIN Updaters -> Seq([event : {"set", "del"}, name : Entities])] /\ lost' \subseteq Entities
    BY <1>0, <1>1, NotifyTypes DEF DbSet
  <2>3. changes' \in 0 .. MaxChanges
    BY <1>0, <1>1 DEF DbSet, MayChange, TypeOK
  <2> QED
    BY <1>0, <1>1, <2>1, <2>2, <2>3, Zenon
       DEF DbSet, TypeInv, TypeOK, NoKeysLeft, roundVars, tableVars
<1>2. ASSUME NEW e \in Entities, DbDel(e) PROVE TypeInv'
  <2>2. queue' \in [DOMAIN Updaters -> Seq([event : {"set", "del"}, name : Entities])] /\ lost' \subseteq Entities
    BY <1>0, <1>2, NotifyTypes DEF DbDel
  <2>3. changes' \in 0 .. MaxChanges
    BY <1>0, <1>2 DEF DbDel, MayChange, TypeOK
  <2> QED
    BY <1>0, <1>2, <2>2, <2>3, Zenon DEF DbDel, TypeInv, TypeOK, NoKeysLeft, roundVars, tableVars
<1>3. ASSUME NEW e \in Entities \ Xcvrs, DbRelate(e) PROVE TypeInv'
  <2>1. changes' \in 0 .. MaxChanges
    BY <1>0, <1>3 DEF DbRelate, MayChange, TypeOK
  <2>2. related' \subseteq Entities \ Xcvrs /\ lost' \subseteq Entities
    BY <1>0, <1>3 DEF DbRelate, TypeOK
  <2> QED
    BY <1>0, <1>3, <2>1, <2>2, Zenon DEF DbRelate, TypeInv, TypeOK, NoKeysLeft, roundVars, subVars, tableVars
<1>4. ASSUME NEW e \in Xcvrs, DbMeter(e) PROVE TypeInv'
  <2>1. changes' \in 0 .. MaxChanges
    BY <1>0, <1>4 DEF DbMeter, MayChange, TypeOK
  <2>2. lost' \subseteq Entities
    BY <1>0, <1>4 DEF DbMeter, TypeOK, Entities
  <2>3. info' \in [Entities -> {"absent", "unplugged", "plain", "metered"}]
    BY <1>0, <1>4 DEF DbMeter, TypeOK
  <2> QED
    BY <1>0, <1>4, <2>1, <2>2, <2>3, Zenon DEF DbMeter, TypeInv, TypeOK, NoKeysLeft, roundVars, subVars, tableVars
<1>5. CASE RoundStarts
  <2>1. todo = {} /\ todo' = {}
    BY <1>0, <1>5, Zenon DEF RoundStarts, NoKeysLeft
  <2>2. update_counter' \in 0 .. ReinitRate + 1 /\ at' \in DOMAIN Updaters
    BY <1>0, <1>5 DEF RoundStarts, TypeOK
  <2>3. rows' \in [SubIds -> Nat] /\ waiting' \in [Fans -> [{"plain", "metered"} -> Nat]]
    <3>1. rows \in [SubIds -> Nat] /\ waiting \in [Fans -> [{"plain", "metered"} -> Nat]]
      BY <1>0 DEF TypeOK
    <3>2. rows' = rows \/ rows' = [s \in SubIds |-> 0]
      BY <1>5, Zenon DEF RoundStarts
    <3>3. waiting' = waiting \/ waiting' = [f \in Fans |-> NoCallbacks]
      BY <1>5, Zenon DEF RoundStarts
    <3>4. [s \in SubIds |-> 0] \in [SubIds -> Nat] /\ NoCallbacks \in [{"plain", "metered"} -> Nat]
      BY DEF NoCallbacks
    <3> QED
      BY <3>1, <3>2, <3>3, <3>4
  <2>4. pc' \in {"reinit", "update"} /\ raised' \in BOOLEAN /\ resolved' \subseteq Modules \cup {Chassis}
    BY <1>0, <1>5, Zenon DEF RoundStarts, TypeOK
  <2> QED
    BY <1>0, <1>5, <2>1, <2>2, <2>3, <2>4, Zenon DEF RoundStarts, TypeInv, TypeOK, NoKeysLeft, dbVars, subVars
<1>6. CASE RoundStartsFails
  <2>1. faults' \in 0 .. MaxFaults
    BY <1>0, <1>6 DEF RoundStartsFails, Fault, TypeOK
  <2>2. waiting' \in [Fans -> [{"plain", "metered"} -> Nat]] /\ resolved' \subseteq Modules \cup {Chassis}
    BY <1>0, <1>6 DEF RoundStartsFails, TypeOK, NoCallbacks
  <2> QED
    BY <1>0, <1>6, <2>1, <2>2, Zenon DEF RoundStartsFails, TypeInv, TypeOK, NoKeysLeft, dbVars, roundVars, subVars
<1>7. CASE ReinitUpdater
  <2>1. queue' \in [DOMAIN Updaters -> Seq([event : {"set", "del"}, name : Entities])]
    BY <1>0, <1>7 DEF ReinitUpdater, TypeOK
  <2>2. owned' \in [SubIds -> Nat]
    BY <1>0, <1>7 DEF ReinitUpdater, TypeOK
  <2>3. todo' \subseteq Updaters[at] /\ lost' \subseteq Entities /\ subscribed' \subseteq DOMAIN Updaters
    BY <1>0, <1>7, Zenon DEF ReinitUpdater, TypeOK
  <2> QED
    BY <1>0, <1>7, <2>1, <2>2, <2>3, Zenon DEF ReinitUpdater, TypeInv, TypeOK, NoKeysLeft, dbVars
<1>8. CASE ReinitUpdaterFails
  <2>1. faults' \in 0 .. MaxFaults
    BY <1>0, <1>8 DEF ReinitUpdaterFails, Fault, TypeOK
  <2>2. /\ pc' \in {"asleep", "reinit", "update"} /\ at' \in DOMAIN Updaters /\ todo' = {}
        /\ raised' \in BOOLEAN /\ update_counter' \in 0 .. ReinitRate + 1
    BY <1>0, <1>8, ReinitAdvancesTypes DEF ReinitUpdaterFails
  <2>3. queue' \in [DOMAIN Updaters -> Seq([event : {"set", "del"}, name : Entities])]
    <3>1. queue' = queue \/ queue' = [queue EXCEPT ![at] = <<>>]
      BY <1>8, Zenon DEF ReinitUpdaterFails
    <3>2. /\ <<>> \in Seq([event : {"set", "del"}, name : Entities])
          /\ queue \in [DOMAIN Updaters -> Seq([event : {"set", "del"}, name : Entities])]
      BY <1>0, EmptySeq, Zenon DEF TypeOK
    <3> QED
      BY <3>1, <3>2, Zenon
  <2>4. lost' \subseteq Entities
    BY <1>0, <1>8, UpdatersFacts DEF ReinitUpdaterFails, TypeOK
  <2> QED
    BY <1>0, <1>8, <2>1, <2>2, <2>3, <2>4, Zenon
       DEF ReinitUpdaterFails, TypeInv, TypeOK, NoKeysLeft, dbVars, tableVars
<1>9. CASE ReinitUpdaterEnds
  <2>1. /\ pc' \in {"asleep", "reinit", "update"} /\ at' \in DOMAIN Updaters /\ todo' = {}
        /\ raised' \in BOOLEAN /\ update_counter' \in 0 .. ReinitRate + 1
    BY <1>0, <1>9, ReinitAdvancesTypes DEF ReinitUpdaterEnds
  <2> QED
    BY <1>0, <1>9, <2>1, Zenon DEF ReinitUpdaterEnds, TypeInv, TypeOK, NoKeysLeft, dbVars, subVars, tableVars
<1>10. ASSUME NEW e \in Entities, ReinitKey(e) PROVE TypeInv'
  <2>1. TablesOK'
    BY <1>0, <1>10, UpdateKeepsTypes DEF ReinitKey
  <2> QED
    BY <1>0, <1>10, <2>1, Zenon DEF ReinitKey, TypeInv, TypeOK, TablesOK, NoKeysLeft, dbVars, subVars
<1>11. ASSUME NEW e \in Entities, ReinitKeyFails(e) PROVE TypeInv'
  <2>1. /\ pc' \in {"asleep", "reinit", "update"} /\ at' \in DOMAIN Updaters /\ todo' = {}
        /\ raised' \in BOOLEAN /\ update_counter' \in 0 .. ReinitRate + 1
    BY <1>0, <1>11, ReinitAdvancesTypes DEF ReinitKeyFails
  <2>2. todo \subseteq Entities
    BY <1>0, UpdatersFacts DEF TypeOK
  <2>3. lost' \subseteq Entities
    BY <1>0, <1>11, <2>2, Zenon DEF ReinitKeyFails, TypeOK
  <2>4. faults' \in 0 .. MaxFaults
    BY <1>0, <1>11 DEF ReinitKeyFails, Fault, TypeOK
  <2>5. UNCHANGED tableVars \/ AddTransceiverOnly(e)
    BY <1>11, Zenon DEF ReinitKeyFails
  <2>6. UNCHANGED tableVars => TablesOK'
    BY <1>0 DEF TablesOK, tableVars
  <2>7. TablesOK'
    BY <1>0, <2>5, <2>6, TransceiverKeepsTypes
  <2> QED
    BY <1>0, <1>11, <2>1, <2>3, <2>4, <2>7, Zenon
       DEF ReinitKeyFails, TypeInv, TypeOK, TablesOK, NoKeysLeft, dbVars, subVars
<1>12. CASE Subscribe
  BY <1>0, <1>12, Zenon DEF Subscribe, TypeInv, TypeOK, NoKeysLeft, dbVars, roundVars, tableVars
<1>13. CASE HandleMessage
  <2> DEFINE m == Head(queue[at])
  <2>1. m.name \in Entities /\ queue' \in [DOMAIN Updaters -> Seq([event : {"set", "del"}, name : Entities])]
    BY <1>0, <1>13, HeadTypes DEF HandleMessage
  <2>2. UpdateEntityCache(m.name) \/ RemoveEntityCache(m.name)
    BY <1>13, Zenon DEF HandleMessage
  <2>3. TablesOK'
    BY <1>0, <2>1, <2>2, UpdateKeepsTypes, RemoveKeepsTypes
  <2>4. lost' \subseteq Entities
    BY <1>0, <1>13, Zenon DEF HandleMessage, TypeOK
  <2> QED
    BY <1>0, <1>13, <2>1, <2>3, <2>4, Zenon
       DEF HandleMessage, TypeInv, TypeOK, TablesOK, NoKeysLeft, dbVars, roundVars
<1>14. CASE HandleMessageFails
  <2> DEFINE m == Head(queue[at])
  <2>1. m.name \in Entities /\ queue' \in [DOMAIN Updaters -> Seq([event : {"set", "del"}, name : Entities])]
    BY <1>0, <1>14, HeadTypes DEF HandleMessageFails
  <2>2. UNCHANGED tableVars \/ AddTransceiverOnly(m.name)
    BY <1>14, Zenon DEF HandleMessageFails
  <2>3. UNCHANGED tableVars => TablesOK'
    BY <1>0 DEF TablesOK, tableVars
  <2>4. TablesOK'
    BY <1>0, <2>1, <2>2, <2>3, TransceiverKeepsTypes
  <2>5. faults' \in 0 .. MaxFaults
    BY <1>0, <1>14 DEF HandleMessageFails, Fault, TypeOK
  <2>6. lost' \subseteq Entities
    BY <1>0, <1>14, <2>1, Zenon DEF HandleMessageFails, TypeOK
  <2>7. todo' = {}
    BY <1>0, <1>14, Zenon DEF HandleMessageFails, NoKeysLeft
  <2> QED
    BY <1>0, <1>14, <2>1, <2>4, <2>5, <2>6, <2>7, Zenon
       DEF HandleMessageFails, TypeInv, TypeOK, TablesOK, NoKeysLeft, dbVars
<1>15. CASE UpdateFails
  <2>1. faults' \in 0 .. MaxFaults
    BY <1>0, <1>15 DEF UpdateFails, Fault, TypeOK
  <2>2. todo' = {}
    BY <1>0, <1>15, Zenon DEF UpdateFails, NoKeysLeft
  <2> QED
    BY <1>0, <1>15, <2>1, <2>2, Zenon DEF UpdateFails, TypeInv, TypeOK, NoKeysLeft, dbVars, subVars, tableVars
<1>16. CASE UpdaterEnds
  <2>1. at' \in DOMAIN Updaters
    BY <1>0, <1>16 DEF UpdaterEnds, TypeOK
  <2>2. todo' = {} /\ pc' \in {"asleep", "update"}
    BY <1>0, <1>16, Zenon DEF UpdaterEnds, NoKeysLeft
  <2> QED
    BY <1>0, <1>16, <2>1, <2>2, Zenon DEF UpdaterEnds, TypeInv, TypeOK, NoKeysLeft, dbVars, subVars, tableVars
<1>17. CASE UNCHANGED vars
  BY <1>0, <1>17, Zenon DEF vars, dbVars, roundVars, subVars, tableVars, TypeInv, TypeOK, NoKeysLeft
<1> QED
  BY <1>1, <1>2, <1>3, <1>4, <1>5, <1>6, <1>7, <1>8, <1>9, <1>10, <1>11, <1>12, <1>13, <1>14,
     <1>15, <1>16, <1>17, Zenon DEF Next, Round

LEMMA TypeInit == Init => TypeInv
<1> SUFFICES ASSUME Init PROVE TypeInv
  OBVIOUS
<1>1. changes \in 0 .. MaxChanges /\ faults \in 0 .. MaxFaults /\ update_counter \in 0 .. ReinitRate + 1
  BY PhysicalAssumption DEF Init
<1>2. at \in DOMAIN Updaters /\ rows \in [SubIds -> Nat] /\ owned \in [SubIds -> Nat]
  BY UpdatersFacts DEF Init
<1>3. queue \in [DOMAIN Updaters -> Seq([event : {"set", "del"}, name : Entities])]
  BY DEF Init
<1>4. waiting \in [Fans -> [{"plain", "metered"} -> Nat]]
  BY DEF Init, NoCallbacks
<1> QED
  BY <1>1, <1>2, <1>3, <1>4, Zenon DEF Init, TypeInv, TypeOK, NoKeysLeft

LEMMA TypeInvHolds == Spec => []TypeInv
BY TypeInit, TypeStep, PTL DEF Spec

(* Every reachable state is of the types of TypeOK, whatever the order of   *)
(* writes, notifications and exceptions: no name of an unknown entity in a  *)
(* queue, no negative number of copies in physical_entities, no counter of  *)
(* rounds beyond the one that reinitializes.                                *)
THEOREM PhysicalTypeCorrect == Spec => []TypeOK
<1>1. TypeInv => TypeOK
  BY DEF TypeInv
<1> QED
  BY <1>1, TypeInvHolds, PTL

-----------------------------------------------------------------------------
(* Every row can be taken away.  Removable is not inductive: reinit_data of *)
(* an updater clears its entity_to_oid_map, whatever rows there are.  What  *)
(* saves it is that the list was cleared when the round began, and that     *)
(* until an updater's turn comes nothing inserts a row of its entities:     *)
(* neither an earlier updater nor, for the fans, a callback.                *)

\* The updaters whose reinit_data is still to come in this round.
Ahead == {u \in 1 .. 5 : (pc = "reinit" /\ at <= u) \/ (pc = "keys" /\ at < u)}

NoRowsAhead ==
  \A u \in Ahead : \A s \in SubIds : EntityOf(s) \in Updaters[u] => rows[s] = 0

NoFanWaits == 4 \in Ahead => \A f \in Fans : waiting[f] = NoCallbacks

CacheInv == Removable /\ NoRowsAhead /\ NoFanWaits /\ WaitsForAbsentParent

LEMMA RemoveKeepsCache ==
  ASSUME TypeOK, Removable, WaitsForAbsentParent, NEW e \in Entities, RemoveEntityCache(e)
  PROVE  Removable' /\ WaitsForAbsentParent'
<1>1. rows \in [SubIds -> Nat] /\ owned \in [SubIds -> Nat]
  BY DEF TypeOK
<1>2. Removable'
  BY <1>1 DEF Removable, RemoveEntityCache, Minus
<1>3. resolved' \subseteq resolved /\ \A f \in Fans : waiting'[f] \in {waiting[f], NoCallbacks}
  BY Zenon DEF RemoveEntityCache
<1> QED
  BY <1>2, <1>3, Zenon DEF WaitsForAbsentParent

LEMMA AddKeepsCache ==
  ASSUME TypeOK, Removable, WaitsForAbsentParent, NEW e \in Entities, AddEntityCache(e)
  PROVE  Removable' /\ WaitsForAbsentParent'
<1>1. TablesOK
  BY TypeTables
<1>2. \A s \in SubIds : Copies(e, s) \in Nat
  BY <1>1, CopiesFacts
<1>3. Removable'
  BY <1>1, <1>2 DEF Removable, AddEntityCache, TablesOK
<1>4. ASSUME NEW f \in Fans, waiting'[f] # NoCallbacks PROVE Parent[f] \notin resolved'
  <2>1. Parent[f] # e /\ waiting'[f] = waiting[f]
    BY <1>4, Zenon DEF AddEntityCache
  <2> QED
    BY <1>4, <2>1, Zenon DEF AddEntityCache, WaitsForAbsentParent
<1>5. WaitsForAbsentParent'
  BY <1>4, Zenon DEF WaitsForAbsentParent, NoCallbacks
<1> QED
  BY <1>3, <1>5

LEMMA UpdateKeepsCache ==
  ASSUME TypeOK, Removable, WaitsForAbsentParent, NEW e \in Entities, UpdateEntityCache(e)
  PROVE  Removable' /\ WaitsForAbsentParent'
<1>1. CASE RemoveEntityCache(e)
  BY <1>1, RemoveKeepsCache
<1>2. CASE AddEntityCache(e)
  BY <1>2, AddKeepsCache
<1>3. CASE e \in Fans /\ Parent[e] \notin resolved /\ DeferFan(e)
  <2>1. waiting \in [Fans -> [{"plain", "metered"} -> Nat]]
    BY DEF TypeOK
  <2>2. \A f \in Fans : f # e => waiting'[f] = waiting[f]
    BY <1>3, <2>1 DEF DeferFan
  <2> QED
    BY <1>3, <2>2, Zenon DEF DeferFan, Removable, WaitsForAbsentParent
<1>4. CASE UNCHANGED tableVars
  BY <1>4 DEF tableVars, Removable, WaitsForAbsentParent
<1> QED
  BY <1>1, <1>2, <1>3, <1>4, Zenon DEF UpdateEntityCache

LEMMA TransceiverKeepsCache ==
  ASSUME TypeOK, Removable, WaitsForAbsentParent, NEW e \in Entities, AddTransceiverOnly(e)
  PROVE  Removable' /\ WaitsForAbsentParent'
<1>1. rows \in [SubIds -> Nat] /\ owned \in [SubIds -> Nat]
  BY DEF TypeOK
<1>2. Removable'
  BY <1>1, SubIdsFacts DEF AddTransceiverOnly, Removable
<1> QED
  BY <1>2, Zenon DEF AddTransceiverOnly, WaitsForAbsentParent

(* The rows of an entity that is ahead are not those of one being cached.  *)
LEMMA AheadIsOther ==
  ASSUME TypeOK, NEW e \in Updaters[at], NEW u \in 1 .. 5, u # at,
         NEW s \in SubIds, EntityOf(s) \in Updaters[u]
  PROVE  s \notin SubIdsOf(e) /\ (EntityOf(s) \in Fans => u = 4)
<1>1. at \in 1 .. 5 /\ e \in Entities
  BY UpdatersFacts DEF TypeOK
<1>2. Updaters[u] \cap Updaters[at] = {}
  BY <1>1, UpdatersFacts
<1>3. s \notin SubIdsOf(e)
  BY <1>1, <1>2, SubIdsFacts
<1>4. u # 4 => Updaters[u] \cap Fans = {}
  BY UpdatersFacts
<1> QED
  BY <1>3, <1>4

LEMMA UpdateKeepsAhead ==
  ASSUME TypeOK, CacheInv, NEW e \in Updaters[at], Ahead' \subseteq Ahead \ {at},
         UpdateEntityCache(e) \/ AddTransceiverOnly(e)
  PROVE  NoRowsAhead' /\ NoFanWaits'
<1>0. TablesOK /\ e \in Entities /\ at \in 1 .. 5
  BY TypeTables, UpdatersFacts DEF TypeOK
<1>1. CASE RemoveEntityCache(e)
  <2>1. ASSUME NEW u \in Ahead', NEW s \in SubIds, EntityOf(s) \in Updaters[u] PROVE rows'[s] = 0
    <3>1. u \in Ahead /\ u \in 1 .. 5 /\ u # at
      BY <2>1 DEF Ahead
    <3>2. s \notin SubIdsOf(e) /\ rows[s] = 0
      BY <2>1, <3>1, AheadIsOther DEF CacheInv, NoRowsAhead
    <3> QED
      BY <1>1, <3>2, Zenon DEF RemoveEntityCache
  <2>2. \A f \in Fans : waiting'[f] \in {waiting[f], NoCallbacks}
    BY <1>1, Zenon DEF RemoveEntityCache
  <2> QED
    BY <2>1, <2>2, Zenon DEF NoRowsAhead, NoFanWaits, CacheInv, NoCallbacks
<1>2. CASE AddEntityCache(e)
  <2>1. ASSUME NEW u \in Ahead', NEW s \in SubIds, EntityOf(s) \in Updaters[u] PROVE rows'[s] = 0
    <3>1. u \in Ahead /\ u \in 1 .. 5 /\ u # at
      BY <2>1 DEF Ahead
    <3>2. s \notin SubIdsOf(e) /\ rows[s] = 0 /\ (EntityOf(s) \in Fans => u = 4)
      BY <2>1, <3>1, AheadIsOther DEF CacheInv, NoRowsAhead
    <3>3. s \notin Additions(e)
      BY <1>0, <3>2, AdditionsFacts
    <3>4. EntityOf(s) \in Fans => waiting[EntityOf(s)] = NoCallbacks
      BY <3>1, <3>2, Zenon DEF CacheInv, NoFanWaits
    <3>5. EntityOf(s) \in Fans => CallbackCopies(e, s) = 0
      BY <3>4 DEF CallbackCopies, NoCallbacks
    <3>6. CallbackCopies(e, s) = 0
      BY <1>0, <3>5, CopiesFacts
    <3>7. rows'[s] = rows[s] + Copies(e, s)
      BY <1>2, Zenon DEF AddEntityCache
    <3> QED
      BY <3>2, <3>3, <3>6, <3>7 DEF Copies
  <2>2. \A f \in Fans : waiting'[f] \in {waiting[f], NoCallbacks}
    BY <1>2, Zenon DEF AddEntityCache
  <2> QED
    BY <2>1, <2>2, Zenon DEF NoRowsAhead, NoFanWaits, CacheInv, NoCallbacks
<1>3. CASE e \in Fans /\ DeferFan(e)
  <2>1. at = 4
    BY <1>0, <1>3, UpdatersFacts
  <2>2. 4 \notin Ahead' /\ rows' = rows
    BY <1>3, <2>1, Zenon DEF DeferFan
  <2> QED
    BY <2>2, Zenon DEF NoRowsAhead, NoFanWaits, CacheInv
<1>4. CASE UNCHANGED tableVars
  BY <1>4, Zenon DEF tableVars, NoRowsAhead, NoFanWaits, CacheInv, NoCallbacks
<1>5. CASE AddTransceiverOnly(e)
  <2>1. ASSUME NEW u \in Ahead', NEW s \in SubIds, EntityOf(s) \in Updaters[u] PROVE rows'[s] = 0
    <3>1. u \in Ahead /\ u \in 1 .. 5 /\ u # at
      BY <2>1 DEF Ahead
    <3>2. s \notin SubIdsOf(e) /\ rows[s] = 0
      BY <2>1, <3>1, AheadIsOther DEF CacheInv, NoRowsAhead
    <3>3. s # OwnSubId(e)
      BY <1>0, <3>2, SubIdsFacts
    <3> QED
      BY <1>0, <1>5, <3>2, <3>3 DEF AddTransceiverOnly, TablesOK
  <2> QED
    BY <1>5, <2>1, Zenon DEF AddTransceiverOnly, NoRowsAhead, NoFanWaits, CacheInv, NoCallbacks
<1> QED
  BY <1>1, <1>2, <1>3, <1>4, <1>5, Zenon DEF UpdateEntityCache

LEMMA AdvancesAhead ==
  ASSUME TypeOK, NEW fails \in BOOLEAN, pc \in {"reinit", "keys"}, ReinitAdvances(fails)
  PROVE  Ahead' \subseteq Ahead \ {at}
<1>1. at \in 1 .. 5 /\ Len(Updaters) = 5
  BY UpdatersFacts DEF TypeOK
<1>2. CASE at < 5
  BY <1>1, <1>2 DEF ReinitAdvances, Ahead
<1>3. CASE at = 5
  <2>1. pc' \in {"asleep", "update"}
    BY <1>1, <1>3 DEF ReinitAdvances
  <2> QED
    BY <2>1 DEF Ahead
<1> QED
  BY <1>1, <1>2, <1>3

(* A step that leaves the table alone and puts no updater ahead.           *)
LEMMA CacheStutters ==
  ASSUME CacheInv, UNCHANGED <<rows, owned, resolved, waiting>>, Ahead' \subseteq Ahead
  PROVE  CacheInv'
<1>1. Removable' /\ WaitsForAbsentParent'
  BY Zenon DEF CacheInv, Removable, WaitsForAbsentParent, NoCallbacks
<1>2. NoRowsAhead' /\ NoFanWaits'
  BY Zenon DEF CacheInv, NoRowsAhead, NoFanWaits, NoCallbacks
<1> QED
  BY <1>1, <1>2 DEF CacheInv

LEMMA CacheStep == TypeOK /\ CacheInv /\ [Next]_vars => CacheInv'
<1> SUFFICES ASSUME TypeOK, CacheInv, [Next]_vars PROVE CacheInv'
  OBVIOUS
<1>0. Removable /\ WaitsForAbsentParent
  BY DEF CacheInv
<1>1. ASSUME NEW e \in Entities, NEW i \in InfosOf(e), DbSet(e, i) PROVE CacheInv'
  BY <1>1, CacheStutters DEF DbSet, roundVars, tableVars, Ahead
<1>2. ASSUME NEW e \in Entities, DbDel(e) PROVE CacheInv'
  BY <1>2, CacheStutters DEF DbDel, roundVars, tableVars, Ahead
<1>3. ASSUME NEW e \in Entities \ Xcvrs, DbRelate(e) PROVE CacheInv'
  BY <1>3, CacheStutters DEF DbRelate, roundVars, tableVars, Ahead
<1>4. ASSUME NEW e \in Xcvrs, DbMeter(e) PROVE CacheInv'
  BY <1>4, CacheStutters DEF DbMeter, roundVars, tableVars, Ahead
<1>5. CASE RoundStarts
  <2>1. CASE update_counter > ReinitRate
    <3>1. \A s \in SubIds : rows'[s] = 0 /\ owned'[s] \in Nat
      BY <1>5, <2>1 DEF RoundStarts, TypeOK
    <3>2. \A f \in Fans : waiting'[f] = NoCallbacks
      BY <1>5, <2>1, Zenon DEF RoundStarts
    <3>3. Removable'
      BY <3>1 DEF Removable
    <3> QED
      BY <3>1, <3>2, <3>3, Zenon DEF CacheInv, NoRowsAhead, NoFanWaits, WaitsForAbsentParent, NoCallbacks
  <2>2. CASE ~(update_counter > ReinitRate)
    <3>1. Ahead' \subseteq Ahead
      BY <1>5, <2>2 DEF RoundStarts, Ahead
    <3> QED
      BY <1>5, <2>2, <3>1, CacheStutters DEF RoundStarts
  <2> QED
    BY <2>1, <2>2
<1>6. CASE RoundStartsFails
  <2>1. pc' = "asleep" /\ UNCHANGED <<rows, owned>> /\ \A f \in Fans : waiting'[f] = NoCallbacks
    BY <1>6, Zenon DEF RoundStartsFails, roundVars
  <2>2. Ahead' = {}
    BY <2>1 DEF Ahead
  <2>3. Removable'
    BY <1>0, <2>1 DEF Removable
  <2> QED
    BY <2>1, <2>2, <2>3, Zenon DEF CacheInv, NoRowsAhead, NoFanWaits, WaitsForAbsentParent, NoCallbacks
<1>7. CASE ReinitUpdater
  <2>1. at \in Ahead /\ Ahead' \subseteq Ahead
    BY <1>7, UpdatersFacts DEF ReinitUpdater, Ahead, TypeOK
  <2>2. Removable'
    <3> SUFFICES ASSUME NEW s \in SubIds PROVE rows'[s] <= owned'[s]
      BY DEF Removable
    <3>1. CASE EntityOf(s) \in Updaters[at]
      <4>1. rows'[s] = 0 /\ owned'[s] = 0
        BY <1>7, <2>1, <3>1, Zenon DEF ReinitUpdater, CacheInv, NoRowsAhead
      <4> QED
        BY <4>1
    <3>2. CASE EntityOf(s) \notin Updaters[at]
      BY <1>0, <1>7, <3>2 DEF ReinitUpdater, Removable
    <3> QED
      BY <3>1, <3>2
  <2>3. NoRowsAhead' /\ NoFanWaits' /\ WaitsForAbsentParent'
    BY <1>7, <2>1, Zenon DEF ReinitUpdater, CacheInv, NoRowsAhead, NoFanWaits, WaitsForAbsentParent, NoCallbacks
  <2> QED
    BY <2>2, <2>3 DEF CacheInv
<1>8. CASE ReinitUpdaterFails
  BY <1>8, AdvancesAhead, CacheStutters DEF ReinitUpdaterFails, tableVars
<1>9. CASE ReinitUpdaterEnds
  BY <1>9, AdvancesAhead, CacheStutters DEF ReinitUpdaterEnds, tableVars
<1>10. ASSUME NEW e \in Entities, ReinitKey(e) PROVE CacheInv'
  <2>1. e \in Updaters[at] /\ UpdateEntityCache(e)
    BY <1>10 DEF ReinitKey, TypeOK
  <2>2. Ahead' \subseteq Ahead \ {at}
    BY <1>10 DEF ReinitKey, Ahead, TypeOK
  <2> QED
    BY <1>0, <2>1, <2>2, UpdateKeepsCache, UpdateKeepsAhead DEF CacheInv
<1>11. ASSUME NEW e \in Entities, ReinitKeyFails(e) PROVE CacheInv'
  <2>1. e \in Updaters[at] /\ (UNCHANGED tableVars \/ AddTransceiverOnly(e))
    BY <1>11 DEF ReinitKeyFails, TypeOK
  <2>2. Ahead' \subseteq Ahead \ {at}
    BY <1>11, AdvancesAhead DEF ReinitKeyFails
  <2>3. CASE UNCHANGED tableVars
    BY <2>2, <2>3, CacheStutters DEF tableVars
  <2>4. CASE AddTransceiverOnly(e)
    BY <1>0, <2>1, <2>2, <2>4, TransceiverKeepsCache, UpdateKeepsAhead DEF CacheInv
  <2> QED
    BY <2>1, <2>3, <2>4
<1>12. CASE Subscribe
  BY <1>12, CacheStutters DEF Subscribe, roundVars, tableVars, Ahead
<1>13. CASE HandleMessage
  <2> DEFINE m == Head(queue[at])
  <2>1. m.name \in Entities
    BY <1>13, HeadTypes DEF HandleMessage
  <2>2. UpdateEntityCache(m.name) \/ RemoveEntityCache(m.name)
    BY <1>13, Zenon DEF HandleMessage
  <2>3. Removable' /\ WaitsForAbsentParent'
    BY <1>0, <2>1, <2>2, UpdateKeepsCache, RemoveKeepsCache
  <2>4. Ahead' = {}
    BY <1>13 DEF HandleMessage, roundVars, Ahead
  <2> QED
    BY <2>3, <2>4, Zenon DEF CacheInv, NoRowsAhead, NoFanWaits
<1>14. CASE HandleMessageFails
  <2> DEFINE m == Head(queue[at])
  <2>1. m.name \in Entities
    BY <1>14, HeadTypes DEF HandleMessageFails
  <2>2. Ahead' = {}
    BY <1>14 DEF HandleMessageFails, Ahead
  <2>3. CASE UNCHANGED tableVars
    BY <2>2, <2>3, CacheStutters DEF tableVars
  <2>4. CASE AddTransceiverOnly(m.name)
    <3>1. Removable' /\ WaitsForAbsentParent'
      BY <1>0, <2>1, <2>4, TransceiverKeepsCache
    <3> QED
      BY <2>2, <3>1, Zenon DEF CacheInv, NoRowsAhead, NoFanWaits
  <2> QED
    BY <1>14, <2>3, <2>4, Zenon DEF HandleMessageFails
<1>15. CASE UpdateFails
  BY <1>15, CacheStutters DEF UpdateFails, tableVars, Ahead
<1>16. CASE UpdaterEnds
  <2>1. Ahead' = {}
    BY <1>16 DEF UpdaterEnds, Ahead
  <2> QED
    BY <1>16, <2>1, CacheStutters DEF UpdaterEnds, tableVars
<1>17. CASE UNCHANGED vars
  BY <1>17, CacheStutters DEF vars, roundVars, tableVars, Ahead
<1> QED
  BY <1>1, <1>2, <1>3, <1>4, <1>5, <1>6, <1>7, <1>8, <1>9, <1>10, <1>11, <1>12, <1>13, <1>14,
     <1>15, <1>16, <1>17, Zenon DEF Next, Round

LEMMA CacheInit == Init => CacheInv
<1> SUFFICES ASSUME Init PROVE CacheInv
  OBVIOUS
<1>1. Ahead = {}
  BY DEF Init, Ahead
<1>2. Removable
  BY DEF Init, Removable
<1> QED
  BY <1>1, <1>2, Zenon DEF Init, CacheInv, NoRowsAhead, NoFanWaits, WaitsForAbsentParent

LEMMA CacheInvHolds == Spec => []CacheInv
<1>1. Spec => []TypeOK
  BY PhysicalTypeCorrect
<1> QED
  BY <1>1, CacheInit, CacheStep, PTL DEF Spec

(* _remove_entity_cache takes every row of an entity away: at all times     *)
(* entity_to_oid_map records each copy that physical_entities holds.        *)
THEOREM RemovableHolds == Spec => []Removable
<1>1. CacheInv => Removable
  BY DEF CacheInv
<1> QED
  BY <1>1, CacheInvHolds, PTL

(* A callback in pending_resolve_parent_name_map always waits for a name    *)
(* that physical_name_to_oid_map does not have.                             *)
THEOREM WaitsForAbsentParentHolds == Spec => []WaitsForAbsentParent
<1>1. CacheInv => WaitsForAbsentParent
  BY DEF CacheInv
<1> QED
  BY <1>1, CacheInvHolds, PTL

-----------------------------------------------------------------------------
(* The table agrees with STATE_DB.  Inside a round that is said of the     *)
(* entities whose turn is over; a fan may lack rows that a callback of its *)
(* parent will add.  The notifications that are still to come must say how *)
(* the entry ended up, and a row that nothing will read again must have    *)
(* its "del" among them: a "set" for it would be passed over.              *)

\* The reinit of the entity is over: its updater's turn, or its own.
Done(e) == UpdaterOf(e) \notin Ahead /\ e \notin todo

QueueOf(e) == queue[UpdaterOf(e)]
DelQueued(e) == \E i \in DOMAIN QueueOf(e) : QueueOf(e)[i].name = e /\ QueueOf(e)[i].event = "del"

\* Entries for which a "set" does not take an earlier row away.
Unwanted(e) ==
  info[e] = "absent" \/ (e \in Xcvrs /\ info[e] = "unplugged") \/ (e \notin Xcvrs /\ e \notin related)

\* A row of a fan that its parent's callbacks will add.  After a reinit_data that
\* failed at its start they are lost, and the next round is a reinit.
Waits(f, s) == waiting[f]["metered"] > 0 \/ (s = OwnSubId(f) /\ waiting[f]["plain"] > 0)
Promised(f, s) ==
  f \in Fans /\ Parent[f] \notin resolved /\ (Waits(f, s) \/ (pc = "asleep" /\ update_counter > ReinitRate))

QueueRight(u) ==
  /\ u \notin subscribed => queue[u] = <<>>
  /\ \A i \in DOMAIN queue[u] :
       /\ queue[u][i].name \in Updaters[u]
       /\ \/ queue[u][i].event = "set"
          \/ info[queue[u][i].name] = "absent"
          \/ \E j \in DOMAIN queue[u] : i < j /\ queue[u][j].name = queue[u][i].name

QueuesRight == \A u \in 1 .. 5 : QueueRight(u)

NoRowsTodo == \A e \in todo \ Fans : rows[OwnSubId(e)] = 0

GoneIsQueued(e) == e \notin Fans /\ e \notin lost /\ Unwanted(e) /\ Listed(OwnSubId(e)) => DelQueued(e)
RowIfWarranted(e) == Informed(e) /\ e \notin Fans => (Listed(OwnSubId(e)) <=> Warranted(e))
RowsOrPromise(e) == Informed(e) /\ Warranted(e) => \A s \in Additions(e) : Listed(s) \/ Promised(e, s)
Right(e) == Done(e) => GoneIsQueued(e) /\ RowIfWarranted(e) /\ RowsOrPromise(e)

AgreeInv == QueuesRight /\ NoRowsTodo /\ \A e \in Entities : Right(e)

LEMMA UpdaterOfFacts ==
  /\ \A e \in Entities : UpdaterOf(e) \in 1 .. 5 /\ e \in Updaters[UpdaterOf(e)]
  /\ \A u \in 1 .. 5 : \A e \in Updaters[u] : UpdaterOf(e) = u
<1>1. ASSUME NEW e \in Entities PROVE UpdaterOf(e) \in 1 .. 5 /\ e \in Updaters[UpdaterOf(e)]
  <2>1. \E u \in 1 .. 5 : e \in Updaters[u]
    <3>1. e \in Xcvrs \/ e \in Psus \/ e \in Drawers \/ e \in Fans \/ e \in Thermals
      BY DEF Entities, Modules
    <3>2. 1 \in 1 .. 5 /\ 2 \in 1 .. 5 /\ 3 \in 1 .. 5 /\ 4 \in 1 .. 5 /\ 5 \in 1 .. 5
      BY SMT
    <3> QED
      BY <3>1, <3>2, UpdatersFacts
  <2>2. \E u \in DOMAIN Updaters : e \in Updaters[u]
    BY <2>1, UpdatersFacts
  <2>3. UpdaterOf(e) \in DOMAIN Updaters /\ e \in Updaters[UpdaterOf(e)]
    BY <2>2, Zenon DEF UpdaterOf
  <2> QED
    BY <2>3, UpdatersFacts
<1>2. ASSUME NEW u \in 1 .. 5, NEW e \in Updaters[u] PROVE UpdaterOf(e) = u
  <2>1. e \in Entities
    BY UpdatersFacts
  <2>2. UpdaterOf(e) \in 1 .. 5 /\ e \in Updaters[UpdaterOf(e)]
    BY <1>1, <2>1
  <2> QED
    BY <2>2, UpdatersFacts
<1> QED
  BY <1>1, <1>2, Zenon

(* A fan's parent is a module or the chassis, and no fan is a module.      *)
LEMMA KindsApart ==
  /\ \A f \in Fans : f \notin Modules /\ f \notin Xcvrs /\ f \in Entities
  /\ \A e \in Xcvrs : e \notin Modules
  /\ \A f \in Fans : Parent[f] \in Entities => Parent[f] \in Modules
  /\ \A e \in Psus : e \notin Xcvrs /\ e \notin Fans
<1>1. 1 \in 1 .. 5 /\ 2 \in 1 .. 5 /\ 3 \in 1 .. 5 /\ 4 \in 1 .. 5
  BY SMT
<1>2. Updaters[1] \cap Updaters[2] = {} /\ Updaters[1] \cap Updaters[3] = {} /\ Updaters[1] \cap Updaters[4] = {}
  BY <1>1, UpdatersFacts
<1>3. Updaters[2] \cap Updaters[4] = {} /\ Updaters[3] \cap Updaters[4] = {}
  BY <1>1, UpdatersFacts
<1>4. Xcvrs \cap Psus = {} /\ Xcvrs \cap Drawers = {} /\ Xcvrs \cap Fans = {} /\ Psus \cap Fans = {} /\ Drawers \cap Fans = {}
  BY <1>2, <1>3, UpdatersFacts
<1>5. \A f \in Fans : Parent[f] \in Entities => Parent[f] \in Modules
  BY PhysicalAssumption
<1> QED
  BY <1>4, <1>5 DEF Modules, Entities

-----------------------------------------------------------------------------
(* What an operation of the cache does to the rows of the entity it is for, *)
(* and to those of the others.                                             *)

LEMMA OtherSubIds ==
  ASSUME NEW d \in Entities, NEW e \in Entities, d # e, NEW s \in SubIdsOf(d)
  PROVE  s \in SubIds /\ s \notin SubIdsOf(e) /\ EntityOf(s) = d
BY SubIdsFacts

\* Whoever shows a row or promises it still does.
Keeps(d) == \A s \in SubIdsOf(d) : rows[s] > 0 \/ Promised(d, s) => rows'[s] > 0 \/ Promised(d, s)'

LEMMA RemoveOwn ==
  ASSUME TypeOK, Removable, NEW e \in Entities, RemoveEntityCache(e), NEW s \in SubIdsOf(e)
  PROVE  rows'[s] = 0
<1>1. s \in SubIds /\ rows[s] \in Nat /\ owned[s] \in Nat /\ rows[s] <= owned[s]
  BY SubIdsFacts DEF TypeOK, Removable
<1> QED
  BY <1>1 DEF RemoveEntityCache, Minus

LEMMA RemoveOthers ==
  ASSUME TypeOK, pc # "asleep", NEW e \in Entities, RemoveEntityCache(e), NEW d \in Entities, d # e
  PROVE  (\A s \in SubIdsOf(d) : rows'[s] = rows[s]) /\ Keeps(d)
<1>1. \A s \in SubIdsOf(d) : rows'[s] = rows[s]
  BY OtherSubIds DEF RemoveEntityCache
<1>2. ASSUME NEW s \in SubIdsOf(d), Promised(d, s) PROVE Promised(d, s)'
  <2>1. d \in Fans /\ Parent[d] \notin resolved /\ Waits(d, s)
    BY <1>2 DEF Promised
  <2>2. Parent[d] \notin resolved'
    BY <2>1 DEF RemoveEntityCache
  <2>3. waiting'[d] = waiting[d]
    <3>1. Parent[d] = e => resolved' = resolved
      BY <2>1 DEF RemoveEntityCache
    <3> QED
      BY <2>1, <3>1, Zenon DEF RemoveEntityCache
  <2> QED
    BY <2>1, <2>2, <2>3 DEF Promised, Waits
<1> QED
  BY <1>1, <1>2, Zenon DEF Keeps

LEMMA AddOwn ==
  ASSUME TypeOK, NEW e \in Entities, AddEntityCache(e), NEW s \in Additions(e)
  PROVE  rows'[s] > 0
<1>1. s \in SubIds
  BY AdditionsFacts, SubIdsFacts
<1>2. rows[s] \in Nat /\ CallbackCopies(e, s) \in Nat
  BY <1>1, TypeTables, CopiesFacts DEF TypeOK
<1>3. rows'[s] = rows[s] + Copies(e, s)
  BY <1>1 DEF AddEntityCache
<1> QED
  BY <1>2, <1>3 DEF Copies

LEMMA AddOthers ==
  ASSUME TypeOK, pc # "asleep", NEW e \in Entities, AddEntityCache(e), NEW d \in Entities, d # e
  PROVE  (d \notin Fans => \A s \in SubIdsOf(d) : rows'[s] = rows[s]) /\ Keeps(d)
<1>1. ASSUME NEW s \in SubIdsOf(d)
      PROVE  /\ s \in SubIds /\ rows[s] \in Nat /\ CallbackCopies(e, s) \in Nat
             /\ rows'[s] = rows[s] + CallbackCopies(e, s)
             /\ d \notin Fans => CallbackCopies(e, s) = 0
  <2>1. s \in SubIds /\ s \notin SubIdsOf(e) /\ EntityOf(s) = d
    BY OtherSubIds
  <2>2. s \notin Additions(e)
    BY <2>1, AdditionsFacts
  <2>3. rows[s] \in Nat /\ CallbackCopies(e, s) \in Nat /\ (d \notin Fans => CallbackCopies(e, s) = 0)
    BY <2>1, TypeTables, CopiesFacts DEF TypeOK
  <2>4. rows'[s] = rows[s] + Copies(e, s)
    BY <2>1 DEF AddEntityCache
  <2> QED
    BY <2>1, <2>2, <2>3, <2>4 DEF Copies
<1>2. d \notin Fans => \A s \in SubIdsOf(d) : rows'[s] = rows[s]
  BY <1>1
<1>3. ASSUME NEW s \in SubIdsOf(d), rows[s] > 0 PROVE rows'[s] > 0
  BY <1>1, <1>3
<1>4. ASSUME NEW s \in SubIdsOf(d), Promised(d, s) PROVE rows'[s] > 0 \/ Promised(d, s)'
  <2>1. d \in Fans /\ Parent[d] \notin resolved /\ Waits(d, s)
    BY <1>4 DEF Promised
  <2>2. CASE Parent[d] = e
    <3>1. e \in Modules /\ EntityOf(s) = d
      BY <2>1, <2>2, KindsApart, OtherSubIds
    <3>2. waiting[d]["metered"] \in Nat /\ waiting[d]["plain"] \in Nat
      BY <2>1 DEF TypeOK
    <3>3. CallbackCopies(e, s) = waiting[d]["metered"] + (IF s = OwnSubId(d) THEN waiting[d]["plain"] ELSE 0)
      BY <2>1, <2>2, <3>1 DEF CallbackCopies
    <3>4. CallbackCopies(e, s) > 0
      BY <2>1, <3>2, <3>3 DEF Waits
    <3> QED
      BY <1>1, <3>4
  <2>3. CASE Parent[d] # e
    <3>1. waiting'[d] = waiting[d] /\ Parent[d] \notin resolved'
      BY <2>1, <2>3 DEF AddEntityCache
    <3> QED
      BY <2>1, <3>1 DEF Promised, Waits
  <2> QED
    BY <2>2, <2>3
<1> QED
  BY <1>2, <1>3, <1>4, Zenon DEF Keeps

(* Nothing is written about the others.                                    *)
LEMMA KeepsAll ==
  ASSUME pc # "asleep", NEW d \in Entities, UNCHANGED resolved, d \in Fans => waiting'[d] = waiting[d],
         \A s \in SubIdsOf(d) : rows'[s] = rows[s]
  PROVE  Keeps(d)
<1>1. ASSUME NEW s \in SubIdsOf(d), Promised(d, s) PROVE Promised(d, s)'
  <2>1. d \in Fans /\ Parent[d] \notin resolved /\ Waits(d, s)
    BY <1>1 DEF Promised
  <2>2. waiting'[d] = waiting[d]
    BY <2>1
  <2> QED
    BY <2>1, <2>2 DEF Promised, Waits
<1> QED
  BY <1>1 DEF Keeps

\* The operations on the cache that are for e.
Caches(e) == UpdateEntityCache(e) \/ RemoveEntityCache(e) \/ AddTransceiverOnly(e) \/ UNCHANGED tableVars

LEMMA CachesOthers ==
  ASSUME TypeOK, pc # "asleep", NEW e \in Entities, Caches(e), NEW d \in Entities, d # e
  PROVE  (d \notin Fans => rows'[OwnSubId(d)] = rows[OwnSubId(d)]) /\ Keeps(d)
<1>0. OwnSubId(d) \in SubIdsOf(d)
  BY SubIdsFacts
<1>1. CASE RemoveEntityCache(e)
  BY <1>0, <1>1, RemoveOthers
<1>2. CASE AddEntityCache(e)
  BY <1>0, <1>2, AddOthers
<1>3. CASE e \in Fans /\ DeferFan(e)
  <2>1. d \in Fans => waiting'[d] = waiting[d]
    BY <1>3 DEF DeferFan, TypeOK
  <2>2. UNCHANGED <<rows, resolved>>
    BY <1>3 DEF DeferFan
  <2> QED
    BY <2>1, <2>2, KeepsAll
<1>4. CASE UNCHANGED tableVars
  <2>1. UNCHANGED <<rows, resolved, waiting>>
    BY <1>4 DEF tableVars
  <2> QED
    BY <2>1, KeepsAll
<1>5. CASE AddTransceiverOnly(e)
  <2>1. UNCHANGED <<resolved, waiting>>
    BY <1>5 DEF AddTransceiverOnly
  <2>2. \A s \in SubIdsOf(d) : rows'[s] = rows[s]
    BY <1>5, OtherSubIds, SubIdsFacts DEF AddTransceiverOnly, TypeOK
  <2> QED
    BY <1>0, <2>1, <2>2, KeepsAll
<1> QED
  BY <1>1, <1>2, <1>3, <1>4, <1>5, Zenon DEF Caches, UpdateEntityCache

(* What _update_entity_cache leaves of the entity itself.                  *)
LEMMA UpdateOwn ==
  ASSUME TypeOK, Removable, NEW e \in Entities, UpdateEntityCache(e)
  PROVE  \/ PassedOver(e) /\ UNCHANGED <<rows, owned, resolved, waiting>>
         \/ ~Warranted(e) /\ rows'[OwnSubId(e)] = 0
         \/ /\ Warranted(e)
            /\ e \notin Fans => rows'[OwnSubId(e)] > 0
            /\ \A s \in Additions(e) : rows'[s] > 0 \/ (e \in Fans /\ Parent[e] \notin resolved' /\ Waits(e, s)')
<1>0. OwnSubId(e) \in SubIdsOf(e) /\ OwnSubId(e) \in Additions(e)
  BY SubIdsFacts DEF Additions
<1>1. CASE info[e] = "unplugged" /\ RemoveEntityCache(e)
  <2>1. ~Warranted(e)
    BY <1>1 DEF Warranted, Plugged
  <2>2. rows'[OwnSubId(e)] = 0
    BY <1>0, <1>1, RemoveOwn
  <2> QED
    BY <2>1, <2>2
<1>2. CASE Warranted(e) /\ AddEntityCache(e)
  BY <1>0, <1>2, AddOwn
<1>3. CASE Warranted(e) /\ e \in Fans /\ Parent[e] \notin resolved /\ DeferFan(e)
  <2>1. info[e] \in {"plain", "metered"}
    BY <1>3 DEF Warranted, Plugged
  <2>2. waiting'[e][info[e]] = waiting[e][info[e]] + 1 /\ waiting[e][info[e]] \in Nat
    BY <1>3, <2>1 DEF DeferFan, TypeOK
  <2>3. waiting'[e][info[e]] > 0
    BY <2>2
  <2>4. \A s \in Additions(e) : Waits(e, s)'
    BY <2>1, <2>3 DEF Waits, Additions
  <2>5. Parent[e] \notin resolved'
    BY <1>3 DEF DeferFan
  <2> QED
    BY <1>3, <2>4, <2>5
<1>4. CASE PassedOver(e) /\ UNCHANGED tableVars
  BY <1>4 DEF tableVars
<1> QED
  BY <1>1, <1>2, <1>3, <1>4, Zenon DEF UpdateEntityCache

-----------------------------------------------------------------------------
(* The notifications.                                                      *)

Mentioned(e) == \E i \in DOMAIN QueueOf(e) : QueueOf(e)[i].name = e

LEMMA InformedMeans == \A e : Informed(e) <=> e \notin lost /\ ~Mentioned(e)
BY DEF Informed, Mentioned, QueueOf

\* What an entity's notifications said, they still say.
Remembers(d) == (DelQueued(d) => DelQueued(d)') /\ (Mentioned(d) => Mentioned(d)')

LEMMA QueuesTyped ==
  ASSUME TypeOK, NEW u \in 1 .. 5
  PROVE  /\ queue[u] \in Seq([event : {"set", "del"}, name : Entities])
         /\ DOMAIN queue[u] = 1 .. Len(queue[u]) /\ Len(queue[u]) \in Nat
         /\ \A i \in DOMAIN queue[u] : queue[u][i].name \in Entities /\ queue[u][i].event \in {"set", "del"}
<1>1. queue[u] \in Seq([event : {"set", "del"}, name : Entities])
  BY UpdatersFacts DEF TypeOK
<1>2. DOMAIN queue[u] = 1 .. Len(queue[u]) /\ Len(queue[u]) \in Nat
  BY <1>1, LenProperties, Zenon
<1>3. ASSUME NEW i \in DOMAIN queue[u] PROVE queue[u][i] \in [event : {"set", "del"}, name : Entities]
  BY <1>1, <1>2, ElementOfSeq, Zenon
<1> QED
  BY <1>1, <1>2, <1>3

LEMMA QueueKept ==
  ASSUME NEW u \in 1 .. 5, QueueRight(u), queue'[u] = queue[u], u \in subscribed => u \in subscribed',
         \A d \in Updaters[u] : info[d] = "absent" => info'[d] = "absent"
  PROVE  QueueRight(u)'
<1>1. PICK q : q = queue[u]
  OBVIOUS
<1>2. /\ u \notin subscribed => q = <<>>
      /\ \A i \in DOMAIN q :
           /\ q[i].name \in Updaters[u]
           /\ \/ q[i].event = "set"
              \/ info[q[i].name] = "absent"
              \/ \E j \in DOMAIN q : i < j /\ q[j].name = q[i].name
  BY <1>1 DEF QueueRight
<1>3. queue'[u] = q
  BY <1>1
<1> QED
  BY <1>2, <1>3 DEF QueueRight

LEMMA QueueCleared ==
  ASSUME NEW u \in 1 .. 5, queue'[u] = <<>>
  PROVE  QueueRight(u)'
<1>1. DOMAIN queue'[u] = {}
  OBVIOUS
<1> QED
  BY <1>1 DEF QueueRight

LEMMA SameQueueRemembers ==
  ASSUME NEW d, QueueOf(d)' = QueueOf(d)
  PROVE  Remembers(d)
BY DEF Remembers, DelQueued, Mentioned

LEMMA AppendFacts ==
  ASSUME NEW M, NEW q \in Seq(M), NEW m \in M
  PROVE  /\ DOMAIN Append(q, m) = 1 .. Len(q) + 1 /\ Len(q) + 1 \in DOMAIN Append(q, m)
         /\ Append(q, m)[Len(q) + 1] = m
         /\ \A i \in DOMAIN q : i \in DOMAIN Append(q, m) /\ i < Len(q) + 1 /\ Append(q, m)[i] = q[i]
         /\ \A i \in DOMAIN Append(q, m) : i \in DOMAIN q \/ i = Len(q) + 1
<1>1. Len(q) \in Nat /\ DOMAIN q = 1 .. Len(q)
  BY LenProperties, Zenon
<1>2. /\ DOMAIN Append(q, m) = 1 .. Len(q) + 1
      /\ \A i \in 1 .. Len(q) : Append(q, m)[i] = q[i]
      /\ Append(q, m)[Len(q) + 1] = m
  BY AppendProperties, SMT
<1> QED
  BY <1>1, <1>2

LEMMA TailFacts ==
  ASSUME NEW M, NEW q \in Seq(M), q # <<>>
  PROVE  /\ 1 \in DOMAIN q /\ q[1] = Head(q)
         /\ \A i \in DOMAIN q : i # 1 => i - 1 \in DOMAIN Tail(q) /\ Tail(q)[i - 1] = q[i]
         /\ \A i \in DOMAIN Tail(q) : i + 1 \in DOMAIN q /\ Tail(q)[i] = q[i + 1] /\ i + 1 # 1
<1>1. Len(q) \in Nat /\ DOMAIN q = 1 .. Len(q)
  BY LenProperties, Zenon
<1>2. Len(q) # 0
  BY EmptySeq, LenProperties, SMT
<1>3. /\ Tail(q) \in Seq(M) /\ Len(Tail(q)) = Len(q) - 1
      /\ \A i \in 1 .. Len(Tail(q)) : Tail(q)[i] = q[i + 1]
  BY HeadTailProperties, SMT
<1>4. DOMAIN Tail(q) = 1 .. Len(q) - 1
  BY <1>3, LenProperties, Zenon
<1>5. q[1] = Head(q)
  BY <1>1, <1>2, SMT
<1> QED
  BY <1>1, <1>2, <1>3, <1>4, <1>5

(* A write to an entry is told, or remembered as lost.                     *)
LEMMA NotifyQueues ==
  ASSUME TypeOK, QueuesRight, NEW e \in Entities, NEW event \in {"set", "del"}, Notify(e, event), UNCHANGED subscribed,
         \A d \in Entities : d # e => info'[d] = info[d], event = "del" => info'[e] = "absent"
  PROVE  /\ QueuesRight'
         /\ \A d \in Entities : Remembers(d)
         /\ lost \subseteq lost' /\ lost' \subseteq lost \cup {e}
         /\ e \in lost' \/ Mentioned(e)'
         /\ event = "del" => e \in lost' \/ DelQueued(e)'
<1> DEFINE u == UpdaterOf(e)
           m == [event |-> event, name |-> e]
           q == queue[u]
<1>1. u \in 1 .. 5 /\ e \in Updaters[u] /\ \A v \in 1 .. 5 : v # u => e \notin Updaters[v]
  BY UpdaterOfFacts
<1>2. \A v \in 1 .. 5 : v # u => queue'[v] = queue[v]
  <2>1. queue' = queue \/ queue' = [queue EXCEPT ![u] = Append(@, m)]
    BY Zenon DEF Notify
  <2>2. queue \in [1 .. 5 -> Seq([event : {"set", "del"}, name : Entities])]
    BY UpdatersFacts DEF TypeOK
  <2> HIDE DEF u, m
  <2> QED
    BY <2>1, <2>2
<1>3. ASSUME NEW v \in 1 .. 5, v # u PROVE QueueRight(v)'
  <2>1. \A d \in Updaters[v] : info'[d] = info[d]
    BY <1>1, <1>3, UpdatersFacts
  <2>2. QueueRight(v) /\ queue'[v] = queue[v]
    BY <1>2, <1>3 DEF QueuesRight
  <2> QED
    BY <2>1, <2>2, QueueKept
<1>4. ASSUME NEW d \in Entities, UpdaterOf(d) # u PROVE Remembers(d)
  <2>1. QueueOf(d)' = QueueOf(d)
    BY <1>2, <1>4, UpdaterOfFacts DEF QueueOf
  <2> QED
    BY <2>1, SameQueueRemembers
<1>5. CASE u \notin subscribed
  <2>1. queue' = queue /\ lost' = lost \cup {e}
    BY <1>5 DEF Notify
  <2>2. queue'[u] = <<>>
    BY <1>1, <1>5, <2>1 DEF QueuesRight, QueueRight
  <2>3. QueueRight(u)'
    BY <1>1, <2>2, QueueCleared
  <2>4. \A d \in Entities : Remembers(d)
    BY <2>1, SameQueueRemembers DEF QueueOf
  <2> QED
    BY <1>3, <2>1, <2>3, <2>4 DEF QueuesRight
<1>6. CASE u \in subscribed
  <2>1. q \in Seq([event : {"set", "del"}, name : Entities]) /\ m \in [event : {"set", "del"}, name : Entities]
    BY <1>1, QueuesTyped
  <2>2. queue'[u] = Append(q, m) /\ lost' = lost
    <3>1. queue' = [queue EXCEPT ![u] = Append(@, m)] /\ lost' = lost
      BY <1>6 DEF Notify
    <3>2. queue \in [1 .. 5 -> Seq([event : {"set", "del"}, name : Entities])]
      BY UpdatersFacts DEF TypeOK
    <3> HIDE DEF u, m
    <3> QED
      BY <1>1, <3>1, <3>2
  <2>3. m.name = e /\ m.event = event
    OBVIOUS
  <2>4. PICK p : p = Append(q, m)
    OBVIOUS
  <2>5. PICK n : n = Len(q) + 1
    OBVIOUS
  <2> HIDE DEF m
  <2>6. /\ n \in DOMAIN p /\ p[n].name = e /\ p[n].event = event
        /\ \A i \in DOMAIN q : i \in DOMAIN p /\ i < n /\ p[i] = q[i]
        /\ \A i \in DOMAIN p : i \in DOMAIN q \/ i = n
    BY <2>1, <2>3, <2>4, <2>5, AppendFacts
  <2>7. queue'[u] = p
    BY <2>2, <2>4
  <2>8. QueueRight(u)'
    <3>1. ASSUME NEW i \in DOMAIN p
          PROVE  /\ p[i].name \in Updaters[u]
                 /\ p[i].event = "set" \/ info'[p[i].name] = "absent" \/ \E j \in DOMAIN p : i < j /\ p[j].name = p[i].name
      <4>1. CASE i = n
        BY <1>1, <2>6, <4>1
      <4>2. CASE i \in DOMAIN q /\ q[i].name = e
        BY <1>1, <2>6, <4>2
      <4>3. CASE i \in DOMAIN q /\ q[i].name # e
        <5>1. /\ q[i].name \in Updaters[u]
              /\ q[i].event = "set" \/ info[q[i].name] = "absent" \/ \E j \in DOMAIN q : i < j /\ q[j].name = q[i].name
          BY <1>1, <4>3 DEF QueuesRight, QueueRight
        <5>2. info'[q[i].name] = info[q[i].name]
          BY <1>1, <4>3, <5>1, UpdatersFacts
        <5> QED
          BY <2>6, <4>3, <5>1, <5>2
      <4> QED
        BY <2>6, <4>1, <4>2, <4>3
    <3> QED
      BY <1>6, <2>7, <3>1 DEF QueueRight
  <2>9. ASSUME NEW d \in Entities, UpdaterOf(d) = u PROVE Remembers(d)
    <3>1. QueueOf(d) = q /\ QueueOf(d)' = p
      BY <2>7, <2>9 DEF QueueOf
    <3> QED
      BY <2>6, <3>1 DEF Remembers, DelQueued, Mentioned
  <2>10. Mentioned(e)' /\ (event = "del" => DelQueued(e)')
    <3>1. QueueOf(e)' = p
      BY <2>7 DEF QueueOf
    <3> QED
      BY <2>6, <3>1 DEF DelQueued, Mentioned
  <2> HIDE DEF u
  <2> QED
    BY <1>3, <1>4, <2>2, <2>8, <2>9, <2>10, Zenon DEF QueuesRight
<1> QED
  BY <1>5, <1>6

(* A notification is taken from the queue.                                 *)
LEMMA TailQueues ==
  ASSUME TypeOK, QueuesRight, queue[at] # <<>>, queue' = [queue EXCEPT ![at] = Tail(@)], UNCHANGED <<info, subscribed>>,
         NEW e, NEW event, e = Head(queue[at]).name, event = Head(queue[at]).event
  PROVE  /\ QueuesRight' /\ e \in Updaters[at]
         /\ \A d \in Entities : d # e => Remembers(d)
         /\ event = "set" => (DelQueued(e) => DelQueued(e)')
         /\ event = "del" => info[e] = "absent" \/ Mentioned(e)'
<1>0. PICK u : u = at
  OBVIOUS
<1>1. at \in 1 .. 5
  BY UpdatersFacts DEF TypeOK
<1>2. \A v \in 1 .. 5 : v # at => queue'[v] = queue[v]
  BY UpdatersFacts DEF TypeOK
<1>3. PICK q : q = queue[at]
  OBVIOUS
<1>4. PICK p : p = Tail(q)
  OBVIOUS
<1>5. queue'[u] = p
  BY <1>0, <1>1, <1>3, <1>4, UpdatersFacts DEF TypeOK
<1>6. q \in Seq([event : {"set", "del"}, name : Entities]) /\ q # <<>> /\ DOMAIN q = 1 .. Len(q) /\ Len(q) \in Nat
  BY <1>1, <1>3, QueuesTyped
<1>7. /\ 1 \in DOMAIN q /\ q[1].name = e /\ q[1].event = event
      /\ \A i \in DOMAIN q : i # 1 => i - 1 \in DOMAIN p /\ p[i - 1] = q[i]
      /\ \A i \in DOMAIN p : i + 1 \in DOMAIN q /\ p[i] = q[i + 1] /\ i + 1 # 1
  BY <1>3, <1>4, <1>6, TailFacts
<1>8. /\ at \in subscribed
      /\ \A i \in DOMAIN q :
           /\ q[i].name \in Updaters[at]
           /\ q[i].event = "set" \/ info[q[i].name] = "absent" \/ \E j \in DOMAIN q : i < j /\ q[j].name = q[i].name
  BY <1>1, <1>3 DEF QueuesRight, QueueRight
<1>9. \A i \in DOMAIN p : i \in Int
  <2>1. Tail(q) \in Seq([event : {"set", "del"}, name : Entities])
    BY <1>6, HeadTailProperties, Zenon
  <2> QED
    BY <1>4, <2>1, LenProperties
<1>10. ASSUME NEW i \in DOMAIN q, NEW j \in DOMAIN q, i < j PROVE j # 1 /\ (i # 1 => i - 1 < j - 1)
  BY <1>6, <1>10
<1>11. QueueRight(u)'
  <2>1. ASSUME NEW i \in DOMAIN p
        PROVE  /\ p[i].name \in Updaters[at]
               /\ p[i].event = "set" \/ info'[p[i].name] = "absent" \/ \E j \in DOMAIN p : i < j /\ p[j].name = p[i].name
    <3>1. i + 1 \in DOMAIN q /\ p[i] = q[i + 1] /\ i \in Int
      BY <1>7, <1>9
    <3>2. ASSUME NEW k \in DOMAIN q, i + 1 < k, q[k].name = q[i + 1].name
          PROVE  \E j \in DOMAIN p : i < j /\ p[j].name = p[i].name
      <4>1. k # 1 /\ i < k - 1
        BY <1>6, <3>1, <3>2
      <4>2. k - 1 \in DOMAIN p /\ p[k - 1] = q[k]
        BY <1>7, <4>1
      <4> QED
        BY <3>1, <3>2, <4>1, <4>2
    <3> QED
      BY <1>8, <3>1, <3>2
  <2> QED
    BY <1>0, <1>5, <1>8, <2>1 DEF QueueRight
<1>12. QueuesRight'
  <2>1. ASSUME NEW v \in 1 .. 5, v # u PROVE QueueRight(v)'
    BY <1>0, <1>2, <2>1, QueueKept DEF QueuesRight
  <2> QED
    BY <1>11, <2>1 DEF QueuesRight
<1>13. ASSUME NEW d \in Entities, UpdaterOf(d) # at PROVE Remembers(d)
  <2>1. QueueOf(d)' = QueueOf(d)
    BY <1>2, <1>13, UpdaterOfFacts DEF QueueOf
  <2> QED
    BY <2>1, SameQueueRemembers
<1>14. ASSUME NEW d \in Entities, UpdaterOf(d) = at
       PROVE  /\ QueueOf(d) = q /\ QueueOf(d)' = p
  BY <1>0, <1>3, <1>5, <1>14 DEF QueueOf
<1>15. ASSUME NEW d \in Entities, d # e, UpdaterOf(d) = at PROVE Remembers(d)
  <2>1. QueueOf(d) = q /\ QueueOf(d)' = p
    BY <1>14, <1>15
  <2> QED
    BY <1>7, <1>15, <2>1 DEF Remembers, DelQueued, Mentioned
<1>16. e \in Updaters[at] /\ e \in Entities /\ UpdaterOf(e) = at
  BY <1>1, <1>7, <1>8, UpdatersFacts, UpdaterOfFacts
<1>17. QueueOf(e) = q /\ QueueOf(e)' = p
  BY <1>14, <1>16
<1>18. event = "set" => (DelQueued(e) => DelQueued(e)')
  BY <1>7, <1>17 DEF DelQueued
<1>19. event = "del" => info[e] = "absent" \/ Mentioned(e)'
  <2>1. ASSUME NEW j \in DOMAIN q, 1 < j, q[j].name = e PROVE Mentioned(e)'
    <3>1. j - 1 \in DOMAIN p /\ p[j - 1] = q[j]
      BY <1>7, <2>1
    <3> QED
      BY <1>17, <2>1, <3>1 DEF Mentioned
  <2> QED
    BY <1>7, <1>8, <2>1
<1> QED
  BY <1>12, <1>13, <1>15, <1>16, <1>18, <1>19, Zenon

(* The queue of the updater whose turn it is may be dropped.               *)
LEMMA DroppedQueues ==
  ASSUME TypeOK, QueuesRight, UNCHANGED <<queue, subscribed>> \/ queue' = [queue EXCEPT ![at] = <<>>],
         subscribed \subseteq subscribed' \cup {at}, UNCHANGED info
  PROVE  /\ QueuesRight'
         /\ \A d \in Entities : UpdaterOf(d) # at => Remembers(d)
<1>0. PICK u : u = at
  OBVIOUS
<1>1. queue \in [1 .. 5 -> Seq([event : {"set", "del"}, name : Entities])] /\ at \in 1 .. 5
  BY UpdatersFacts DEF TypeOK
<1>2. \A v \in 1 .. 5 : v # at => queue'[v] = queue[v]
  BY <1>1
<1>3. ASSUME NEW v \in 1 .. 5, v # at PROVE QueueRight(v)'
  BY <1>2, <1>3, QueueKept DEF QueuesRight
<1>4. QueueRight(u)'
  <2>1. CASE UNCHANGED <<queue, subscribed>>
    BY <1>0, <1>1, <2>1, QueueKept DEF QueuesRight
  <2>2. CASE queue' = [queue EXCEPT ![at] = <<>>]
    <3>1. queue'[u] = <<>>
      BY <1>0, <1>1, <2>2
    <3> QED
      BY <1>0, <1>1, <3>1, QueueCleared
  <2> QED
    BY <2>1, <2>2
<1>5. ASSUME NEW d \in Entities, UpdaterOf(d) # at PROVE Remembers(d)
  <2>1. QueueOf(d)' = QueueOf(d)
    BY <1>2, <1>5, UpdaterOfFacts DEF QueueOf
  <2> QED
    BY <2>1, SameQueueRemembers
<1> QED
  BY <1>0, <1>3, <1>4, <1>5 DEF QueuesRight

LEMMA SameQueues ==
  ASSUME QueuesRight, UNCHANGED queue, subscribed \subseteq subscribed',
         \A d \in Entities : info[d] = "absent" => info'[d] = "absent"
  PROVE  QueuesRight' /\ \A d \in Entities : Remembers(d)
<1>1. ASSUME NEW v \in 1 .. 5 PROVE QueueRight(v)'
  BY QueueKept, UpdatersFacts DEF QueuesRight
<1>2. ASSUME NEW d \in Entities PROVE Remembers(d)
  <2>1. QueueOf(d)' = QueueOf(d)
    BY DEF QueueOf
  <2> QED
    BY <2>1, SameQueueRemembers
<1> QED
  BY <1>1, <1>2 DEF QueuesRight

-----------------------------------------------------------------------------
(* One step, seen by an entity that it is not about.                       *)
LEMMA RightKept ==
  ASSUME NEW d \in Entities, Right(d), Done(d)' => Done(d), d \notin lost' => d \notin lost, Remembers(d),
         info'[d] = info[d], d \in related' <=> d \in related,
         d \notin Fans => rows'[OwnSubId(d)] = rows[OwnSubId(d)], Keeps(d)
  PROVE  Right(d)'
<1> SUFFICES ASSUME Done(d)' PROVE GoneIsQueued(d)' /\ RowIfWarranted(d)' /\ RowsOrPromise(d)'
  BY Zenon DEF Right
<1>1. GoneIsQueued(d) /\ RowIfWarranted(d) /\ RowsOrPromise(d)
  BY DEF Right
<1>2. Informed(d)' => Informed(d)
  <2>1. Informed(d) <=> d \notin lost /\ ~Mentioned(d)
    BY InformedMeans
  <2>2. (Informed(d) <=> d \notin lost /\ ~Mentioned(d))'
    BY DEF Informed, Mentioned, QueueOf
  <2> QED
    BY <2>1, <2>2 DEF Remembers
<1>3. (Unwanted(d)' <=> Unwanted(d)) /\ (Warranted(d)' <=> Warranted(d)) /\ Additions(d)' = Additions(d)
  BY DEF Unwanted, Warranted, Plugged, Additions
<1>4. d \notin Fans => (Listed(OwnSubId(d))' <=> Listed(OwnSubId(d)))
  BY DEF Listed
<1>5. GoneIsQueued(d)'
  BY <1>1, <1>3, <1>4 DEF GoneIsQueued, Remembers
<1>6. RowIfWarranted(d)'
  BY <1>1, <1>2, <1>3, <1>4 DEF RowIfWarranted
<1>7. RowsOrPromise(d)'
  <2> SUFFICES ASSUME Informed(d)', Warranted(d)', NEW s \in Additions(d)' PROVE rows'[s] > 0 \/ Promised(d, s)'
    BY DEF RowsOrPromise, Listed
  <2>1. s \in Additions(d) /\ s \in SubIdsOf(d)
    BY <1>3, AdditionsFacts
  <2>2. Listed(s) \/ Promised(d, s)
    BY <1>1, <1>2, <1>3, <2>1 DEF RowsOrPromise
  <2> QED
    BY <2>1, <2>2 DEF Keeps, Listed
<1> QED
  BY <1>5, <1>6, <1>7

(* Nothing is claimed of an entity that is lost.                           *)
LEMMA RightIfLost ==
  ASSUME NEW d \in Entities, d \in lost'
  PROVE  Right(d)'
BY DEF Right, GoneIsQueued, RowIfWarranted, RowsOrPromise, Informed

(* Nothing is to be read again of an entity that is not to have a row.     *)
LEMMA RightIfGone ==
  ASSUME NEW d \in Entities, ~Warranted(d)', d \in Fans \/ ~Listed(OwnSubId(d))'
  PROVE  Right(d)'
BY DEF Right, GoneIsQueued, RowIfWarranted, RowsOrPromise

(* The entry of an entity that is passed over, and whose row stays away or *)
(* waits for its "del".                                                    *)
LEMMA RightIfPassedOver ==
  ASSUME NEW d \in Entities, Right(d), Done(d), Unwanted(d), ~Warranted(d)',
         d \notin lost' => d \notin lost, DelQueued(d) => DelQueued(d)',
         d \notin Fans => rows'[OwnSubId(d)] = rows[OwnSubId(d)]
  PROVE  Right(d)'
<1>1. d \notin Fans /\ d \notin lost /\ Listed(OwnSubId(d)) => DelQueued(d)
  BY DEF Right, GoneIsQueued
<1>2. d \notin Fans /\ d \notin lost' /\ Listed(OwnSubId(d))' => DelQueued(d)'
  BY <1>1 DEF Listed
<1>3. DelQueued(d)' => ~Informed(d)'
  BY DEF DelQueued, Informed, QueueOf
<1>4. Informed(d)' => d \notin lost'
  BY DEF Informed
<1> QED
  BY <1>2, <1>3, <1>4 DEF Right, GoneIsQueued, RowIfWarranted, RowsOrPromise

(* The entity that _update_entity_cache was called for.                    *)
LEMMA RightUpdated ==
  ASSUME TypeOK, Removable, NEW e \in Entities, UpdateEntityCache(e), UNCHANGED <<info, related>>,
         PassedOver(e) => Right(e)'
  PROVE  Right(e)'
<1>1. (Warranted(e)' <=> Warranted(e)) /\ Additions(e)' = Additions(e) /\ (Unwanted(e)' <=> Unwanted(e))
  BY DEF Warranted, Plugged, Additions, Unwanted
<1>2. CASE ~Warranted(e) /\ rows'[OwnSubId(e)] = 0
  BY <1>1, <1>2, RightIfGone DEF Listed
<1>3. CASE /\ Warranted(e)
           /\ e \notin Fans => rows'[OwnSubId(e)] > 0
           /\ \A s \in Additions(e) : rows'[s] > 0 \/ (e \in Fans /\ Parent[e] \notin resolved' /\ Waits(e, s)')
  <2>1. ~Unwanted(e)
    BY <1>3, KindsApart DEF Warranted, Plugged, Unwanted
  <2>2. GoneIsQueued(e)' /\ RowIfWarranted(e)'
    BY <1>1, <1>3, <2>1 DEF GoneIsQueued, RowIfWarranted, Listed
  <2>3. RowsOrPromise(e)'
    BY <1>1, <1>3 DEF RowsOrPromise, Promised, Listed
  <2> QED
    BY <2>2, <2>3 DEF Right
<1> QED
  BY <1>2, <1>3, UpdateOwn

LEMMA PassedOverIsUnwanted ==
  ASSUME TypeOK, NEW e \in Entities, PassedOver(e) \/ Raises(e)
  PROVE  Unwanted(e) /\ ~Warranted(e)
BY KindsApart DEF TypeOK, PassedOver, Raises, Unwanted, Warranted, Plugged

(* A round that goes on has the same updaters ahead, but for the one whose *)
(* turn was.                                                               *)
LEMMA AdvancesDone ==
  ASSUME TypeOK, NEW fails \in BOOLEAN, pc \in {"reinit", "keys"}, ReinitAdvances(fails)
  PROVE  Ahead \subseteq Ahead' \cup {at} /\ (pc = "keys" => Ahead \subseteq Ahead') /\ todo' = {}
<1>1. at \in 1 .. 5 /\ Len(Updaters) = 5
  BY UpdatersFacts DEF TypeOK
<1>2. CASE at < 5
  BY <1>1, <1>2 DEF ReinitAdvances, Ahead
<1>3. CASE at = 5
  BY <1>1, <1>3 DEF ReinitAdvances, Ahead
<1> QED
  BY <1>1, <1>2, <1>3

(* Steps that leave the table and STATE_DB alone.                          *)
LEMMA StutterRight ==
  ASSUME AgreeInv, UNCHANGED <<info, related, rows, resolved, waiting, queue>>, subscribed \subseteq subscribed',
         pc # "asleep", \A d \in Entities : (Done(d)' => Done(d)) /\ (d \notin lost' => d \notin lost),
         todo' \subseteq todo
  PROVE  AgreeInv'
<1>1. QueuesRight' /\ \A d \in Entities : Remembers(d)
  BY SameQueues DEF AgreeInv
<1>2. ASSUME NEW d \in Entities PROVE Right(d)'
  <2>1. Keeps(d)
    BY KeepsAll
  <2> QED
    BY <1>1, <2>1, RightKept DEF AgreeInv
<1>3. NoRowsTodo'
  BY DEF AgreeInv, NoRowsTodo
<1> QED
  BY <1>1, <1>2, <1>3 DEF AgreeInv

-----------------------------------------------------------------------------
(* Writes to STATE_DB.                                                     *)

LEMMA DbKeepsOthers ==
  ASSUME TypeOK, AgreeInv, NEW e \in Entities, UNCHANGED <<roundVars, tableVars>>, lost \subseteq lost',
         lost' \subseteq lost \cup {e}, QueuesRight', \A d \in Entities : Remembers(d),
         \A d \in Entities : d # e => info'[d] = info[d] /\ (d \in related' <=> d \in related),
         Right(e)'
  PROVE  AgreeInv'
<1>1. UNCHANGED <<pc, at, todo, update_counter, rows, resolved, waiting>>
  BY DEF roundVars, tableVars
<1>2. ASSUME NEW d \in Entities, d # e PROVE Right(d)'
  <2>1. Keeps(d)
    <3>1. \A s \in SubIdsOf(d) : Promised(d, s)' <=> Promised(d, s)
      BY <1>1 DEF Promised, Waits
    <3> QED
      BY <1>1, <3>1 DEF Keeps
  <2>2. Done(d)' <=> Done(d)
    BY <1>1 DEF Done, Ahead
  <2> QED
    BY <1>1, <1>2, <2>1, <2>2, RightKept DEF AgreeInv
<1>3. NoRowsTodo'
  BY <1>1 DEF AgreeInv, NoRowsTodo
<1> QED
  BY <1>2, <1>3 DEF AgreeInv

LEMMA DbSetRight ==
  ASSUME TypeOK, AgreeInv, NEW e \in Entities, NEW i \in InfosOf(e), DbSet(e, i)
  PROVE  AgreeInv'
<1>1. info' = [info EXCEPT ![e] = i] /\ Notify(e, "set") /\ UNCHANGED <<related, roundVars, subscribed, tableVars>>
  BY DEF DbSet
<1>2. info \in [Entities -> {"absent", "unplugged", "plain", "metered"}]
  BY DEF TypeOK
<1>3. info'[e] = i /\ \A d \in Entities : d # e => info'[d] = info[d]
  BY <1>1, <1>2
<1>4. /\ QueuesRight' /\ \A d \in Entities : Remembers(d)
      /\ lost \subseteq lost' /\ lost' \subseteq lost \cup {e}
      /\ e \in lost' \/ Mentioned(e)'
  BY <1>1, <1>3, NotifyQueues DEF AgreeInv
<1>5. UNCHANGED <<pc, at, todo, rows, related>>
  BY <1>1 DEF roundVars, tableVars
<1>6. Right(e)'
  <2>1. ~Informed(e)'
    BY <1>4 DEF Informed, Mentioned, QueueOf
  <2>2. Unwanted(e)' => Unwanted(e)
    <3>1. i # "absent"
      BY DEF InfosOf
    <3>2. e \in Xcvrs /\ i = "unplugged" => info[e] \in {"absent", "unplugged"}
      BY DEF DbSet
    <3> QED
      BY <1>3, <1>5, <3>1, <3>2 DEF Unwanted
  <2>3. Done(e)' => GoneIsQueued(e)'
    <3>1. Done(e)' => Done(e)
      BY <1>5 DEF Done, Ahead
    <3>2. Done(e) => GoneIsQueued(e)
      BY DEF AgreeInv, Right
    <3>3. Listed(OwnSubId(e))' <=> Listed(OwnSubId(e))
      BY <1>5 DEF Listed
    <3> QED
      BY <1>4, <2>2, <3>1, <3>2, <3>3 DEF GoneIsQueued, Remembers
  <2> QED
    BY <2>1, <2>3 DEF Right, RowIfWarranted, RowsOrPromise
<1> QED
  BY <1>1, <1>3, <1>4, <1>5, <1>6, DbKeepsOthers

LEMMA DbDelRight ==
  ASSUME TypeOK, AgreeInv, NEW e \in Entities, DbDel(e)
  PROVE  AgreeInv'
<1>1. info' = [info EXCEPT ![e] = "absent"] /\ Notify(e, "del") /\ UNCHANGED <<related, roundVars, subscribed, tableVars>>
  BY DEF DbDel
<1>2. info \in [Entities -> {"absent", "unplugged", "plain", "metered"}]
  BY DEF TypeOK
<1>3. info'[e] = "absent" /\ \A d \in Entities : d # e => info'[d] = info[d]
  BY <1>1, <1>2
<1>4. /\ QueuesRight' /\ \A d \in Entities : Remembers(d)
      /\ lost \subseteq lost' /\ lost' \subseteq lost \cup {e}
      /\ e \in lost' \/ (Mentioned(e)' /\ DelQueued(e)')
  <2>1. DelQueued(e)' => Mentioned(e)'
    BY DEF DelQueued, Mentioned
  <2>2. QueuesRight /\ "del" \in {"set", "del"} /\ UNCHANGED subscribed
    BY <1>1 DEF AgreeInv
  <2>3. /\ QueuesRight' /\ \A d \in Entities : Remembers(d)
        /\ lost \subseteq lost' /\ lost' \subseteq lost \cup {e}
        /\ e \in lost' \/ DelQueued(e)'
    BY <1>1, <1>3, <2>2, NotifyQueues
  <2> QED
    BY <2>1, <2>3
<1>5. Right(e)'
  <2>1. ~Informed(e)'
    BY <1>4 DEF Informed, Mentioned, QueueOf
  <2>2. GoneIsQueued(e)'
    BY <1>4 DEF GoneIsQueued
  <2> QED
    BY <2>1, <2>2 DEF Right, RowIfWarranted, RowsOrPromise
<1> QED
  BY <1>1, <1>3, <1>4, <1>5, DbKeepsOthers

LEMMA DbRelateRight ==
  ASSUME TypeOK, AgreeInv, NEW e \in Entities \ Xcvrs, DbRelate(e)
  PROVE  AgreeInv'
<1>1. lost' = lost \cup {e} /\ UNCHANGED <<info, roundVars, queue, subscribed, tableVars>>
  BY DEF DbRelate, subVars
<1>2. QueuesRight' /\ \A d \in Entities : Remembers(d)
  BY <1>1, SameQueues DEF AgreeInv
<1>3. \A d \in Entities : d # e => info'[d] = info[d] /\ (d \in related' <=> d \in related)
  BY <1>1 DEF DbRelate
<1>4. Right(e)'
  BY <1>1, RightIfLost
<1> QED
  BY <1>1, <1>2, <1>3, <1>4, DbKeepsOthers

LEMMA DbMeterRight ==
  ASSUME TypeOK, AgreeInv, NEW e \in Xcvrs, DbMeter(e)
  PROVE  AgreeInv'
<1>1. lost' = lost \cup {e} /\ e \in Entities /\ UNCHANGED <<related, roundVars, queue, subscribed, tableVars>>
  BY DEF DbMeter, subVars, Entities
<1>2. info \in [Entities -> {"absent", "unplugged", "plain", "metered"}]
  BY DEF TypeOK
<1>3. \A d \in Entities : d # e => info'[d] = info[d]
  BY <1>1, <1>2 DEF DbMeter
<1>4. info[e] # "absent"
  BY DEF DbMeter, Plugged
<1>5. QueuesRight' /\ \A d \in Entities : Remembers(d)
  BY <1>1, <1>3, <1>4, SameQueues DEF AgreeInv
<1>6. Right(e)'
  BY <1>1, RightIfLost
<1> QED
  BY <1>1, <1>3, <1>5, <1>6, DbKeepsOthers

-----------------------------------------------------------------------------
(* The start of a round.                                                   *)

LEMMA RoundStartsRight ==
  ASSUME TypeInv, AgreeInv, RoundStarts
  PROVE  AgreeInv'
<1>0. TypeOK /\ todo = {} /\ todo' = {} /\ pc = "asleep" /\ UNCHANGED <<info, related, subscribed, queue, lost>>
  BY DEF TypeInv, NoKeysLeft, RoundStarts, dbVars, subVars
<1>1. QueuesRight' /\ \A d \in Entities : Remembers(d)
  BY <1>0, SameQueues DEF AgreeInv
<1>2. NoRowsTodo'
  BY <1>0 DEF NoRowsTodo
<1>3. CASE update_counter > ReinitRate
  <2>1. pc' = "reinit" /\ at' = 1
    BY <1>3 DEF RoundStarts
  <2>2. \A d \in Entities : ~Done(d)'
    BY <2>1, UpdaterOfFacts DEF Done, Ahead
  <2> QED
    BY <1>1, <1>2, <2>2 DEF AgreeInv, Right
<1>4. CASE ~(update_counter > ReinitRate)
  <2>1. pc' = "update" /\ UNCHANGED <<rows, resolved, waiting>>
    BY <1>4 DEF RoundStarts
  <2>2. ASSUME NEW d \in Entities PROVE Right(d)'
    <3>1. \A s \in SubIdsOf(d) : Promised(d, s) => Promised(d, s)'
      BY <1>4, <2>1 DEF Promised, Waits
    <3>2. Keeps(d)
      BY <2>1, <3>1 DEF Keeps
    <3>3. Done(d)
      BY <1>0 DEF Done, Ahead
    <3> QED
      BY <1>0, <1>1, <2>1, <3>2, <3>3, RightKept DEF AgreeInv
  <2> QED
    BY <1>1, <1>2, <2>2 DEF AgreeInv
<1> QED
  BY <1>3, <1>4

LEMMA RoundStartsFailsRight ==
  ASSUME TypeInv, AgreeInv, RoundStartsFails
  PROVE  AgreeInv'
<1>0. /\ TypeOK /\ todo = {} /\ pc = "asleep" /\ update_counter > ReinitRate /\ resolved' = {}
      /\ UNCHANGED <<info, related, subscribed, queue, lost, pc, at, todo, update_counter, rows>>
  BY DEF TypeInv, NoKeysLeft, RoundStartsFails, dbVars, roundVars, subVars
<1>1. QueuesRight' /\ \A d \in Entities : Remembers(d)
  BY <1>0, SameQueues DEF AgreeInv
<1>2. NoRowsTodo'
  BY <1>0 DEF NoRowsTodo
<1>3. ASSUME NEW d \in Entities PROVE Right(d)'
  <2>1. \A s \in SubIdsOf(d) : Promised(d, s) => Promised(d, s)'
    BY <1>0 DEF Promised
  <2>2. Keeps(d)
    BY <1>0, <2>1 DEF Keeps
  <2>3. Done(d)
    BY <1>0 DEF Done, Ahead
  <2> QED
    BY <1>0, <1>1, <2>2, <2>3, RightKept DEF AgreeInv
<1> QED
  BY <1>1, <1>2, <1>3 DEF AgreeInv

-----------------------------------------------------------------------------
(* A reinit.                                                               *)

LEMMA ReinitUpdaterRight ==
  ASSUME TypeInv, CacheInv, AgreeInv, ReinitUpdater
  PROVE  AgreeInv'
<1>0. /\ TypeOK /\ todo = {} /\ pc = "reinit" /\ pc' = "keys" /\ at \in 1 .. 5 /\ at \in Ahead
      /\ todo' = {e \in Updaters[at] : info[e] # "absent"} /\ lost' = lost \ Updaters[at]
      /\ subscribed' = subscribed \ {at} /\ queue' = [queue EXCEPT ![at] = <<>>]
      /\ UNCHANGED <<info, related, at, rows, resolved, waiting>>
  <2>1. TypeOK /\ NoKeysLeft /\ at \in 1 .. 5
    BY UpdatersFacts DEF TypeInv, TypeOK
  <2>2. pc = "reinit"
    BY DEF ReinitUpdater
  <2>3. todo = {} /\ at \in Ahead
    BY <2>1, <2>2 DEF NoKeysLeft, Ahead
  <2> QED
    BY <2>1, <2>2, <2>3, Zenon DEF ReinitUpdater, dbVars
<1>1. QueuesRight' /\ \A d \in Entities : UpdaterOf(d) # at => Remembers(d)
  BY <1>0, DroppedQueues DEF AgreeInv
<1>2. ASSUME NEW d \in Updaters[at] PROVE d \in Entities /\ rows[OwnSubId(d)] = 0
  <2>1. d \in Entities
    BY <1>0, UpdatersFacts
  <2>2. OwnSubId(d) \in SubIds /\ EntityOf(OwnSubId(d)) \in Updaters[at]
    BY <1>2, <2>1, SubIdsFacts
  <2> QED
    BY <1>0, <2>1, <2>2 DEF CacheInv, NoRowsAhead
<1>3. NoRowsTodo'
  BY <1>0, <1>2 DEF NoRowsTodo
<1>4. ASSUME NEW d \in Entities, UpdaterOf(d) = at PROVE Right(d)'
  <2>1. d \in Updaters[at]
    BY <1>4, UpdaterOfFacts
  <2>2. CASE info[d] = "absent"
    <3>1. ~Warranted(d)' /\ ~Listed(OwnSubId(d))'
      BY <1>0, <1>2, <2>1, <2>2 DEF Warranted, Plugged, Listed
    <3> QED
      BY <3>1, RightIfGone
  <2>3. CASE info[d] # "absent"
    <3>1. d \in todo'
      BY <1>0, <2>1, <2>3
    <3> QED
      BY <3>1 DEF Right, Done
  <2> QED
    BY <2>2, <2>3
<1>5. ASSUME NEW d \in Entities, UpdaterOf(d) # at PROVE Right(d)'
  <2>1. d \notin Updaters[at]
    BY <1>0, <1>5, UpdaterOfFacts
  <2>2. Done(d)' => Done(d)
    BY <1>0, <1>5, UpdaterOfFacts DEF Done, Ahead
  <2>3. Keeps(d)
    BY <1>0, KeepsAll
  <2> QED
    BY <1>0, <1>1, <1>5, <2>1, <2>2, <2>3, RightKept DEF AgreeInv
<1> QED
  BY <1>1, <1>3, <1>4, <1>5 DEF AgreeInv

LEMMA ReinitUpdaterFailsRight ==
  ASSUME TypeInv, AgreeInv, ReinitUpdaterFails
  PROVE  AgreeInv'
<1>0. /\ TypeOK /\ todo = {} /\ pc = "reinit" /\ at \in 1 .. 5 /\ lost' = lost \cup Updaters[at]
      /\ UNCHANGED <<info, related, subscribed, rows, resolved, waiting>> /\ ReinitAdvances(TRUE)
      /\ queue' = queue \/ queue' = [queue EXCEPT ![at] = <<>>]
  <2>1. TypeOK /\ NoKeysLeft /\ at \in 1 .. 5
    BY UpdatersFacts DEF TypeInv, TypeOK
  <2>2. pc = "reinit" /\ todo = {}
    BY <2>1 DEF ReinitUpdaterFails, NoKeysLeft
  <2> QED
    BY <2>1, <2>2, Zenon DEF ReinitUpdaterFails, dbVars, tableVars
<1>1. QueuesRight' /\ \A d \in Entities : UpdaterOf(d) # at => Remembers(d)
  BY <1>0, DroppedQueues DEF AgreeInv
<1>2. Ahead \subseteq Ahead' \cup {at} /\ todo' = {}
  BY <1>0, AdvancesDone
<1>3. NoRowsTodo'
  BY <1>2 DEF NoRowsTodo
<1>4. ASSUME NEW d \in Entities, UpdaterOf(d) = at PROVE Right(d)'
  BY <1>0, <1>4, UpdaterOfFacts, RightIfLost
<1>5. ASSUME NEW d \in Entities, UpdaterOf(d) # at PROVE Right(d)'
  <2>1. Done(d)' => Done(d)
    BY <1>0, <1>2, <1>5 DEF Done
  <2>2. Keeps(d)
    BY <1>0, KeepsAll
  <2>3. d \notin lost' => d \notin lost
    BY <1>0
  <2> QED
    BY <1>0, <1>1, <1>5, <2>1, <2>2, <2>3, RightKept DEF AgreeInv
<1> QED
  BY <1>1, <1>3, <1>4, <1>5 DEF AgreeInv

LEMMA ReinitUpdaterEndsRight ==
  ASSUME TypeInv, AgreeInv, ReinitUpdaterEnds
  PROVE  AgreeInv'
<1>0. /\ TypeOK /\ todo = {} /\ pc = "keys" /\ ReinitAdvances(FALSE)
      /\ UNCHANGED <<info, related, subscribed, queue, lost, rows, resolved, waiting>>
  BY DEF TypeInv, ReinitUpdaterEnds, dbVars, subVars, tableVars
<1>1. Ahead \subseteq Ahead' /\ todo' = {}
  BY <1>0, AdvancesDone
<1>2. \A d \in Entities : Done(d)' => Done(d)
  BY <1>0, <1>1 DEF Done
<1> QED
  BY <1>0, <1>1, <1>2, StutterRight

(* The entities that an operation of the cache is not for.                 *)
LEMMA CachesRight ==
  ASSUME TypeOK, AgreeInv, pc # "asleep", NEW e \in Entities, Caches(e), UNCHANGED <<info, related>>,
         NEW d \in Entities, d # e, Done(d)' => Done(d), d \notin lost' => d \notin lost, Remembers(d)
  PROVE  Right(d)'
<1>1. (d \notin Fans => rows'[OwnSubId(d)] = rows[OwnSubId(d)]) /\ Keeps(d)
  BY CachesOthers
<1> QED
  BY <1>1, RightKept DEF AgreeInv

LEMMA ReinitKeyRight ==
  ASSUME TypeInv, CacheInv, AgreeInv, NEW e \in Entities, ReinitKey(e)
  PROVE  AgreeInv'
<1>0. /\ TypeOK /\ Removable /\ pc = "keys" /\ e \in todo /\ UpdateEntityCache(e) /\ todo' = todo \ {e} /\ lost' = lost \ {e}
      /\ UNCHANGED <<info, related, pc, at, subscribed, queue>>
  BY DEF TypeInv, CacheInv, ReinitKey, dbVars, subVars
<1>1. QueuesRight' /\ \A d \in Entities : Remembers(d)
  BY <1>0, SameQueues DEF AgreeInv
<1>2. Caches(e)
  BY <1>0 DEF Caches
<1>3. ASSUME NEW d \in Entities, d # e PROVE Right(d)'
  <2>1. Done(d)' => Done(d)
    BY <1>0, <1>3 DEF Done, Ahead
  <2> QED
    BY <1>0, <1>1, <1>2, <1>3, <2>1, CachesRight
<1>4. Right(e)'
  <2>1. ASSUME PassedOver(e) PROVE Right(e)'
    <3>1. UNCHANGED rows \/ ~PassedOver(e)
      <4>1. CASE info[e] = "unplugged" /\ e \notin Xcvrs
        BY <4>1 DEF PassedOver
      <4>2. CASE Warranted(e)
        BY <4>2 DEF PassedOver
      <4>3. CASE UNCHANGED tableVars
        BY <4>3 DEF tableVars
      <4> QED
        BY <1>0, <4>1, <4>2, <4>3 DEF UpdateEntityCache
    <3>2. e \in Fans \/ rows[OwnSubId(e)] = 0
      BY <1>0 DEF AgreeInv, NoRowsTodo
    <3>3. ~Warranted(e)' /\ (e \in Fans \/ ~Listed(OwnSubId(e))')
      BY <1>0, <2>1, <3>1, <3>2 DEF PassedOver, Warranted, Plugged, Listed
    <3> QED
      BY <3>3, RightIfGone
  <2> QED
    BY <1>0, <2>1, RightUpdated
<1>5. NoRowsTodo'
  <2>1. todo \subseteq Entities
    BY <1>0, UpdatersFacts DEF TypeOK
  <2>2. ASSUME NEW d \in todo' \ Fans PROVE rows'[OwnSubId(d)] = 0
    <3>1. d \in Entities /\ d # e /\ d \in todo
      BY <1>0, <2>1, <2>2
    <3>2. rows'[OwnSubId(d)] = rows[OwnSubId(d)]
      BY <1>0, <1>2, <2>2, <3>1, CachesOthers
    <3> QED
      BY <2>2, <3>1, <3>2 DEF AgreeInv, NoRowsTodo
  <2> QED
    BY <2>2 DEF NoRowsTodo
<1> QED
  BY <1>1, <1>3, <1>4, <1>5 DEF AgreeInv

LEMMA ReinitKeyFailsRight ==
  ASSUME TypeInv, AgreeInv, NEW e \in Entities, ReinitKeyFails(e)
  PROVE  AgreeInv'
<1>0. /\ TypeOK /\ pc = "keys" /\ e \in todo /\ ReinitAdvances(TRUE)
      /\ UNCHANGED <<info, related, subscribed, queue>>
  BY DEF TypeInv, ReinitKeyFails, dbVars, subVars
<1>1. QueuesRight' /\ \A d \in Entities : Remembers(d)
  BY <1>0, SameQueues DEF AgreeInv
<1>2. Ahead \subseteq Ahead' /\ todo' = {}
  BY <1>0, AdvancesDone
<1>3. NoRowsTodo'
  BY <1>2 DEF NoRowsTodo
<1>4. \/ Raises(e) /\ lost' = lost \cup (todo \ {e}) /\ UNCHANGED tableVars
      \/ lost' = lost \cup todo /\ (UNCHANGED tableVars \/ AddTransceiverOnly(e))
  BY Zenon DEF ReinitKeyFails
<1>5. Caches(e) /\ lost \subseteq lost' /\ lost' \subseteq lost \cup todo /\ todo \ {e} \subseteq lost'
  BY <1>4 DEF Caches
<1>6. ASSUME NEW d \in Entities, d # e PROVE Right(d)'
  <2>1. CASE d \in todo
    BY <1>5, <1>6, <2>1, RightIfLost
  <2>2. CASE d \notin todo
    <3>1. Done(d)' => Done(d)
      BY <1>2, <2>2 DEF Done
    <3>2. d \notin lost' => d \notin lost
      BY <1>5
    <3> QED
      BY <1>0, <1>1, <1>5, <1>6, <3>1, <3>2, CachesRight
  <2> QED
    BY <2>1, <2>2
<1>7. Right(e)'
  <2>1. CASE Raises(e) /\ UNCHANGED tableVars
    <3>1. UNCHANGED rows
      BY <2>1 DEF tableVars
    <3>2. ~Warranted(e) /\ (e \in Fans \/ rows[OwnSubId(e)] = 0)
      BY <1>0, <2>1, PassedOverIsUnwanted DEF AgreeInv, NoRowsTodo
    <3>3. ~Warranted(e)' /\ (e \in Fans \/ ~Listed(OwnSubId(e))')
      BY <1>0, <3>1, <3>2 DEF Warranted, Plugged, Listed
    <3> QED
      BY <3>3, RightIfGone
  <2>2. CASE lost' = lost \cup todo
    BY <1>0, <2>2, RightIfLost
  <2> QED
    BY <1>4, <2>1, <2>2
<1> QED
  BY <1>1, <1>3, <1>6, <1>7 DEF AgreeInv

-----------------------------------------------------------------------------
(* The notifications of a round.                                           *)

LEMMA UpdateIsDone ==
  ASSUME TypeInv, pc = "update"
  PROVE  todo = {} /\ \A d \in Entities : Done(d)
BY DEF TypeInv, NoKeysLeft, Done, Ahead

LEMMA HandleMessageRight ==
  ASSUME TypeInv, CacheInv, AgreeInv, HandleMessage
  PROVE  AgreeInv'
<1>0. /\ TypeOK /\ Removable /\ pc = "update" /\ queue[at] # <<>> /\ queue' = [queue EXCEPT ![at] = Tail(@)]
      /\ UNCHANGED <<info, related, pc, at, todo, subscribed>>
  BY DEF TypeInv, CacheInv, HandleMessage, dbVars, roundVars
<1>1. PICK e, event : e = Head(queue[at]).name /\ event = Head(queue[at]).event
  OBVIOUS
<1>2. e \in Entities
  BY <1>0, <1>1, HeadTypes
<1>3. /\ QueuesRight'
      /\ \A d \in Entities : d # e => Remembers(d)
      /\ event = "set" => (DelQueued(e) => DelQueued(e)')
      /\ event = "del" => info[e] = "absent" \/ Mentioned(e)'
  BY <1>0, <1>1, TailQueues DEF AgreeInv
<1>4. \/ event = "set" /\ UpdateEntityCache(e) /\ lost' = IF PassedOver(e) THEN lost ELSE lost \ {e}
      \/ event = "del" /\ RemoveEntityCache(e) /\ lost' = lost \ {e}
  BY <1>1 DEF HandleMessage
<1>5. Caches(e) /\ \A d \in Entities : d # e /\ d \notin lost' => d \notin lost
  BY <1>4 DEF Caches
<1>6. todo = {} /\ \A d \in Entities : Done(d)
  BY <1>0, UpdateIsDone
<1>7. ASSUME NEW d \in Entities, d # e PROVE Right(d)'
  BY <1>0, <1>2, <1>3, <1>5, <1>6, <1>7, CachesRight
<1>8. Right(e)'
  <2>1. CASE event = "set" /\ UpdateEntityCache(e) /\ lost' = IF PassedOver(e) THEN lost ELSE lost \ {e}
    <3>1. ASSUME PassedOver(e) PROVE Right(e)'
      <4>1. UNCHANGED rows
        <5>1. ~Warranted(e) /\ (info[e] = "unplugged" => e \in Xcvrs)
          BY <3>1 DEF PassedOver
        <5> QED
          BY <2>1, <5>1 DEF UpdateEntityCache, tableVars
      <4>2. Unwanted(e) /\ ~Warranted(e)
        BY <1>0, <1>2, <3>1, PassedOverIsUnwanted
      <4>3. ~Warranted(e)'
        BY <1>0, <4>2 DEF Warranted, Plugged
      <4>4. Right(e) /\ Done(e)
        BY <1>2, <1>6 DEF AgreeInv
      <4> QED
        BY <1>2, <1>3, <2>1, <3>1, <4>1, <4>2, <4>3, <4>4, RightIfPassedOver
    <3> QED
      BY <1>0, <1>2, <2>1, <3>1, RightUpdated
  <2>2. CASE event = "del" /\ RemoveEntityCache(e)
    <3>1. ~Listed(OwnSubId(e))'
      <4>1. rows'[OwnSubId(e)] = 0
        BY <1>0, <1>2, <2>2, SubIdsFacts, RemoveOwn
      <4> QED
        BY <4>1 DEF Listed
    <3>2. CASE info[e] = "absent"
      <4>1. ~Warranted(e)'
        BY <1>0, <3>2 DEF Warranted, Plugged
      <4> QED
        BY <1>2, <3>1, <4>1, RightIfGone
    <3>3. CASE Mentioned(e)'
      <4>1. ~Informed(e)'
        BY <3>3 DEF Mentioned, Informed, QueueOf
      <4> QED
        BY <3>1, <4>1 DEF Right, GoneIsQueued, RowIfWarranted, RowsOrPromise
    <3> QED
      BY <1>3, <2>2, <3>2, <3>3
  <2> QED
    BY <1>4, <2>1, <2>2
<1>9. NoRowsTodo'
  BY <1>0, <1>6 DEF NoRowsTodo
<1> QED
  BY <1>3, <1>7, <1>8, <1>9 DEF AgreeInv

LEMMA HandleMessageFailsRight ==
  ASSUME TypeInv, AgreeInv, HandleMessageFails
  PROVE  AgreeInv'
<1>0. /\ TypeOK /\ pc = "update" /\ queue[at] # <<>> /\ queue' = [queue EXCEPT ![at] = Tail(@)]
      /\ UNCHANGED <<info, related, at, todo, subscribed>>
  BY DEF TypeInv, HandleMessageFails, dbVars
<1>1. PICK e, event : e = Head(queue[at]).name /\ event = Head(queue[at]).event
  OBVIOUS
<1>2. e \in Entities
  BY <1>0, <1>1, HeadTypes
<1>3. /\ QueuesRight'
      /\ \A d \in Entities : d # e => Remembers(d)
      /\ event = "set" => (DelQueued(e) => DelQueued(e)')
  BY <1>0, <1>1, TailQueues DEF AgreeInv
<1>4. /\ event = "set"
      /\ \/ Raises(e) /\ lost' = lost /\ UNCHANGED tableVars
         \/ lost' = lost \cup {e} /\ (UNCHANGED tableVars \/ AddTransceiverOnly(e))
  BY <1>1 DEF HandleMessageFails
<1>5. Caches(e) /\ lost \subseteq lost'
  BY <1>4 DEF Caches
<1>6. todo = {} /\ \A d \in Entities : Done(d)
  BY <1>0, UpdateIsDone
<1>7. ASSUME NEW d \in Entities, d # e PROVE Right(d)'
  BY <1>0, <1>2, <1>3, <1>5, <1>6, <1>7, CachesRight
<1>8. Right(e)'
  <2>1. CASE Raises(e) /\ lost' = lost /\ UNCHANGED tableVars
    <3>1. UNCHANGED rows
      BY <2>1 DEF tableVars
    <3>2. Unwanted(e) /\ ~Warranted(e)
      BY <1>0, <1>2, <2>1, PassedOverIsUnwanted
    <3>3. ~Warranted(e)'
      BY <1>0, <3>2 DEF Warranted, Plugged
    <3>4. Right(e) /\ Done(e)
      BY <1>2, <1>6 DEF AgreeInv
    <3> QED
      BY <1>2, <1>3, <1>4, <2>1, <3>1, <3>2, <3>3, <3>4, RightIfPassedOver
  <2>2. CASE lost' = lost \cup {e}
    BY <1>2, <2>2, RightIfLost
  <2> QED
    BY <1>4, <2>1, <2>2
<1>9. NoRowsTodo'
  BY <1>0, <1>6 DEF NoRowsTodo
<1> QED
  BY <1>3, <1>7, <1>8, <1>9 DEF AgreeInv

-----------------------------------------------------------------------------
LEMMA AgreeInit == Init => AgreeInv
<1> SUFFICES ASSUME Init PROVE AgreeInv
  OBVIOUS
<1>1. lost = Entities /\ todo = {} /\ queue = [u \in DOMAIN Updaters |-> <<>>]
  BY DEF Init
<1>2. QueuesRight
  BY <1>1, UpdatersFacts DEF QueuesRight, QueueRight
<1>3. \A e \in Entities : Right(e)
  BY <1>1 DEF Right, GoneIsQueued, RowIfWarranted, RowsOrPromise, Informed
<1> QED
  BY <1>1, <1>2, <1>3 DEF AgreeInv, NoRowsTodo

LEMMA AgreeStep == TypeInv /\ CacheInv /\ AgreeInv /\ [Next]_vars => AgreeInv'
<1> SUFFICES ASSUME TypeInv, CacheInv, AgreeInv, [Next]_vars PROVE AgreeInv'
  OBVIOUS
<1>0. TypeOK
  BY DEF TypeInv
<1>1. ASSUME NEW e \in Entities, (\E i \in InfosOf(e) : DbSet(e, i)) \/ DbDel(e) PROVE AgreeInv'
  BY <1>0, <1>1, DbSetRight, DbDelRight
<1>2. (\E e \in Entities \ Xcvrs : DbRelate(e)) \/ (\E e \in Xcvrs : DbMeter(e)) => AgreeInv'
  BY <1>0, DbRelateRight, DbMeterRight
<1>3. RoundStarts \/ RoundStartsFails => AgreeInv'
  BY RoundStartsRight, RoundStartsFailsRight
<1>4. ReinitUpdater \/ ReinitUpdaterFails \/ ReinitUpdaterEnds => AgreeInv'
  BY ReinitUpdaterRight, ReinitUpdaterFailsRight, ReinitUpdaterEndsRight
<1>5. ASSUME NEW e \in Entities, ReinitKey(e) \/ ReinitKeyFails(e) PROVE AgreeInv'
  BY <1>5, ReinitKeyRight, ReinitKeyFailsRight
<1>6. HandleMessage \/ HandleMessageFails => AgreeInv'
  BY HandleMessageRight, HandleMessageFailsRight
<1>7. CASE Subscribe \/ UpdateFails \/ UpdaterEnds
  <2>1. /\ pc = "update" /\ todo' = todo /\ subscribed \subseteq subscribed'
        /\ UNCHANGED <<info, related, rows, resolved, waiting, queue, lost>>
    BY <1>7 DEF Subscribe, UpdateFails, UpdaterEnds, dbVars, roundVars, subVars, tableVars
  <2>2. \A d \in Entities : Done(d)
    BY <2>1, UpdateIsDone
  <2> QED
    BY <2>1, <2>2, StutterRight
<1>8. CASE UNCHANGED vars
  <2>1. UNCHANGED <<info, related, rows, resolved, waiting, queue, lost, subscribed, pc, at, todo, update_counter>>
    BY <1>8 DEF vars, dbVars, roundVars, subVars, tableVars
  <2>2. QueuesRight' /\ NoRowsTodo'
    BY <2>1, SameQueues DEF AgreeInv, NoRowsTodo
  <2>3. ASSUME NEW e \in Entities PROVE Right(e)'
    <3>1. \A s \in SubIdsOf(e) : Promised(e, s) => Promised(e, s)'
      BY <2>1 DEF Promised, Waits
    <3>2. Keeps(e) /\ Remembers(e) /\ (Done(e)' => Done(e))
      BY <2>1, <3>1 DEF Keeps, Remembers, DelQueued, Mentioned, QueueOf, Done, Ahead
    <3> QED
      BY <2>1, <3>2, RightKept DEF AgreeInv
  <2> QED
    BY <2>2, <2>3 DEF AgreeInv
<1> QED
  BY <1>1, <1>2, <1>3, <1>4, <1>5, <1>6, <1>7, <1>8, Zenon DEF Next, Round

(* Between rounds, whatever was written when and whatever raised, an entity *)
(* about which its updater has been told everything has a row just if      *)
(* STATE_DB asks for one (of fans: at least if it does and the parent has  *)
(* one), and the rows of all the sensors that it has readings of.          *)
THEOREM AgreementHolds == Spec => []Agreement
<1>1. TypeInv /\ AgreeInv => Agreement
  <2> SUFFICES ASSUME TypeInv, AgreeInv, pc = "asleep", NEW e \in Entities, Informed(e)
               PROVE  /\ e \notin Fans => (Listed(OwnSubId(e)) <=> Warranted(e))
                      /\ Warranted(e) /\ (e \in Fans => Parent[e] \in resolved) =>
                           \A s \in Additions(e) : Listed(s)
    BY Zenon DEF Agreement
  <2>1. Done(e)
    BY DEF TypeInv, NoKeysLeft, Done, Ahead
  <2>2. RowIfWarranted(e) /\ RowsOrPromise(e)
    BY <2>1 DEF AgreeInv, Right
  <2> QED
    BY <2>2 DEF RowIfWarranted, RowsOrPromise, Promised
<1> QED
  BY <1>1, TypeInvHolds, CacheInvHolds, AgreeInit, AgreeStep, PTL DEF Spec

=============================================================================
