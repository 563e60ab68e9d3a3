-------------------------------- MODULE Lldp --------------------------------
(***************************************************************************)
(* The updaters of the LLDP tables: LocPortUpdater, LLDPRemTableUpdater    *)
(* and LLDPRemManAddrUpdater, with the tables of Redis that they copy and  *)
(* the keyspace notifications that two of them read.                       *)
(*                                                                         *)
(* The updaters are coroutines of one event loop, and a round has no await *)
(* in it: one updater at a time is in a round.  Redis is other processes:  *)
(* its tables change between any two accesses of a round.                  *)
(*                                                                         *)
(* An interface is its index.  A list that is sorted before bisect_right   *)
(* searches it, on every path, is the set of its elements (a copy that is  *)
(* in it twice is found once); rem_range, which an exception leaves        *)
(* unsorted, is a sequence.                                                *)
(***************************************************************************)
EXTENDS Integers, Sequences, SequencesExt, SortedLists

CONSTANTS
  Ports,         \* the interfaces, as the indexes get_index_from_str gives them
  Neighbours,    \* what LLDP_ENTRY_TABLE may hold for an interface
  Descriptions,  \* what PORT_TABLE may hold for an interface
  None,          \* Python's None, a key that Redis does not have
  Processes,     \* bound: the sets of updaters that are looked at together
  MaxChanges,    \* bound: changes of the tables
  MaxFaults      \* bound: exceptions

Unindexed == 0   \* the channel of an interface whose name has no index

Updaters == {"loc_port", "rem_table", "rem_man_addr"}
Subscribers == {"loc_port", "rem_man_addr"}

Message == [port : Ports \cup {Unindexed}, event : {"set", "del"}]

\* A neighbour without a time mark has it None; caps says whether its entry has
\* the two capability keys.
ASSUME LldpAssumption ==
  /\ Ports \subseteq Nat \ {Unindexed}
  /\ \A n \in Neighbours : {"mark", "addrs", "caps"} \subseteq DOMAIN n /\ n.caps \in BOOLEAN
  /\ None \notin Neighbours /\ None \notin Descriptions /\ None \notin Seq(Message)
  /\ None \notin Updaters
  /\ Processes \subseteq SUBSET Updaters
  /\ MaxChanges \in Nat /\ MaxFaults \in Nat


VARIABLES
  running,        \* the updaters of this behaviour; it does not change
  entry,          \* LLDP_ENTRY_TABLE
  port_table,     \* PORT_TABLE, and with it the port name map in COUNTERS_DB
  pubsub,         \* the messages waiting on each subscription, None before it is made
  turn,           \* the updater in its round, None between rounds
  step,           \* where in its round
  todo,           \* the interfaces that the current loop has not come to
  batch,          \* LLDPRemManAddrUpdater: the messages taken and not yet handled
  oid_name_map,   \* the interfaces that each updater knows of since its reinit
  loc_port_data,  \* LocPortUpdater: the description of an interface
  rem_range,      \* LLDPRemTableUpdater.if_range
  lldp_counters,  \* LLDPRemTableUpdater: the neighbour of an interface
  man_range,      \* LLDPRemManAddrUpdater.if_range: <<time mark, interface, address>>
  finished,       \* the updaters whose last round raised nothing
  lost,           \* history: changes of an interface that no notification will tell
  struck,         \* history: the interfaces whose "del" came since man_range was cleared
  changes,
  faults

redisVars == <<running, entry, port_table, changes>>
locVars   == <<loc_port_data>>
remVars   == <<rem_range, lldp_counters>>
manVars   == <<man_range, batch, struck, lost>>
roundVars == <<turn, step, todo>>
vars == <<redisVars, locVars, remVars, manVars, roundVars, pubsub, oid_name_map, finished, faults>>

\* The rows of interface p that update_rem_if_mgmt makes of its entry: none when
\* a key is missing (KeyError, before the first row) or there is no address.
RowsOf(p, n) == IF n = None \/ n.mark = None THEN {} ELSE {<<n.mark, p, a>> : a \in n.addrs}
Rows == UNION {RowsOf(p, n) : p \in Ports, n \in Neighbours}

TypeOK ==
  /\ running \in Processes
  /\ entry \in [Ports -> Neighbours \cup {None}]
  /\ port_table \in [Ports -> Descriptions \cup {None}]
  /\ \A u \in Subscribers : pubsub[u] = None \/ pubsub[u] \in Seq(Message)
  /\ turn \in Updaters \cup {None}
  /\ step \in {"asleep", "clear", "reinit", "update", "loop"}
  /\ todo \subseteq Ports
  /\ batch \in Seq(Message)
  /\ oid_name_map \in [Updaters -> SUBSET Ports]
  /\ loc_port_data \in [Ports -> Descriptions \cup {None}]
  /\ rem_range \in Seq(Ports)
  /\ lldp_counters \in [Ports -> Neighbours \cup {None}]
  /\ man_range \subseteq Rows
  /\ finished \subseteq Updaters
  /\ lost \subseteq Ports /\ struck \subseteq Ports
  /\ changes \in 0 .. MaxChanges /\ faults \in 0 .. MaxFaults

Empty == [p \in Ports |-> None]

Init ==
  /\ running \in Processes
  /\ entry = Empty
  /\ port_table \in [Ports -> Descriptions]
  /\ pubsub = [u \in Subscribers |-> None]
  /\ turn = None /\ step = "asleep" /\ todo = {} /\ batch = <<>>
  /\ oid_name_map = [u \in Updaters |-> {}]
  /\ loc_port_data = Empty
  /\ rem_range = <<>> /\ lldp_counters = Empty
  /\ man_range = {}
  /\ finished = {}
  /\ lost = Ports /\ struck = {}
  /\ changes = 0 /\ faults = 0

-----------------------------------------------------------------------------
(* Redis: lldp_syncd writes and deletes entries, orchagent adds and removes *)
(* ports.  A change of LLDP_ENTRY_TABLE is published on the channel of its  *)
(* key, to whoever has subscribed.                                         *)

Count == changes < MaxChanges /\ changes' = changes + 1

Publish(p, event) ==
  pubsub' = [u \in Subscribers |->
               IF pubsub[u] = None THEN None
               ELSE Append(pubsub[u], [port |-> p, event |-> event])]

updaterVars == <<running, locVars, remVars, man_range, batch, struck, roundVars, oid_name_map, finished, faults>>

EntryChanges(p, n) ==
  /\ Count
  /\ entry[p] # n
  /\ entry' = [entry EXCEPT ![p] = n]
  /\ Publish(p, IF n = None THEN "del" ELSE "set")
  /\ lost' = IF pubsub["rem_man_addr"] = None THEN lost \cup {p} ELSE lost
  /\ UNCHANGED <<updaterVars, port_table>>

\* An entry of an interface whose name port_util does not know.
UnindexedChanges ==
  /\ Count
  /\ Publish(Unindexed, "set")
  /\ UNCHANGED <<updaterVars, entry, port_table, lost>>

PortChanges(p, d) ==
  /\ Count
  /\ port_table[p] # d
  /\ port_table' = [port_table EXCEPT ![p] = d]
  /\ UNCHANGED <<updaterVars, entry, pubsub, lost>>

-----------------------------------------------------------------------------
(* The rounds: common parts.                                               *)

At(u, s) == turn = u /\ step = s

\* A round that only updates.
Wake(u) ==
  /\ turn = None /\ u \in running
  /\ turn' = u /\ step' = "update" /\ todo' = {}
  /\ UNCHANGED <<redisVars, locVars, remVars, manVars, pubsub, oid_name_map, finished, faults>>

\* A round that reinitializes first: the interface tables are read again.
WakeReinit(u) ==
  /\ turn = None /\ u \in running
  /\ turn' = u /\ todo' = {}
  /\ step' = IF u = "rem_table" THEN "update" ELSE "clear"
  /\ oid_name_map' = [oid_name_map EXCEPT ![u] = {p \in Ports : port_table[p] # None}]
  /\ UNCHANGED <<redisVars, locVars, remVars, manVars, pubsub, finished, faults>>

EndRound(u) ==
  /\ turn' = None /\ step' = "asleep" /\ todo' = {}
  /\ finished' = finished \cup {u}

Enter(s, S) == step' = s /\ todo' = S /\ UNCHANGED turn

\* Redis raises, or a value of an entry cannot be converted (int and
\* parse_sys_capability raise ValueError, which no handler expects): the round
\* is over, and what it has taken or not come to is not made up for.
Fault ==
  /\ turn # None
  /\ faults < MaxFaults
  /\ faults' = faults + 1
  /\ turn' = None /\ step' = "asleep" /\ todo' = {} /\ batch' = <<>>
  /\ finished' = finished \ {turn}
  /\ lost' = IF turn = "rem_man_addr" THEN lost \cup todo ELSE lost
  /\ UNCHANGED <<redisVars, locVars, remVars, man_range, struck, pubsub, oid_name_map>>

\* psubscribe: what changed before is not told.
Subscribe(u) ==
  /\ At(u, "update")
  /\ u \in Subscribers
  /\ pubsub[u] = None
  /\ pubsub' = [pubsub EXCEPT ![u] = <<>>]
  /\ UNCHANGED <<redisVars, locVars, remVars, manVars, roundVars, oid_name_map, finished, faults>>

-----------------------------------------------------------------------------
(* LocPortUpdater.                                                         *)

\* Fault: the copy has the keys of the interfaces that are known now.
LocClear_OnlyKnown ==
  /\ At("loc_port", "clear")
  /\ loc_port_data' = [p \in oid_name_map["loc_port"] |-> None]
  /\ Enter("reinit", oid_name_map["loc_port"])
  /\ UNCHANGED <<redisVars, remVars, manVars, pubsub, oid_name_map, finished, faults>>

LocClear ==
  /\ At("loc_port", "clear")
  /\ loc_port_data' = Empty
  /\ Enter("reinit", oid_name_map["loc_port"])
  /\ UNCHANGED <<redisVars, remVars, manVars, pubsub, oid_name_map, finished, faults>>

\* Fault: the copy is replaced instead of updated.
UpdateInterface_Replaces(p) ==
  loc_port_data' = IF port_table[p] = None \/ p \notin oid_name_map["loc_port"] THEN loc_port_data
                   ELSE [Empty EXCEPT ![p] = port_table[p]]

\* update_interface_data: an entry that is not there leaves the old data.
UpdateInterface(p) ==
  loc_port_data' = IF port_table[p] = None \/ p \notin oid_name_map["loc_port"] THEN loc_port_data
                   ELSE [loc_port_data EXCEPT ![p] = port_table[p]]

LocReinit(p) ==
  /\ At("loc_port", "reinit")
  /\ p \in todo
  /\ UpdateInterface(p)
  /\ Enter("reinit", todo \ {p})
  /\ UNCHANGED <<redisVars, remVars, manVars, pubsub, oid_name_map, finished, faults>>

LocReinitEnds ==
  /\ At("loc_port", "reinit")
  /\ todo = {}
  /\ Enter("update", {})
  /\ UNCHANGED <<redisVars, locVars, remVars, manVars, pubsub, oid_name_map, finished, faults>>

\* _update_per_namespace_data: one message after the other, up to the end or to
\* one whose interface has no index.
LocPoll ==
  /\ At("loc_port", "update")
  /\ LET q == pubsub["loc_port"]
     IN  /\ q \notin {None, <<>>}
         /\ Head(q).port # Unindexed
         /\ pubsub' = [pubsub EXCEPT !["loc_port"] = Tail(q)]
         /\ IF Head(q).event = "set" THEN UpdateInterface(Head(q).port) ELSE UNCHANGED loc_port_data
  /\ UNCHANGED <<redisVars, remVars, manVars, roundVars, oid_name_map, finished, faults>>

LocPollEnds ==
  /\ At("loc_port", "update")
  /\ LET q == pubsub["loc_port"]
     IN  \/ q = <<>> /\ UNCHANGED pubsub
         \/ /\ q \notin {None, <<>>}
            /\ Head(q).port = Unindexed
            /\ pubsub' = [pubsub EXCEPT !["loc_port"] = Tail(q)]
  /\ EndRound("loc_port")
  /\ UNCHANGED <<redisVars, locVars, remVars, manVars, oid_name_map, faults>>

-----------------------------------------------------------------------------
(* LLDPRemTableUpdater.                                                    *)

\* Fault: the values of the round before stay.
RemClear_KeepsValues ==
  /\ At("rem_table", "update")
  /\ rem_range' = <<>>
  /\ Enter("loop", oid_name_map["rem_table"])
  /\ UNCHANGED <<redisVars, locVars, lldp_counters, manVars, pubsub, oid_name_map, finished, faults>>

RemClear ==
  /\ At("rem_table", "update")
  /\ rem_range' = <<>> /\ lldp_counters' = Empty
  /\ Enter("loop", oid_name_map["rem_table"])
  /\ UNCHANGED <<redisVars, locVars, manVars, pubsub, oid_name_map, finished, faults>>

\* Fault: the value is kept before it is parsed.
RemRead_KeepsUnparsed(p) ==
  /\ At("rem_table", "loop")
  /\ p \in todo
  /\ rem_range' = IF entry[p] = None THEN rem_range ELSE Append(rem_range, p)
  /\ lldp_counters' = [lldp_counters EXCEPT ![p] = entry[p]]
  /\ Enter("loop", todo \ {p})
  /\ UNCHANGED <<redisVars, locVars, manVars, pubsub, oid_name_map, finished, faults>>

\* The name map is a dict in the order of a Redis hash: any order.  The row is
\* listed before the capabilities are parsed, and a key that is missing then
\* passes over the value.
RemRead(p) ==
  /\ At("rem_table", "loop")
  /\ p \in todo
  /\ rem_range' = IF entry[p] = None THEN rem_range ELSE Append(rem_range, p)
  /\ lldp_counters' = IF entry[p] # None /\ entry[p].caps
                      THEN [lldp_counters EXCEPT ![p] = entry[p]] ELSE lldp_counters
  /\ Enter("loop", todo \ {p})
  /\ UNCHANGED <<redisVars, locVars, manVars, pubsub, oid_name_map, finished, faults>>

\* A row whose parse raises ValueError is listed when the round ends.
RemFault(p) ==
  /\ At("rem_table", "loop")
  /\ p \in todo /\ entry[p] # None
  /\ faults < MaxFaults
  /\ faults' = faults + 1
  /\ rem_range' = Append(rem_range, p)
  /\ turn' = None /\ step' = "asleep" /\ todo' = {}
  /\ finished' = finished \ {"rem_table"}
  /\ UNCHANGED <<redisVars, locVars, lldp_counters, manVars, pubsub, oid_name_map>>

\* Fault: the list is served in the order of the name map.
RemSort_Not ==
  /\ At("rem_table", "loop")
  /\ todo = {}
  /\ EndRound("rem_table")
  /\ UNCHANGED <<redisVars, locVars, remVars, manVars, pubsub, oid_name_map, faults>>

RemSort ==
  /\ At("rem_table", "loop")
  /\ todo = {}
  /\ rem_range' = Sorted(rem_range)
  /\ EndRound("rem_table")
  /\ UNCHANGED <<redisVars, locVars, lldp_counters, manVars, pubsub, oid_name_map, faults>>

-----------------------------------------------------------------------------
(* LLDPRemManAddrUpdater.                                                  *)

\* Fault: rows are only ever added.
ManClear_Not ==
  /\ At("rem_man_addr", "clear")
  /\ struck' = {} /\ lost' = Ports
  /\ Enter("reinit", oid_name_map["rem_man_addr"])
  /\ UNCHANGED <<redisVars, locVars, remVars, man_range, batch, pubsub, oid_name_map, finished, faults>>

\* reinit_data clears the table; the subscription and its messages stay.
ManClear ==
  /\ At("rem_man_addr", "clear")
  /\ man_range' = {}
  /\ struck' = {} /\ lost' = Ports
  /\ Enter("reinit", oid_name_map["rem_man_addr"])
  /\ UNCHANGED <<redisVars, locVars, remVars, batch, pubsub, oid_name_map, finished, faults>>

ManReinit(p) ==
  /\ At("rem_man_addr", "reinit")
  /\ p \in todo
  /\ man_range' = man_range \cup RowsOf(p, entry[p])
  /\ lost' = lost \ {p}
  /\ Enter("reinit", todo \ {p})
  /\ UNCHANGED <<redisVars, locVars, remVars, batch, struck, pubsub, oid_name_map, finished, faults>>

ManReinitEnds ==
  /\ At("rem_man_addr", "reinit")
  /\ todo = {}
  /\ Enter("update", {})
  /\ UNCHANGED <<redisVars, locVars, remVars, manVars, pubsub, oid_name_map, finished, faults>>

\* The messages up to one whose interface has no index: the first k of q.
Indexed(q, k) ==
  /\ \A i \in 1 .. k : q[i].port # Unindexed
  /\ k < Len(q) => q[k + 1].port = Unindexed

Take(q, k) ==
  /\ batch' = SubSeq(q, 1, k)
  /\ Enter("loop", {q[i].port : i \in 1 .. k})

\* Fault: an interface without an index costs the messages behind it.
GetLatestNotification_DropsRest ==
  /\ At("rem_man_addr", "update")
  /\ pubsub["rem_man_addr"] # None
  /\ LET q == pubsub["rem_man_addr"]
     IN  \E k \in 0 .. Len(q) :
           /\ Indexed(q, k)
           /\ Take(q, k)
           /\ pubsub' = [pubsub EXCEPT !["rem_man_addr"] = <<>>]
  /\ UNCHANGED <<redisVars, locVars, remVars, man_range, struck, lost, oid_name_map, finished, faults>>

\* get_latest_notification: takes every message up to one whose interface has
\* no index, that one included; the rest waits for the next round.
GetLatestNotification ==
  /\ At("rem_man_addr", "update")
  /\ pubsub["rem_man_addr"] # None
  /\ LET q == pubsub["rem_man_addr"]
     IN  \E k \in 0 .. Len(q) :
           /\ Indexed(q, k)
           /\ Take(q, k)
           /\ pubsub' = [pubsub EXCEPT !["rem_man_addr"] = SubSeq(q, k + 2, Len(q))]
  /\ UNCHANGED <<redisVars, locVars, remVars, man_range, struck, lost, oid_name_map, finished, faults>>

\* event is the latest one of interface p in q.
Latest(q, p, event) ==
  \E i \in DOMAIN q :
    /\ q[i] = [port |-> p, event |-> event]
    /\ \A j \in DOMAIN q : j > i => q[j].port # p

\* One interface of the batch, in the order of their first messages: its latest
\* event counts.  A "set" adds the rows of the entry as it is now; a "del"
\* removes those whose time mark is the interface's index.
ManHandle(p) ==
  /\ At("rem_man_addr", "loop")
  /\ p \in todo
  /\ \E i \in DOMAIN batch : batch[i].port = p /\ \A j \in 1 .. i - 1 : batch[j].port \notin todo
  /\ \/ /\ Latest(batch, p, "set")
        /\ man_range' = man_range \cup RowsOf(p, entry[p])
        /\ UNCHANGED struck
     \/ /\ Latest(batch, p, "del")
        /\ man_range' = {row \in man_range : row[1] # p}
        /\ struck' = struck \cup {p}
  /\ lost' = lost \ {p}
  /\ Enter("loop", todo \ {p})
  /\ UNCHANGED <<redisVars, locVars, remVars, batch, pubsub, oid_name_map, finished, faults>>

ManEnds ==
  /\ At("rem_man_addr", "loop")
  /\ todo = {}
  /\ batch' = <<>>
  /\ EndRound("rem_man_addr")
  /\ UNCHANGED <<redisVars, locVars, remVars, man_range, struck, lost, pubsub, oid_name_map, faults>>

-----------------------------------------------------------------------------

Redis ==
  \/ \E p \in Ports :
       \/ \E n \in Neighbours \cup {None} : EntryChanges(p, n)
       \/ \E d \in Descriptions \cup {None} : PortChanges(p, d)
  \/ UnindexedChanges

Round ==
  \/ \E u \in Subscribers : Subscribe(u)
  \/ LocClear \/ LocReinitEnds \/ LocPoll \/ LocPollEnds
  \/ RemClear \/ RemSort
  \/ ManClear \/ ManReinitEnds \/ GetLatestNotification \/ ManEnds
  \/ \E p \in Ports : LocReinit(p) \/ RemRead(p) \/ ManReinit(p) \/ ManHandle(p)

Raises == Fault \/ \E p \in Ports : RemFault(p)

Next ==
  \/ Redis \/ Round \/ Raises
  \/ \E u \in Updaters : Wake(u) \/ WakeReinit(u)

Spec == Init /\ [][Next]_vars

\* The event loop runs a round to its end, gives every updater its turn, and its
\* loop reinitializes again and again.  Nothing is asked of Redis.
FairSpec ==
  /\ Spec
  /\ WF_vars(Round)
  /\ \A u \in Updaters : SF_vars(WakeReinit(u))

-----------------------------------------------------------------------------
(* Properties.                                                             *)

\* The notifications that wait for LLDPRemManAddrUpdater.
Pending(p) ==
  /\ pubsub["rem_man_addr"] # None
  /\ \E i \in DOMAIN pubsub["rem_man_addr"] : pubsub["rem_man_addr"][i].port = p

\* What the updater was told or read of interface p is up to date.
Informed(p) == p \notin lost /\ ~Pending(p)

\* Between rounds, a management address in the entry of an interface of which
\* the updater is informed is in lldpRemManAddrTable, unless the "del" of an
\* interface whose index equals its time mark took it away.
AddressesListed ==
  turn # "rem_man_addr" =>
    \A p \in Ports : Informed(p) =>
      \A row \in RowsOf(p, entry[p]) : row \in man_range \/ row[1] \in struck

\* ieee802_1ab.py:565: "if del is the latest notification, then delete it from
\* the local cache".
DeletedIsGone ==
  turn # "rem_man_addr" =>
    \A p \in Ports : Informed(p) /\ entry[p] = None => \A row \in man_range : row[2] # p

\* get_next of lldpRemTable searches a sorted list without duplicates whenever
\* the last round of its updater raised nothing.
RemTableSorted ==
  "rem_table" \in finished /\ turn # "rem_table" =>
    \A i, j \in DOMAIN rem_range : i < j => rem_range[i] < rem_range[j]

\* However a round ends, a neighbour that the table has values for is listed.
ValuesAreListed == \A p \in Ports : lldp_counters[p] # None => p \in ToSet(rem_range)

\* The values of lldpLocPortTable and of lldpRemTable, as copies of Redis.
LocPorts == INSTANCE CachedTable WITH
  Keys <- Ports, Values <- Descriptions, Nothing <- None, db <- port_table, shown <- loc_port_data
RemTable == INSTANCE CachedTable WITH
  Keys <- Ports, Values <- Neighbours, Nothing <- None, shown <- lldp_counters,
  db <- [p \in Ports |-> IF entry[p] # None /\ entry[p].caps THEN entry[p] ELSE None]

\* A value of lldpLocPortTable is one that PORT_TABLE held after the table was last
\* cleared, whatever notifications were missed, taken late or for another interface.
LocPortsImplement == LocPorts!Spec

\* A value of lldpRemTable is one that a complete entry held after the round began.
RemTableImplements == RemTable!Spec

\* The table of u is what Redis holds.
Current(u) ==
  CASE u = "loc_port" -> loc_port_data = port_table
    [] u = "rem_table" -> \A p \in Ports : (p \in ToSet(rem_range)) = (port_table[p] # None /\ entry[p] # None)
    [] u = "rem_man_addr" -> man_range = UNION {RowsOf(p, entry[p]) : p \in {p \in Ports : port_table[p] # None}}

\* Once Redis rests, the three tables end as what it holds, however many rounds
\* raised before.  (Changes and exceptions are bounded in a run: Redis rests in the
\* end.)
Converges == \A u \in Updaters : []<>(u \in running => Current(u))

=============================================================================
