# TLA+ models of the SONiC SNMP sub-agent

The sub-agent (`src/src`) is one Python process with one asyncio loop.  It is an
AgentX client of snmpd, the *master*: it opens a connection, registers the
prefixes of its MIB table and answers Get and GetNext PDUs.  The data comes from
Redis: every MIB class has an *updater* whose background task rereads the
databases every few seconds and replaces the lists and maps that the table's
entries look things up in.

Everything runs in the loop, so two pieces of Python interleave only at an
`await`.  What is concurrent is the rest of the switch: snmpd, Redis, the daemons
that write to Redis at any moment (also in the middle of a round of an updater),
the managers whose walks span many requests, and the signals.

## Inventory

| Component | State | Operations | What makes it correct |
|---|---|---|---|
| Agent lifecycle: `main.py`, `agent.py`, `socket_io.py` | `run_enabled`, `oid_updaters_enabled`, `stopped`; the transport; `shutdown_task` | start, connect, retry, lose the connection, drain the background tasks, two signals | one connection at a time; `stopped` means stopped; a shutdown ends the process; a lost connection comes back |
| AgentX protocol: `protocol.py` | `session_id`, `closed` | handshake, Response, requests, `connection_lost` | a session lives on the connection that `close()` would close; every request is answered |
| PDU stream and encodings: `pdu*.py`, `encodings.py` | the position in a chunk; nothing between two chunks | decode, encode, `make_response` | a request is answered once and in turn; a chunk is handled as far as it can be |
| `MIBTable` and entries: `mib.py` | prefixes; what the entries iterate over | `get`, `get_next`, background tasks | Get and GetNext agree; GetNext is the closest successor; a walk ascends and misses nothing |
| `MIBUpdater`: `mib.py`, `mibs/__init__.py` | `update_counter`, `redis_exception_happen`, the connections | reinit, update, reconnect | a restart of Redis is survived, in bounded time |
| entPhysicalTable: `rfc2737.py`, `physical_entity_sub_oid_generator.py` | the list of rows, the rows of each entity, names, callbacks, subscriptions | reinit, set, del, resolve a name | rows agree with STATE_DB; nothing that was removed stays |
| entPhySensorTable: `rfc3433.py`, `sensor_data.py` | sub OIDs, key lists, values | reinit, update | a sorted list without two sensors of one sub OID; what it lists has values; it converges |
| Interfaces: `rfc1213.py`, `rfc2863.py`, `mibs/__init__.py` | interface maps, counters, the list | reinit, update, add router interfaces, sum over a LAG | sums neither miss nor count twice; 32 and 64 bit widths; the list fits the maps |
| LLDP: `ieee802_1ab.py` | ports, neighbours, addresses, subscriptions | reinit, update, latest notification per port | a copy shows what was read; addresses told of are listed; those of a neighbour that is gone are gone |
| FDB, routes, ARP: `rfc4363.py`, `rfc4292.py`, `rfc1213.py` | tables rebuilt each round | update | one entry per key, in order |
| Cisco and Dell MIBs: `mibs/vendor` | queue, PFC, PSU state and BGP maps | reinit, update | a missing record affects its own row only |
| SNMP overlay: `RedisOidTreeUpdater` | `oid_map` | update | an overlaid value wins, and only for its own OID |
| Namespaces: `mibs/__init__.py` | one connection per Redis instance | connect, merge | the tables of different instances do not collide |
| Command line, logging, `sysDescr_pass.py` | none | | |

The interactions: snmpd calls the protocol object, which calls the MIB table, which
calls the updaters' lookups, in one step of the loop.  An updater's round (a step,
too) replaces what these lookups read.  Redis calls nobody: an updater polls it, or
polls the keyspace notifications it has subscribed to.  A signal's handler creates a
task that changes the Agent's events and the socket, and the events reach the
updaters.

The hard behaviours: cancelling something that is still being opened; two signals;
timers that are never cancelled; a time limit on tasks that sleep; a walk over lists
that are replaced under it; notifications that are lost before the subscription,
dropped by a reinit or read after the entry changed again; callbacks that outlive
their subject; exceptions in the middle of a reinit.  PROJECT.json lists them
with their lines, under `hazards`.

## Modules

| Module | Models | Checked by |
|---|---|---|
| `AgentLifecycle` | process, agent, socket manager, handshake, background tasks | `agent_lifecycle`, `agent_gives_up`, `lifecycle_connecting` |
| `MibUpdater` | the loop of one updater, Redis connection | `mib_updater` |
| `MibTable` | Get and GetNext, rounds, walks | `mib_table` |
| `PduStream` | the byte stream from the master, in chunks, and what is answered | `pdu_stream` |
| `SubOids` | the arithmetic of entPhysicalIndex (operators only) | through `PhysicalTable` and `Sensors` |
| `SortedLists` | `list.sort()` (operators only) | through `Lldp` and `Sensors` |
| `PhysicalTable` | entPhysicalTable's cache of STATE_DB | `physical_table`, `physical_ghost_fan` |
| `Sensors` | entPhySensorTable | `sensors` |
| `Interfaces` | ifTable and ifXTable: maps, counters, router interfaces, sums over LAGs | `interfaces` |
| `CachedTable` | what an updater's copy of a Redis table promises (abstract) | implemented by `Lldp`, twice |
| `Lldp` | the local port, remote and management address tables | `lldp`, `lldp_deleted` |
| `*Proofs` | the theorems of a module, for every value of its constants | the proof system |
| `MC*` | the instances for TLC | |

The modules compose as the code does.  `MibTable`'s rounds stand for any updater: its
`RebuildSubtree` replaces a list and a map by anything, and what the modules of the
tables show of their list and their values (sorted, without duplicates, listed only with
values) is what `MibTable` needs of it, or counts as torn.  `MibUpdater` is the loop that
calls the rounds; `PduStream` is what calls `MibTable`; `AgentLifecycle` makes the
connection that `PduStream` reads and starts the loops.

Sums and sorted lists are written without recursion, which the prover could not follow:
`SumOf` in `Interfaces` counts the units of all the summands (`MCInterfaces` checks on
small functions that this is the sum), and `Sorted` in `SortedLists` puts at place `k` the
element up to which there are `k`, equal ones in the order they had.

An operator named `X_Something` under the comment "Fault:" is a plausible wrong form
of `X`, which is defined after it.  It is used by no specification; replacing the body
of `X` with it is how each property was tried against a bug (`mutants` in
PROJECT.json).

### AgentLifecycle

One action is what runs between two awaits.  `agent` is the await point of
`run_in_event_loop`: in the connection routine (`connecting`), in `closed.wait()`
(`open`), in the retry sleep (`retry`), in `wait_for` (`draining`).  The three
`asyncio.Event`s keep their names.  `link` is this side of each connection, `peer`
whether the master still holds its own, and `handshake` the 1 s timer and the Open
PDU.  `ConnectionMade` and `ConnectionReturned` are two actions: asyncio makes the
transport in one iteration and resumes the coroutine in a later one, and a signal
fits between.

Time is counted only where the code compares two delays: the sleeps of the updaters
(`sleep`) against `BACKGROUND_WAIT_TIMEOUT` (`drain`).  `Tick` passes a second when
nobody has anything to do at the present one; a round may block the loop for
`ExecTimes` seconds.  The 3 s and 1 s timers fire at any later moment, which allows
more than the code does.

### MibUpdater

A round of `MIBUpdater.start` is split where it touches Redis.  `connected` is
whether the connection is one to the present run of the server.  `outage` counts the
rounds that ended with the server up and the connection dead: it is history, read
by no action but `EndRound`, and stops at `OutageCap`.  `Overrides` says whether the
class defines `reinit_connection`.

### MibTable

An OID is a tuple of numbers.  `listed` is what the iterator of a subtree yields and
`held` the sub-ids its callable has values for: separate, since in the code they are
a list and a map that different lines replace.  A round of the owner replaces both
with anything.  `cursor`, `owed` and `torn` follow one walk of a manager.  A GET on
a static `MIBEntry` ignores the sub-id, as the code does.  The assumption that no
prefix lies inside another holds for the 104 prefixes of `SonicMIB`.

### PhysicalTable

`rows` is `physical_entities` as a bag (the code keeps a sorted list with
repetitions: each "set" inserts the sub OID again), `owned` is `entity_to_oid_map`,
`resolved` the names in `physical_name_to_oid_map`, and `waiting` counts the callbacks
that `pending_resolve_parent_name_map` holds for each fan, by the kind of entry they
captured.  `queue` are the notifications of each of the five subscriptions; `lost` is
history: the entities that changed without a notification that anyone will handle.
STATE_DB has an entry per entity that is absent, unplugged, plain or metered (has
readings for its sensors), and an entry in the relation table.

A round has no await, but the daemons are other processes: `reinit_data` is one
action per updater and one per key, `update_data` one per notification, and the
table is compared with STATE_DB between rounds.  Redis may fail at each of these
places: before the updaters get their turn, in `XcvrCacheUpdater`'s reading of the
interface tables, in the cancellation of a subscription, in the middle of a key.

Left out: the attributes of a row (they follow the row), several namespaces, parents
of modules other than the chassis, names of ports that are not interfaces.

### PduStream

A PDU is a header and its fields, each of two *parts*: a cut between the two stands for
one anywhere inside.  The master appends PDUs to `stream`; `DataReceived` hands
`received` on to any later part, so that a chunk ends anywhere and holds any number of
PDUs, and steps over one PDU at a time until `read` reaches it.  The code keeps nothing
between two chunks, so the rest of a cut PDU is read as the header of another: `Misread`
is every outcome of decoding bytes at the wrong place that the code has: an exception or an
unknown type, which drop the chunk; something that looks like a request, which is answered
under a packet id that nobody waits for and not recorded in `answers`; something that looks
like a Response, which may change the session.  `due` and `failed` are history: the PDUs of
the chunk that nothing keeps from being handled, and the requests whose lookup raised.

PDUs with the non-default context flag, which no master sends here, are left out.

### Lldp and CachedTable

Three updaters in one module, because they read the same two tables of Redis.  A round
has no `await`: one updater at a time is in a round (`turn`, `step`, `todo`), and Redis
changes between any two of its accesses.  `pubsub` holds the messages of each
subscription; `get_latest_notification` takes any number of them and keeps the latest of
each interface, and the message it stops at is thrown away, as in the code.  `lost` and
`struck` are history: the interfaces of which a change was not told (no subscription yet,
thrown away, unknown to the updater), and those for which a "del" struck the rows whose
time mark is the index of the interface.

`CachedTable` is the abstract specification: a copy that a reader may clear and may fill
key by key from the table, whose entries change at any moment.  It promises that a value
shown is one that was read for that key since the last clear.  `Lldp` implements it twice
(`INSTANCE CachedTable WITH ...`): `loc_port_data` is a copy of PORT_TABLE, and
`lldp_counters` one of the complete entries of LLDP_ENTRY_TABLE.

### Interfaces

`table` says which of the two updaters the behaviour is of: they share the functions in
`mibs/__init__.py` that read the maps, and neither looks at the other.  The maps of a
reinit and the list of a round (`if_range`) are separate variables, since an exception
between them leaves one new and one old.  One counter stands for all, of a width that
the run sets.  `Aggregate` adds the drops of the router interfaces to ports and VLANs
as a round does it, the sum over the members of a LAG is made when it is asked for
(`LagCounter`).

### Sensors

`keys` are the four lists of keys that a reinit reads, `sub_ids` the sorted list and
`values` what the five `ent_phy_sensor_*_maps` hold (they are filled together).  A
reading is null, a text, a number or a number that the conversion raises for; `mib_values`
does the scaling, the rounding and the clamping to the range of EntitySensorValue.  What
else the updater reads for an entity (its physical entity entry, the interface of a
transceiver) is `place`: it places the entity, skips it, or raises.  `torn` is whether a
reinit raised after it had cleared the maps.

## Runs

| Run | Result | Question |
|---|---|---|
| `agent_lifecycle` | holds | Two signals, two updaters, two protocol objects, any master: one connection at a time; a live session is on the stored transport; `stopped` means quiet; an agent that ends has said so; a shutdown that is unwinding ends; the agent comes back to a master that stays |
| `agent_gives_up` | holds | And with updaters that sleep longer than the agent waits? A drain still ends, with `stopped` or with the `TimeoutError` |
| `lifecycle_connecting` | violated | Does every signal end the process? Not one that is handled while a connection is being made |
| `mib_updater` | holds | How long can an updater be without Redis? `ReinitRate + 2` rounds, if its class reconnects |
| `mib_table` | holds | Do Get and GetNext agree, and find the closest successor; does a walk ascend and miss nothing that kept its value? |
| `pdu_stream` | holds | Wherever the chunks end: is each request answered once and in turn, and each chunk that begins with a PDU handled as far as it can be? |
| `physical_table` | holds | Can every row be removed; does the table agree with STATE_DB about all the updater was told; does it converge? |
| `physical_ghost_fan` | violated | Is a removed fan gone? Not if a callback waits for its drawer |
| `sensors` | holds | Is the list sorted, does what it lists have values, does the table converge, up to the first entity that raises? |
| `interfaces` | holds | Is no counter served twice, does every listed interface have a name, do both tables converge to the true sums? |
| `lldp` | holds | Is a management address the updater was told of listed; are the two copies cached tables; do all three tables converge? |
| `lldp_deleted` | violated | Are the addresses of a deleted neighbour gone? Not before the next reinit |

`ClosestSuccessor` and `WalkComplete` are what is left of the promise of RFC 2741 when
one thing is set aside: a listed sub-id without a value makes `_get_nextvalue` leave the
subtree (`mib.py:370`).  They hold in every state, for every range, and exclude exactly
the names behind such a sub-id (`Obstructed`, `torn`).

### Bounds

- `agent_lifecycle`: two protocol objects are enough, since identities are reused
  once a connection is lost and at most one is live.  Two signals are the least at
  which `shutdown_task` is overwritten.  `BACKGROUND_WAIT_TIMEOUT = 4`,
  `Frequency = 2`, `Jitter = 1` and rounds of 0 or 1 s keep the order of the code's
  10, 5 and 2; the theorem holds for all values in that order.
- `agent_gives_up`: the code's 10, 5, 10 and 60, with one updater and one signal: a
  single late updater makes `wait_for` time out.
- `mib_updater`: the code's rate, 60 // 5 = 12.  `outage` stops at `ReinitRate + 3`.
- `mib_table`: three prefixes (overlaid subtree, static entry, subtree), sub-ids
  `<<1>>` and `<<1, 1>>` of which one is a prefix of the other, every content, and
  search ranges that start and end at, between, inside and past all of them.
- `physical_table`: one transceiver, one drawer, one fan, in every initial
  condition; `MaxChanges = 2` writes to STATE_DB, `MaxFaults = 1` exception.  The
  reinit rate is 0: a reinit in every other round.  PSUs and chassis thermals add no
  transition: a PSU is a drawer whose missing relation raises, as a fan's does, and a
  thermal is a drawer without children.

- `pdu_stream`: five PDUs on a connection: the answer to the Open PDU, and four among
  requests of one and of two ranges, a Response and a PDU without answer, in every
  order and in every division into chunks.
- `lldp`: two interfaces, a neighbour whose time mark is the index of an interface and
  one without the capability keys, three changes and one exception; one updater per
  behaviour, since the three share nothing that one of them writes.
- `interfaces`: two ports, a LAG (1001) that may hold them, a VLAN (2010), the management
  port (10000), router interface 61 on a port and 62 on the LAG; counters of width 2
  and 4, which wrap at every sum; three changes and one exception.
- `sensors`: a transceiver with two sensors, a PSU, a fan in a drawer, thermals at
  positions 9 and 10 (their sub OIDs differ in the number of digits that change); from
  empty and from full tables, two changes and one exception; values clamp at 20.

### Fairness

`AgentLifecycle` assumes of asyncio that a ready callback, a due timer and an I/O
event are served, and that time passes: weak fairness of each action of the process.
Nothing is assumed of signals and of the master.  `MibUpdater` and `PhysicalTable`
assume that the updater's task is resumed: weak fairness of the round as a whole.
`Lldp`, `Interfaces` and `Sensors` assume the same (`WF_vars(Round)`, `WF_vars(Proceed)`)
and that a reinit comes back: strong fairness of `WakeReinit`, since the model replaces
the counter of `MIBUpdater.start` by a choice at each wake-up; `MibUpdater` models the
counter, whose invariant bounds the rounds between two reinits.
Redis and the daemons owe nothing.  `Reconnects`, `Recovers` and `Converges` put what
they need of the environment into their hypothesis, or hold because the changes and the
exceptions of a run are bounded.

## What the violations show

1. A signal that arrives during `await connection_routine` (`socket_io.py:149`) is
   lost on the socket: `close()` has no transport, the connection opens, and the
   process waits for the master to end it.
2. A fan removed while it waits for its drawer appears with the drawer
   (`rfc2737.py:1005`).
3. A "del" of an LLDP neighbour compares the time mark of a row with the index of the
   interface (`ieee802_1ab.py:566`): the rows of the neighbour stay until the next
   reinit, and rows of other interfaces may go.

Other facts that the models take from the code and that no document of the repository
contradicts; they appear as hypotheses of properties, and have no run of their own:

- With `--enable_dynamic_frequency` updaters may sleep for 60 s and the agent waits 10 s
  (`agent.py:49`).  The `TimeoutError` skips `stopped.set()`, and the finally clause of
  `main()` waits for it for ever.  `ShutdownEndsOrFails` allows it; the theorem
  `EndedAgentSignalsStoppedHolds` assumes it away.
- Classes that inherit the empty `reinit_connection` stay without data after Redis
  restarts (`Overrides` in `MibUpdater`).
- A listed sub-id without a value ends GetNext's search in its subtree (`mib.py:370`).
- The end of a search range is not looked at inside the subtree of the start
  (`mib.py:407`): an answer may lie past it.
- An administrative PDU (Ping, Close, TestSet...) has no `make_response`: the PDUs behind
  it in the chunk get no answer (`protocol.py:138`).  The session id of a request is not
  compared with that of the session.  A request whose last search range is cut exactly at
  the end of a chunk is answered without it.
- An openFailed answer is only logged (`protocol.py:77`); the session stays unopened until
  the master drops the connection.

## Proofs

`AgentLifecycleProofs`, for all constants that satisfy `ConstantsAssumption`:

- `TypeCorrect`.
- `OneConnectionHolds` and `SessionOnTransportHolds` from `ConnectionInv`.  That one
  connection is live at a time is not inductive: `ConnectionInv` adds that no
  connection is remembered as `protocol` outside `connecting` and `open`, that in
  `open` it is the stored transport, and that a handshake that can still yield a
  session belongs to it.
- `StoppedMeansQuietHolds` from `ConnectionInv` and `HaltInv`, which orders the
  shutdown: `run_enabled` is cleared before the agent drains, the updaters' event
  while it drains, and they are done when it is.
- `EndedAgentSignalsStoppedHolds`, assuming a fixed frequency and
  `Frequency + Jitter < BACKGROUND_WAIT_TIMEOUT`.  `DrainInv` relates the two kinds of
  timers: while the agent drains, every updater that has not returned wakes before
  the drain runs out.  With the dynamic frequency the assumption fails, and the drain
  with it.

`MibUpdaterProofs`, for every reinit rate: `UpdaterTypeCorrect`, and for a class that
reconnects `BoundedOutageHolds` and `OutageRememberedHolds`, from an invariant that ties
`outage` to `update_counter`: every round of an outage after the first has moved the
counter towards the reinit.

`MibTableProofs`, for any finite set of non-empty prefixes of which none lies inside
another, any sub-ids and any search ranges (`TableAssumption`):

- That Python's order of tuples is a strict total order (`BeforeIff` says where two tuples
  differ; `BeforeTransitive`, `BeforeTotal`), that a finite set of them has a least and a
  greatest element, and how the order goes with prefixes: names of one entry are ordered
  as their sub-ids (`SubIdOrder`), names of two entries as their prefixes (`PrefixOrder`,
  where no prefix lies inside another), so the greatest prefix not after a name is the
  only one that can be its parent (`PrefixIsParent`).
- `GetNextIsAfter`: an answer of GetNext is an instance after the start.  `Successor`: no
  instance of the range is passed over unless it is `Obstructed`, by the three places an
  instance can be in: the entry of the start, an entry after the one that answers, the
  entries that remain.
- From the two: `GetAgreesHolds`, `ClosestSuccessorHolds`, `WalkAscendsHolds`.
- `WalkCompleteHolds` is not inductive: `Owes` adds that what a walk has not returned is
  still an instance and lies ahead of the cursor, or in a torn subtree, and that every
  subtree that is torn now is remembered.  `TableTypeCorrect` comes with it.

`PduStreamProofs`, for any PDUs and chunks: `StreamTypeCorrect` and `AnswersMatchHolds`,
from where the parts of a PDU lie in the stream (`Layout`: consecutive, in the order they
were sent) and from that what was answered lies before what is read next
(`AnsweredBefore`).  `ChunkIsHandledHolds` from `ChunkInv`: PDUs lie in the stream whole and one
behind the other (`WholePdus`); each one that is due is handled or lies wholly ahead, with
`read` at the header of one that is due (`DueAhead`), until a lookup raises; and before there is
a session nothing was sent but the answer to the Open PDU (`OpenFirst`), so that the
AgentError of a chunk without a session drops nothing that is due.

`LldpProofs`, for any interfaces, neighbours, changes and exceptions:

- `AddressesListedHolds` from `AddrInv`: an interface is lost, or what changed in its
  entry is a message that waits, or is in the batch, or was handled with the entry as it
  is; the latest message of an interface says whether its entry is there.
- `LocPortsImplementHolds` and `RemTableImplementsHolds`: each step is one of
  `CachedTable` or a stutter.
- `LldpTypeCorrect`, and `RemTableSortedHolds` and `ValuesAreListedHolds` from `RemInv`:
  the list of the remote table has no interface twice and none that the round has still to
  read (`todo`), and what has a value is listed.  That the sort keeps the elements and
  orders them comes from lemmas about ranks: places are distinct, and grow with the
  elements.

`InterfacesProofs`, for any interfaces, changes and exceptions:

- `NamesResolveHolds`, from that a round which raised nothing leaves a list made of the
  maps that it leaves.
- `InterfacesTypeCorrect`, by the groups `DatabaseOK`, `MapsOK`, `RoundOK`, `FinishedOK`
  and `CountersOK`; the last needs that a router interface whose drops are added was read.
- `NotOvercountedHolds` from `CountInv`.  The bound on a counter is not inductive, since
  `Aggregate` adds to it in place.  `CountInv` adds that the ports that this round has read
  are bare until then (`Bare`: no more than the hardware has counted), that the router
  interfaces whose drops are added are bounded themselves (`RifsBounded`), and the bounds
  outside the round as well (`PortsBounded`, `VlansBounded`).  What the hardware counts only
  grows, and sums with it (`SumGrows`).

`SensorsProofs` begins with arithmetic: sensors at positions below 100 have different sub
OIDs within a kind (`SensorSubIdsDistinct`) and across kinds (`SensorKindsApart`), as have
the sensors of a transceiver with up to nine lanes (`LaneOffsetsDistinct`); `LayersMeet`
shows that the bounds are the least ones.  Then, for any entities and readings:

- `SensorsTypeCorrect`, which includes that scaling, rounding and clamping leave a value in
  EntitySensorValueRange.
- `ListedHasValuesHolds`: what a round lists it has set values of; a round that raises
  leaves the maps, which only a reinit clears.
- `SensorsSortedHolds`, under `WithinLayers` (positions below 100, nine lanes, fans in a
  drawer or a PSU) and `Apart` (no two entities of a kind in one place).  The hypotheses are
  what the digits of a sub OID can tell apart: where one fails, two sensors share a sub OID
  and the list has it twice, by `LayersMeet`.  The instance that is model-checked satisfies
  both (`MCSensors`).  The inductive invariant is that while a round reads, the sub OIDs
  in the list are distinct and of entities that it has come to.

`PhysicalTableProofs`, for any entities of the five kinds, any number of writes, of
notifications on their way and of exceptions:

- `PhysicalTypeCorrect`, from `TypeOK` and that no keys are left outside `keys`.
- `RemovableHolds` and `WaitsForAbsentParentHolds` from `CacheInv`.  `Removable` is not
  inductive: `reinit_data` of an updater clears its part of `entity_to_oid_map`,
  whatever rows there are.  `CacheInv` adds why there are none: the list was cleared
  when the round began (`NoRowsAhead`: the updaters whose turn is still to come have
  no rows), and no callback of a fan can insert one before the fans' own reinit
  (`NoFanWaits`).  The proof uses the order of the decorated classes: drawers come before
  fans.
- `AgreementHolds` from `AgreeInv`, which says of each entity that its updater is done with
  (not in `todo`, its updater's reinit not still to come), what `Agreement` says of one
  with nothing under way: an entity that is gone and has rows has a "del" in the queue
  (`GoneIsQueued`); of those that are informed, rows go with entries (`RowIfWarranted`),
  and each row is there or promised (`RowsOrPromise`): by a notification that waits, or, of
  a fan, by the callback that waits for its drawer.  A queue tells the last state of an
  entity (`QueuesRight`), and what is still to be read has no rows (`NoRowsTodo`).

They rest on `PhysicalAssumption`, on `NamesAssumption` (the tables of the five updaters
name different entities) and on `SubIdsAssumption` (no two entities share a sub OID).
`SensorsProofs` gives the latter for sensors at positions below 100 and lanes below 10.  It
does not hold for a fan of the chassis and a fan of a drawer that both have the drawer's
position, since the code puts the first into a virtual drawer of that position
(`LayersMeet`).  Where it fails, the two entities share rows, and the theorems say nothing.

Only model-checked is liveness (`ShutdownTerminates`, `Reconnects`, `Recovers`,
`Converges`, `ShutdownEndsOrFails`): it needs fairness, whose ENABLED the prover does not
handle.  Every invariant of a passing run is stated by a theorem, as are the two refinements
of `CachedTable`.  The three runs that end in a violation have nothing to prove.

## Not modelled

- The byte encodings (`encodings.py`) and layouts of PDUs: pure conversions that
  `tests/test_encodings.py` and `tests/test_pdu.py` cover.
- The attributes of a row of entPhysicalTable and of an interface (names, models, aliases,
  speeds), and what is formatted of them.  The models check that the lookup finds its key.
- Several namespaces: connecting to them is one step of `MibUpdater`; the tables have one.
- `LLDPLocalSystemDataUpdater` and `LLDPLocManAddrUpdater`, the ARP and next hop updaters, the
  FDB and route tables: each replaces its whole table from what it reads in one round, and
  adds no transition to what `MibTable.RebuildSubtree` has.
- The Cisco and Dell MIBs.
- The wording of logs, the command line, `sysDescr_pass.py`.

## Plan

1. The queue counters of the Cisco MIBs: a queue without counters ends the round
   (`ciscoSwitchQosMIB.py:111`).
2. FDB and routes: the conversions they make, and that two keys never become one OID.
3. Attributes of rows of entPhysicalTable, which a "set" with null keeps (`rfc2737.py:900`),
   and parents of modules other than the chassis (`rfc2737.py:457`).
4. The merging of the tables of several namespaces.
5. Theorems: the lemmas with which liveness can be argued by hand (that a round's measure
   decreases).
