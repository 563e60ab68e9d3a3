--------------------------- MODULE AgentLifecycle ---------------------------
(***************************************************************************)
(* The life of one sub-agent process: main() and its signal handlers, the  *)
(* Agent, the SocketManager's connection loop, one AgentX protocol object  *)
(* per connection, and the background tasks of the MIB updaters.  All of   *)
(* them are coroutines and callbacks of ONE asyncio loop, so what runs     *)
(* between two awaits is one action here, and every interleaving is one    *)
(* of await points.                                                        *)
(*                                                                         *)
(* The master agent (snmpd) is the environment: it starts, stops, drops    *)
(* connections and answers an Open PDU in any way the code distinguishes.  *)
(*                                                                         *)
(* Time is counted (in seconds) only where the code compares two delays:   *)
(* the sleeps of the updaters against BACKGROUND_WAIT_TIMEOUT.  The two    *)
(* other delays (3 s before a reconnection, 1 s before the Open PDU) are   *)
(* timers that fire at any later moment.                                   *)
(***************************************************************************)
EXTENDS Integers, FiniteSets

CONSTANTS
  Updaters,                 \* the MIBUpdater objects of the table
  Connections,              \* identities of AgentX protocol objects
  Signals,                  \* the deliveries of SIGINT or SIGTERM
  None,                     \* Python's None
  BACKGROUND_WAIT_TIMEOUT,  \* agent.py:7
  Frequency,                \* MIBUpdater.frequency
  Jitter,                   \* bound of the random part of a sleep
  DynamicFrequency,         \* MIBUpdater.enable_dynamic_frequency
  UPDATE_RATE,              \* UPDATE_FREQUENCY_RATE, constants.py
  MAX_UPDATE_INTERVAL,      \* constants.py
  ExecTimes                 \* how long a round may block the loop

ASSUME ConstantsAssumption ==
  /\ None \notin Connections \cup Signals
  /\ BACKGROUND_WAIT_TIMEOUT \in Nat
  /\ Frequency \in Nat
  /\ Jitter \in Nat
  /\ DynamicFrequency \in BOOLEAN
  /\ UPDATE_RATE \in Nat
  /\ MAX_UPDATE_INTERVAL \in Nat
  /\ ExecTimes \subseteq Nat

VARIABLES
  main,           \* where main() is: "running", "finalizing" or "exited"
  shutdown,       \* the task of each delivered signal
  shutdown_task,  \* main.py's global: the task of the LAST signal
  awaited,        \* the task that main()'s finally clause waits for
  agent,          \* the await point of Agent.run_in_event_loop
  run_enabled, oid_updaters_enabled, stopped,    \* the Agent's three events
  transport,      \* SocketManager.transport
  protocol,       \* the connection being opened or waited for
  link,           \* this side of each connection
  peer,           \* whether the master still holds its side
  handshake,      \* the opening handshake of each connection
  response,       \* the Response PDU on its way to each connection
  session,        \* whether session_id of each connection is not -1
  master,         \* "up" or "down"
  updater,        \* the background task of each updater
  sleep,          \* seconds before each updater's task is resumed
  drain           \* seconds before wait_for(background_task) gives up

mainVars   == <<main, shutdown, shutdown_task, awaited>>
agentVars  == <<agent, run_enabled, oid_updaters_enabled, stopped>>
socketVars == <<transport, protocol>>
connVars   == <<link, peer, handshake, response, session>>
taskVars   == <<updater, sleep, drain>>
vars == <<mainVars, agentVars, socketVars, connVars, master, taskVars>>

Answers == {"noError", "parseError", "openFailed", "other"}

TypeOK ==
  /\ main \in {"running", "finalizing", "exited"}
  /\ shutdown \in [Signals -> {"none", "created", "waiting", "done"}]
  /\ shutdown_task \in Signals \cup {None}
  /\ awaited \in Signals \cup {None}
  /\ agent \in {"start", "connecting", "open", "retry", "draining", "done", "failed"}
  /\ run_enabled \in BOOLEAN
  /\ oid_updaters_enabled \in BOOLEAN
  /\ stopped \in BOOLEAN
  /\ transport \in Connections \cup {None}
  /\ protocol \in Connections \cup {None}
  /\ link \in [Connections -> {"unused", "open", "closing", "lost"}]
  /\ peer \in [Connections -> BOOLEAN]
  /\ handshake \in [Connections -> {"none", "armed", "sent"}]
  /\ response \in [Connections -> Answers \cup {"none"}]
  /\ session \in [Connections -> BOOLEAN]
  /\ master \in {"up", "down"}
  /\ updater \in [Updaters -> {"new", "started", "done"}]
  /\ sleep \in [Updaters -> Nat]
  /\ drain \in Nat

Init ==
  /\ main = "running"
  /\ shutdown = [s \in Signals |-> "none"]
  /\ shutdown_task = None
  /\ awaited = None
  /\ agent = "start"
  /\ run_enabled = FALSE
  /\ oid_updaters_enabled = FALSE
  /\ stopped = FALSE
  /\ transport = None
  /\ protocol = None
  /\ link = [c \in Connections |-> "unused"]
  /\ peer = [c \in Connections |-> FALSE]
  /\ handshake = [c \in Connections |-> "none"]
  /\ response = [c \in Connections |-> "none"]
  /\ session = [c \in Connections |-> FALSE]
  /\ master \in {"up", "down"}
  /\ updater = [u \in Updaters |-> "new"]
  /\ sleep = [u \in Updaters |-> 0]
  /\ drain = 0

\* The loop executes callbacks until main() closes it.
LoopRuns == main # "exited"

-----------------------------------------------------------------------------
(* The master agent: not fair, it may do any of this or nothing.           *)

MasterStarts ==
  /\ LoopRuns
  /\ master = "down"
  /\ master' = "up"
  /\ UNCHANGED <<mainVars, agentVars, socketVars, connVars, taskVars>>

\* snmpd stops or crashes: every connection loses its other end.
MasterStops ==
  /\ LoopRuns
  /\ master = "up"
  /\ master' = "down"
  /\ peer' = [c \in Connections |-> FALSE]
  /\ UNCHANGED <<mainVars, agentVars, socketVars, link, handshake, response,
                 session, taskVars>>

\* snmpd closes one connection (a timeout of the session, say).
MasterDrops(c) ==
  /\ LoopRuns
  /\ peer[c]
  /\ peer' = [peer EXCEPT ![c] = FALSE]
  /\ UNCHANGED <<mainVars, agentVars, socketVars, link, handshake, response,
                 session, master, taskVars>>

\* snmpd answers the Open PDU of a connection, once.
MasterAnswers(c, error) ==
  /\ LoopRuns
  /\ peer[c]
  /\ handshake[c] = "sent"
  /\ handshake' = [handshake EXCEPT ![c] = "none"]
  /\ response' = [response EXCEPT ![c] = error]
  /\ UNCHANGED <<mainVars, agentVars, socketVars, link, peer, session, master,
                 taskVars>>

-----------------------------------------------------------------------------
(* AgentX: the callbacks of one connection.                                *)

\* transport.close(): connection_lost is scheduled; a transport that is
\* already closing or closed ignores it.
CloseLink(c) ==
  [link EXCEPT ![c] = IF @ = "open" THEN "closing" ELSE @]

\* call_later(1, protocol.opening_handshake) fires.  The timer is never
\* cancelled; on a transport that is closing or closed the write is dropped.
OpeningHandshake(c) ==
  /\ LoopRuns
  /\ handshake[c] = "armed"
  /\ handshake' = [handshake EXCEPT ![c] = IF link[c] = "open" THEN "sent" ELSE "none"]
  /\ UNCHANGED <<mainVars, agentVars, socketVars, link, peer, response, session,
                 master, taskVars>>

\* parse_response with session_id = -1: a parseError closes the transport, no
\* error opens the session (and registers the subtrees), openFailed is only
\* logged, and any other error raises AgentError, which data_received logs.
ParseResponse(c, error) ==
  /\ link' = IF error = "parseError" THEN CloseLink(c) ELSE link
  /\ session' = [session EXCEPT ![c] = (error = "noError")]

\* The Response PDU to the Open PDU arrives.
DataReceived(c) ==
  /\ LoopRuns
  /\ link[c] = "open"
  /\ response[c] # "none"
  /\ response' = [response EXCEPT ![c] = "none"]
  /\ ParseResponse(c, response[c])
  /\ UNCHANGED <<mainVars, agentVars, socketVars, peer, handshake, master, taskVars>>

\* Fault: closed.set() only for an exception, which a clean close does not pass.
ConnectionLost_NotOnCleanClose(c) ==
  /\ LoopRuns
  /\ link[c] = "open" /\ ~peer[c]
  /\ link' = [link EXCEPT ![c] = "lost"]
  /\ response' = [response EXCEPT ![c] = "none"]
  /\ UNCHANGED <<mainVars, agentVars, socketVars, peer, handshake, session, master, taskVars>>

\* The loop reports the end of a connection, which this side closed or the
\* master dropped; connection_lost sets protocol.closed.
ConnectionLost(c) ==
  /\ LoopRuns
  /\ \/ link[c] = "closing"
     \/ link[c] = "open" /\ ~peer[c]
  /\ link' = [link EXCEPT ![c] = "lost"]
  /\ peer' = [peer EXCEPT ![c] = FALSE]
  /\ response' = [response EXCEPT ![c] = "none"]
  /\ UNCHANGED <<mainVars, agentVars, socketVars, handshake, session, master, taskVars>>

-----------------------------------------------------------------------------
(* MIBUpdater.start: the background task of each updater.                  *)

\* Fault: the remaining time is not clamped.
Minus_Unclamped(a, b) == a - b

Minus(a, b) == IF a <= b THEN 0 ELSE a - b

\* get_next_update_interval for a round that took e seconds.
NextUpdateInterval(e) ==
  LET wanted == IF e * UPDATE_RATE < MAX_UPDATE_INTERVAL
                THEN e * UPDATE_RATE ELSE MAX_UPDATE_INTERVAL
  IN  IF DynamicFrequency /\ Frequency < wanted THEN wanted ELSE Frequency

\* One turn of the loop in start(): reinit_data and update_data block the
\* event loop for e seconds, which the other tasks' sleeps outlast or not, and
\* the task sleeps for the next interval, randomized by up to Jitter.
UpdaterRound(u) ==
  /\ LoopRuns
  /\ updater[u] = "started"
  /\ sleep[u] = 0
  /\ oid_updaters_enabled
  /\ \E e \in ExecTimes, j \in (-Jitter) .. Jitter :
       sleep' = [v \in Updaters |->
                   IF v = u
                   THEN IF NextUpdateInterval(e) + j < 0 THEN 0 ELSE NextUpdateInterval(e) + j
                   ELSE Minus(sleep[v], e)]
  /\ UNCHANGED <<mainVars, agentVars, socketVars, connVars, master, updater, drain>>

\* The task wakes up, finds its run_event cleared and returns.
UpdaterReturns(u) ==
  /\ LoopRuns
  /\ updater[u] = "started"
  /\ sleep[u] = 0
  /\ ~oid_updaters_enabled
  /\ updater' = [updater EXCEPT ![u] = "done"]
  /\ UNCHANGED <<mainVars, agentVars, socketVars, connVars, master, sleep, drain>>

\* A second passes while the loop is idle: no sleep or timeout that is counted
\* has run out unattended.
Tick ==
  /\ LoopRuns
  /\ \E u \in Updaters : updater[u] = "started"
  /\ \A u \in Updaters : updater[u] = "started" => sleep[u] > 0
  /\ agent = "draining" => drain > 0
  /\ sleep' = [u \in Updaters |-> Minus(sleep[u], 1)]
  /\ drain' = Minus(drain, 1)
  /\ UNCHANGED <<mainVars, agentVars, socketVars, connVars, master, updater>>

-----------------------------------------------------------------------------
(* Agent.run_in_event_loop and SocketManager.connection_loop.              *)

UpdatersDone == \A u \in Updaters : updater[u] = "done"

\* Up to the first await: the events are set, the background tasks created and
\* the first connection attempted.
AgentStarts ==
  /\ LoopRuns
  /\ agent = "start"
  /\ agent' = "connecting"
  /\ run_enabled' = TRUE
  /\ oid_updaters_enabled' = TRUE
  /\ stopped' = FALSE
  /\ updater' = [u \in Updaters |-> "started"]
  /\ UNCHANGED <<mainVars, socketVars, connVars, master, sleep, drain>>

\* The connection routine succeeds: the transport exists, but the coroutine
\* that awaits it has not been resumed.
ConnectionMade(c) ==
  /\ LoopRuns
  /\ agent = "connecting"
  /\ protocol = None
  /\ master = "up"
  /\ link[c] \in {"unused", "lost"} /\ handshake[c] # "armed"
  /\ protocol' = c
  /\ link' = [link EXCEPT ![c] = "open"]
  /\ peer' = [peer EXCEPT ![c] = TRUE]
  /\ handshake' = [handshake EXCEPT ![c] = "none"]
  /\ session' = [session EXCEPT ![c] = FALSE]
  /\ UNCHANGED <<mainVars, agentVars, transport, response, master, taskVars>>

\* Fault: the transport of the first connection is kept.
ConnectionReturned_KeepsTransport ==
  /\ LoopRuns
  /\ agent = "connecting"
  /\ protocol # None
  /\ agent' = "open"
  /\ transport' = IF transport = None THEN protocol ELSE transport
  /\ handshake' = [handshake EXCEPT ![protocol] = "armed"]
  /\ UNCHANGED <<mainVars, run_enabled, oid_updaters_enabled, stopped, protocol,
                 link, peer, response, session, master, taskVars>>

\* await connection_routine returns: the transport is remembered, the
\* handshake is primed and the coroutine waits for protocol.closed.
ConnectionReturned ==
  /\ LoopRuns
  /\ agent = "connecting"
  /\ protocol # None
  /\ agent' = "open"
  /\ transport' = protocol
  /\ handshake' = [handshake EXCEPT ![protocol] = "armed"]
  /\ UNCHANGED <<mainVars, run_enabled, oid_updaters_enabled, stopped, protocol,
                 link, peer, response, session, master, taskVars>>

\* await connection_routine raises OSError: sleep TRY_RETRY_INTERVAL.
ConnectionRefused ==
  /\ LoopRuns
  /\ agent = "connecting"
  /\ protocol = None
  /\ master = "down"
  /\ agent' = "retry"
  /\ UNCHANGED <<mainVars, run_enabled, oid_updaters_enabled, stopped, socketVars,
                 connVars, master, taskVars>>

\* Fault: `while True` in place of `while self.run_event.is_set()`.
LoopTop_IgnoresRunEvent ==
  /\ agent' = "connecting"
  /\ protocol' = None
  /\ UNCHANGED <<oid_updaters_enabled, drain>>

\* Fault: the background tasks are not signalled to halt.
LoopTop_KeepsUpdaters ==
  /\ IF run_enabled
     THEN /\ agent' = "connecting"
          /\ UNCHANGED drain
     ELSE /\ agent' = "draining"
          /\ drain' = BACKGROUND_WAIT_TIMEOUT
  /\ protocol' = None
  /\ UNCHANGED oid_updaters_enabled

\* The top of connection_loop: attempt a connection while run_event is set, or
\* return to run_in_event_loop, which signals the background tasks to halt and
\* waits for them.  (The outer loop of run_in_event_loop never turns twice:
\* nothing sets run_enabled again.)
LoopTop ==
  /\ IF run_enabled
     THEN /\ agent' = "connecting"
          /\ UNCHANGED <<oid_updaters_enabled, drain>>
     ELSE /\ agent' = "draining"
          /\ oid_updaters_enabled' = FALSE
          /\ drain' = BACKGROUND_WAIT_TIMEOUT
  /\ protocol' = None

\* Fault: the coroutine protocol.closed.wait() is not awaited.
ConnectionClosed_NotAwaited ==
  /\ LoopRuns
  /\ agent = "open"
  /\ LoopTop
  /\ UNCHANGED <<mainVars, run_enabled, stopped, transport, connVars, master, updater, sleep>>

\* await protocol.closed.wait() returns.
ConnectionClosed ==
  /\ LoopRuns
  /\ agent = "open"
  /\ link[protocol] = "lost"
  /\ LoopTop
  /\ UNCHANGED <<mainVars, run_enabled, stopped, transport, connVars, master, updater, sleep>>

\* asyncio.sleep(TRY_RETRY_INTERVAL) returns.
RetryExpires ==
  /\ LoopRuns
  /\ agent = "retry"
  /\ LoopTop
  /\ UNCHANGED <<mainVars, run_enabled, stopped, transport, connVars, master, updater, sleep>>

\* Fault: the background tasks are not waited for.
DrainEnds_NotAwaited ==
  /\ LoopRuns
  /\ agent = "draining"
  /\ agent' = "done"
  /\ stopped' = TRUE
  /\ UNCHANGED <<mainVars, run_enabled, oid_updaters_enabled, socketVars, connVars,
                 master, taskVars>>

\* wait_for(background_task) returns: every task is done.
DrainEnds ==
  /\ LoopRuns
  /\ agent = "draining"
  /\ UpdatersDone
  /\ agent' = "done"
  /\ stopped' = TRUE
  /\ UNCHANGED <<mainVars, run_enabled, oid_updaters_enabled, socketVars, connVars,
                 master, taskVars>>

\* wait_for(background_task) times out: it cancels the tasks and raises
\* TimeoutError out of run_in_event_loop.
DrainTimesOut ==
  /\ LoopRuns
  /\ agent = "draining"
  /\ drain = 0
  /\ ~UpdatersDone
  /\ agent' = "failed"
  /\ updater' = [u \in Updaters |-> "done"]
  /\ UNCHANGED <<mainVars, run_enabled, oid_updaters_enabled, stopped, socketVars,
                 connVars, master, sleep, drain>>

-----------------------------------------------------------------------------
(* main(), the signal handlers and Agent.shutdown.                         *)

\* A signal is delivered: its handler creates a task of agent.shutdown().
SignalArrives(s) ==
  /\ LoopRuns
  /\ agent # "start"
  /\ shutdown[s] = "none"
  /\ shutdown' = [shutdown EXCEPT ![s] = "created"]
  /\ shutdown_task' = s
  /\ UNCHANGED <<main, awaited, agentVars, socketVars, connVars, master, taskVars>>

\* SocketManager.close(): closes the transport it remembers, if there is one.
CloseSocket == link' = IF transport = None THEN link ELSE CloseLink(transport)

\* The task runs up to its await: run_enabled is cleared, the socket closed.
ShutdownRuns(s) ==
  /\ LoopRuns
  /\ shutdown[s] = "created"
  /\ shutdown' = [shutdown EXCEPT ![s] = "waiting"]
  /\ run_enabled' = FALSE
  /\ CloseSocket
  /\ UNCHANGED <<main, shutdown_task, awaited, agent, oid_updaters_enabled, stopped,
                 socketVars, peer, handshake, response, session, master, taskVars>>

\* await stopped.wait() returns.
ShutdownReturns(s) ==
  /\ LoopRuns
  /\ shutdown[s] = "waiting"
  /\ stopped
  /\ shutdown' = [shutdown EXCEPT ![s] = "done"]
  /\ UNCHANGED <<main, shutdown_task, awaited, agentVars, socketVars, connVars,
                 master, taskVars>>

\* run_until_complete(run_in_event_loop()) returns or raises: in both cases the
\* finally clause waits for the task of the last signal, if there was one.
AgentEnds ==
  /\ main = "running"
  /\ agent \in {"done", "failed"}
  /\ main' = IF shutdown_task = None THEN "exited" ELSE "finalizing"
  /\ awaited' = shutdown_task
  /\ UNCHANGED <<shutdown, shutdown_task, agentVars, socketVars, connVars, master, taskVars>>

\* run_until_complete(shutdown_task) returns: close the loop and exit.
MainExits ==
  /\ main = "finalizing"
  /\ shutdown[awaited] = "done"
  /\ main' = "exited"
  /\ UNCHANGED <<shutdown, shutdown_task, awaited, agentVars, socketVars, connVars,
                 master, taskVars>>

-----------------------------------------------------------------------------
\* The process is gone.
Exited == main = "exited" /\ UNCHANGED vars

Next ==
  \/ MasterStarts \/ MasterStops
  \/ \E c \in Connections :
       \/ MasterDrops(c)
       \/ \E error \in Answers : MasterAnswers(c, error)
       \/ OpeningHandshake(c)
       \/ DataReceived(c)
       \/ ConnectionLost(c)
       \/ ConnectionMade(c)
  \/ \E u \in Updaters : UpdaterRound(u) \/ UpdaterReturns(u)
  \/ Tick
  \/ AgentStarts \/ ConnectionReturned \/ ConnectionRefused
  \/ ConnectionClosed \/ RetryExpires \/ DrainEnds \/ DrainTimesOut
  \/ \E s \in Signals : SignalArrives(s) \/ ShutdownRuns(s) \/ ShutdownReturns(s)
  \/ AgentEnds \/ MainExits
  \/ Exited

Spec == Init /\ [][Next]_vars

\* The loop runs every callback that is ready, every timer that is due and every
\* I/O event, and time passes.  Signals and the master owe nothing.
Fairness ==
  /\ \A c \in Connections :
       /\ WF_vars(OpeningHandshake(c))
       /\ WF_vars(DataReceived(c))
       /\ WF_vars(ConnectionLost(c))
  /\ WF_vars(\E c \in Connections : ConnectionMade(c))
  /\ \A u \in Updaters : WF_vars(UpdaterRound(u)) /\ WF_vars(UpdaterReturns(u))
  /\ WF_vars(Tick)
  /\ WF_vars(AgentStarts) /\ WF_vars(ConnectionReturned) /\ WF_vars(ConnectionRefused)
  /\ WF_vars(ConnectionClosed) /\ WF_vars(RetryExpires)
  /\ WF_vars(DrainEnds) /\ WF_vars(DrainTimesOut)
  /\ \A s \in Signals : WF_vars(ShutdownRuns(s)) /\ WF_vars(ShutdownReturns(s))
  /\ WF_vars(AgentEnds) /\ WF_vars(MainExits)

FairSpec == Spec /\ Fairness

-----------------------------------------------------------------------------
(* Properties.                                                             *)

Live(c) == link[c] \in {"open", "closing"}

\* The process never holds two connections to the master: one is attempted only
\* after connection_lost was called for the one before (socket_io.py awaits
\* protocol.closed), whoever ended it and whatever a late timer does.
OneConnection ==
  \A c \in Connections : Live(c) => protocol = c /\ agent \in {"connecting", "open"}

\* An AgentX session that can still answer the master is the one of the
\* connection that SocketManager.close() would close: a session is not reachable
\* only through a transport the manager has not stored or has replaced.
SessionOnTransport ==
  \A c \in Connections : session[c] /\ Live(c) => transport = c /\ agent = "open"

\* The event that shutdown() waits for is a promise: once it is set no background
\* task is left, no connection is open and none will be attempted.
StoppedMeansQuiet ==
  stopped => /\ UpdatersDone
             /\ ~run_enabled
             /\ \A c \in Connections : ~Live(c)

\* When main() reaches its finally clause with a shutdown task to wait for, the
\* agent has set `stopped`: otherwise "make sure shutdown has completed" waits
\* for an event that nothing will ever set.
EndedAgentSignalsStopped ==
  main = "finalizing" => stopped

\* The process has been told to stop and its connection, if any, is going down.
Unwinding ==
  /\ ~run_enabled
  /\ \/ agent \in {"retry", "draining", "done"}
     \/ agent = "open" /\ link[protocol] # "open"

\* A shutdown that closed the connection, or found the agent between two
\* attempts, ends the process: through connection_lost, the halting of every
\* background task, `stopped`, and the task that main() waits for.
ShutdownTerminates == Unwinding ~> (main = "exited")

\* The same with updaters that sleep longer than the agent waits for them: the
\* shutdown gets through connection_loop and wait_for all the same, to the end of the
\* process or to the TimeoutError.
ShutdownEndsOrFails == Unwinding ~> (main = "exited" \/ agent = "failed")

\* Once the master stays up and drops no connection, the agent keeps coming back
\* to an open connection (after a parseError it closes the one it has and tries
\* again), until it is told to stop.
Reconnects ==
  <>[](master = "up" /\ \A c \in Connections : link[c] = "open" => peer[c]) =>
    []<>((agent = "open" /\ link[protocol] = "open") \/ ~run_enabled)

\* main.py registers its handlers so that a signal shuts the process down.
SignalLeadsToExit ==
  \A s \in Signals : (shutdown[s] # "none") ~> (main = "exited")

=============================================================================
