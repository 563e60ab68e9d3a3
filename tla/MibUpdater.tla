----------------------------- MODULE MibUpdater -----------------------------
(***************************************************************************)
(* The loop of MIBUpdater.start for one updater and its connection to the  *)
(* Redis databases: when it reinitializes, when it reconnects, and which   *)
(* exceptions it survives.  The Redis server is another process, which may *)
(* stop and start between any two accesses; a connection made to a server  *)
(* that has since stopped raises RuntimeError on every access.             *)
(*                                                                         *)
(* One turn of the loop is a round.  A round is split where it touches     *)
(* Redis, since the server may stop in between.                            *)
(***************************************************************************)
EXTENDS Naturals

CONSTANTS
  ReinitRate,    \* reinit_rate: DEFAULT_REINIT_RATE // DEFAULT_UPDATE_FREQUENCY
  Overrides      \* whether the class overrides reinit_connection

ASSUME UpdaterAssumption ==
  /\ ReinitRate \in Nat
  /\ Overrides \in BOOLEAN

VARIABLES
  redis,                   \* the server: "up" or "down"
  connected,               \* whether db_conn is a connection to this run of the server
  pc,                      \* the part of start() that runs next
  update_counter,          \* rounds since the last reinit
  redis_exception_happen,  \* a RuntimeError since the last good update_data
  outage                   \* rounds ended while the server was up and db_conn dead

vars == <<redis, connected, pc, update_counter, redis_exception_happen, outage>>

TypeOK ==
  /\ redis \in {"up", "down"}
  /\ connected \in BOOLEAN
  /\ pc \in {"asleep", "reconnect", "reinit", "update"}
  /\ update_counter \in 0 .. ReinitRate + 1
  /\ redis_exception_happen \in BOOLEAN
  /\ outage \in Nat

\* The constructor connects; update_counter starts past the rate, so that the
\* first round reinitializes.
Init ==
  /\ redis = "up"
  /\ connected = TRUE
  /\ pc = "asleep"
  /\ update_counter = ReinitRate + 1
  /\ redis_exception_happen = FALSE
  /\ outage = 0

Usable == redis = "up" /\ connected

-----------------------------------------------------------------------------
(* The Redis server.                                                       *)

RedisStops ==
  /\ redis = "up"
  /\ redis' = "down"
  /\ connected' = FALSE
  /\ outage' = 0
  /\ UNCHANGED <<pc, update_counter, redis_exception_happen>>

RedisStarts ==
  /\ redis = "down"
  /\ redis' = "up"
  /\ UNCHANGED <<connected, pc, update_counter, redis_exception_happen, outage>>

-----------------------------------------------------------------------------
(* The parts of a round.                                                   *)

\* Where the count of an outage stops: past every bound that is claimed of it.
OutageCap == ReinitRate + 3

\* The round ends: asyncio.sleep.
EndRound ==
  /\ pc' = "asleep"
  /\ outage' = IF redis = "up" /\ ~connected /\ outage < OutageCap
               THEN outage + 1 ELSE outage

\* Fault: reconnect on a reinit only if the LAST round failed in reinit_data.
Wake_ForgetsException ==
  /\ pc = "asleep"
  /\ IF update_counter > ReinitRate
     THEN /\ pc' = "reinit"
          /\ UNCHANGED update_counter
     ELSE /\ pc' = "update"
          /\ update_counter' = update_counter + 1
  /\ UNCHANGED <<redis, connected, redis_exception_happen, outage>>

\* The sleep is over: reinitialize when update_counter has passed the rate,
\* reconnecting first after a redis exception; otherwise count the round.
Wake ==
  /\ pc = "asleep"
  /\ IF update_counter > ReinitRate
     THEN /\ pc' = IF redis_exception_happen THEN "reconnect" ELSE "reinit"
          /\ UNCHANGED update_counter
     ELSE /\ pc' = "update"
          /\ update_counter' = update_counter + 1
  /\ UNCHANGED <<redis, connected, redis_exception_happen, outage>>

\* reinit_connection(): the base class does nothing; an override connects to
\* every database again.
Reconnect ==
  /\ pc = "reconnect"
  /\ Overrides => redis = "up"
  /\ pc' = "reinit"
  /\ connected' = IF Overrides THEN TRUE ELSE connected
  /\ outage' = IF Overrides THEN 0 ELSE outage
  /\ UNCHANGED <<redis, update_counter, redis_exception_happen>>

\* The server refuses the connection: RuntimeError.
ReconnectFails ==
  /\ pc = "reconnect"
  /\ Overrides
  /\ redis = "down"
  /\ redis_exception_happen' = TRUE
  /\ EndRound
  /\ UNCHANGED <<redis, connected, update_counter>>

\* Fault: a round that reinitializes counts itself instead of resetting.
Reinit_DoesNotReset ==
  /\ pc = "reinit"
  /\ pc' = "update"
  /\ update_counter' = update_counter + 1
  /\ UNCHANGED <<redis, connected, redis_exception_happen, outage>>

\* reinit_data() returns: update_counter starts again.  Not every reinit_data
\* reads the databases, so it may return on a dead connection.
Reinit ==
  /\ pc = "reinit"
  /\ pc' = "update"
  /\ update_counter' = 0
  /\ UNCHANGED <<redis, connected, redis_exception_happen, outage>>

\* update_data() returns.
Update ==
  /\ pc = "update"
  /\ Usable
  /\ redis_exception_happen' = FALSE
  /\ EndRound
  /\ UNCHANGED <<redis, connected, update_counter>>

\* Fault: a RuntimeError is logged like any other exception.
RedisError_OnlyLogged ==
  /\ pc \in {"reinit", "update"}
  /\ ~Usable
  /\ EndRound
  /\ UNCHANGED <<redis, connected, update_counter, redis_exception_happen>>

\* reinit_data() or update_data() finds the connection dead: RuntimeError.
RedisError ==
  /\ pc \in {"reinit", "update"}
  /\ ~Usable
  /\ redis_exception_happen' = TRUE
  /\ EndRound
  /\ UNCHANGED <<redis, connected, update_counter>>

\* reinit_data() or update_data() trips over what it read: any other exception.
DataError ==
  /\ pc \in {"reinit", "update"}
  /\ Usable
  /\ EndRound
  /\ UNCHANGED <<redis, connected, update_counter, redis_exception_happen>>

Next ==
  \/ RedisStops \/ RedisStarts
  \/ Wake \/ Reconnect \/ ReconnectFails \/ Reinit \/ Update
  \/ RedisError \/ DataError

Spec == Init /\ [][Next]_vars

Round == Wake \/ Reconnect \/ ReconnectFails \/ Reinit \/ Update \/ RedisError \/ DataError

\* The event loop resumes the task; the server owes nothing.
FairSpec == Spec /\ WF_vars(Round)

-----------------------------------------------------------------------------
(* Properties.                                                             *)

\* After a restart of the server the updater is without a connection for at most
\* ReinitRate + 2 rounds: the rounds until update_counter passes the rate, the
\* one that reset it, and the one that notices.
BoundedOutage == outage <= ReinitRate + 2

\* A round that failed on a dead connection is not forgotten before the updater
\* has reconnected: the flag survives every later exception.
OutageRemembered == outage > 0 => redis_exception_happen

\* Once the server stays up, the updater ends with a live connection for good.
Recovers == <>[](redis = "up") => <>[]connected

=============================================================================
