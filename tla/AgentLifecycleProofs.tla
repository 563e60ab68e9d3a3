------------------------ MODULE AgentLifecycleProofs ------------------------
(***************************************************************************)
(* Theorems about AgentLifecycle, for any sets of updaters, connections    *)
(* and signals and any delays.                                             *)
(***************************************************************************)
EXTENDS AgentLifecycle, TLAPS

-----------------------------------------------------------------------------
(* Every variable keeps its type, whatever the master, the signals and the *)
(* clock do.                                                               *)
THEOREM TypeCorrect == Spec => []TypeOK
<1>1. Init => TypeOK
  <2> SUFFICES ASSUME Init PROVE TypeOK
    OBVIOUS
  <2>1. /\ peer \in [Connections -> BOOLEAN]
        /\ session \in [Connections -> BOOLEAN]
    BY Zenon DEF Init
  <2> QED
    BY <2>1 DEF Init, TypeOK
<1>2. TypeOK /\ [Next]_vars => TypeOK'
  <2> SUFFICES ASSUME TypeOK, [Next]_vars
               PROVE  TypeOK'
    OBVIOUS
  <2> USE ConstantsAssumption DEF TypeOK, Answers,
          vars, mainVars, agentVars, socketVars, connVars, taskVars
  <2>1. CASE MasterStarts
    BY <2>1 DEF MasterStarts
  <2>2. CASE MasterStops
    BY <2>2 DEF MasterStops
  <2>3. ASSUME NEW c \in Connections, MasterDrops(c)
        PROVE  TypeOK'
    BY <2>3 DEF MasterDrops
  <2>4. ASSUME NEW c \in Connections, NEW error \in Answers, MasterAnswers(c, error)
        PROVE  TypeOK'
    BY <2>4 DEF MasterAnswers
  <2>5. ASSUME NEW c \in Connections, OpeningHandshake(c)
        PROVE  TypeOK'
    BY <2>5 DEF OpeningHandshake
  <2>6. ASSUME NEW c \in Connections, DataReceived(c)
        PROVE  TypeOK'
    BY <2>6 DEF DataReceived, ParseResponse, CloseLink
  <2>7. ASSUME NEW c \in Connections, ConnectionLost(c)
        PROVE  TypeOK'
    BY <2>7 DEF ConnectionLost
  <2>8. ASSUME NEW c \in Connections, ConnectionMade(c)
        PROVE  TypeOK'
    BY <2>8 DEF ConnectionMade
  <2>9. ASSUME NEW u \in Updaters, UpdaterRound(u)
        PROVE  TypeOK'
    BY <2>9 DEF UpdaterRound, NextUpdateInterval, Minus
  <2>10. ASSUME NEW u \in Updaters, UpdaterReturns(u)
        PROVE  TypeOK'
    BY <2>10 DEF UpdaterReturns
  <2>11. CASE Tick
    BY <2>11 DEF Tick, Minus
  <2>12. CASE AgentStarts
    BY <2>12 DEF AgentStarts
  <2>13. CASE ConnectionReturned
    BY <2>13 DEF ConnectionReturned
  <2>14. CASE ConnectionRefused
    BY <2>14 DEF ConnectionRefused
  <2>15. CASE ConnectionClosed
    BY <2>15 DEF ConnectionClosed, LoopTop
  <2>16. CASE RetryExpires
    BY <2>16 DEF RetryExpires, LoopTop
  <2>17. CASE DrainEnds
    BY <2>17 DEF DrainEnds
  <2>18. CASE DrainTimesOut
    BY <2>18 DEF DrainTimesOut
  <2>19. ASSUME NEW s \in Signals, SignalArrives(s)
        PROVE  TypeOK'
    BY <2>19 DEF SignalArrives
  <2>20. ASSUME NEW s \in Signals, ShutdownRuns(s)
        PROVE  TypeOK'
    <3>1. link' \in [Connections -> {"unused", "open", "closing", "lost"}]
      BY <2>20 DEF ShutdownRuns, CloseSocket, CloseLink
    <3>2. shutdown' \in [Signals -> {"none", "created", "waiting", "done"}]
      BY <2>20 DEF ShutdownRuns
    <3>3. /\ run_enabled' \in BOOLEAN
          /\ UNCHANGED <<main, shutdown_task, awaited, agent, oid_updaters_enabled, stopped,
                         transport, protocol, peer, handshake, response, session, master,
                         updater, sleep, drain>>
      BY <2>20 DEF ShutdownRuns
    <3> QED
      BY <3>1, <3>2, <3>3
  <2>21. ASSUME NEW s \in Signals, ShutdownReturns(s)
        PROVE  TypeOK'
    BY <2>21 DEF ShutdownReturns
  <2>22. CASE AgentEnds
    BY <2>22 DEF AgentEnds
  <2>23. CASE MainExits
    BY <2>23 DEF MainExits
  <2>24. CASE Exited
    BY <2>24 DEF Exited
  <2>25. CASE UNCHANGED vars
    BY <2>25
  <2> QED
    BY <2>1, <2>2, <2>3, <2>4, <2>5, <2>6, <2>7, <2>8, <2>9, <2>10, <2>11, <2>12, <2>13, <2>14, <2>15, <2>16, <2>17, <2>18, <2>19, <2>20, <2>21, <2>22, <2>23, <2>24, <2>25 DEF Next
<1> QED
  BY <1>1, <1>2, PTL DEF Spec

-----------------------------------------------------------------------------
(* The connection a coroutine of the agent holds.  A connection is live    *)
(* only while connection_loop is awaiting it, before its transport is      *)
(* stored nothing has been said on it, and a connection that is not live   *)
(* has no other end and no message on its way.                             *)
ConnectionInv ==
  /\ OneConnection
  /\ agent = "open" => protocol # None /\ transport = protocol
  /\ agent \notin {"connecting", "open"} => protocol = None
  /\ \A c \in Connections :
       /\ ~Live(c) => ~peer[c] /\ response[c] = "none"
       /\ Live(c) /\ agent = "connecting" =>
            handshake[c] = "none" /\ response[c] = "none" /\ ~session[c]

LEMMA ConnectionInvariant == Spec => []ConnectionInv
<1>1. Init => ConnectionInv
  BY DEF Init, ConnectionInv, OneConnection, Live
<1>2. TypeOK /\ ConnectionInv /\ [Next]_vars => ConnectionInv'
  <2> SUFFICES ASSUME TypeOK, ConnectionInv, [Next]_vars
               PROVE  ConnectionInv'
    OBVIOUS
  <2> USE ConstantsAssumption DEF ConnectionInv, OneConnection, Live, TypeOK, Answers,
          vars, mainVars, agentVars, socketVars, connVars, taskVars
  <2>1. CASE MasterStarts
    BY <2>1 DEF MasterStarts
  <2>2. CASE MasterStops
    BY <2>2 DEF MasterStops
  <2>3. ASSUME NEW c \in Connections, MasterDrops(c)
        PROVE  ConnectionInv'
    BY <2>3 DEF MasterDrops
  <2>4. ASSUME NEW c \in Connections, NEW error \in Answers, MasterAnswers(c, error)
        PROVE  ConnectionInv'
    BY <2>4 DEF MasterAnswers
  <2>5. ASSUME NEW c \in Connections, OpeningHandshake(c)
        PROVE  ConnectionInv'
    BY <2>5 DEF OpeningHandshake
  <2>6. ASSUME NEW c \in Connections, DataReceived(c)
        PROVE  ConnectionInv'
    BY <2>6 DEF DataReceived, ParseResponse, CloseLink
  <2>7. ASSUME NEW c \in Connections, ConnectionLost(c)
        PROVE  ConnectionInv'
    BY <2>7 DEF ConnectionLost
  <2>8. ASSUME NEW c \in Connections, ConnectionMade(c)
        PROVE  ConnectionInv'
    BY <2>8 DEF ConnectionMade
  <2>9. ASSUME NEW u \in Updaters, UpdaterRound(u)
        PROVE  ConnectionInv'
    BY <2>9 DEF UpdaterRound, NextUpdateInterval, Minus
  <2>10. ASSUME NEW u \in Updaters, UpdaterReturns(u)
        PROVE  ConnectionInv'
    BY <2>10 DEF UpdaterReturns
  <2>11. CASE Tick
    BY <2>11 DEF Tick, Minus
  <2>12. CASE AgentStarts
    BY <2>12 DEF AgentStarts
  <2>13. CASE ConnectionReturned
    BY <2>13 DEF ConnectionReturned
  <2>14. CASE ConnectionRefused
    BY <2>14 DEF ConnectionRefused
  <2>15. CASE ConnectionClosed
    BY <2>15 DEF ConnectionClosed, LoopTop
  <2>16. CASE RetryExpires
    BY <2>16 DEF RetryExpires, LoopTop
  <2>17. CASE DrainEnds
    BY <2>17 DEF DrainEnds
  <2>18. CASE DrainTimesOut
    BY <2>18 DEF DrainTimesOut
  <2>19. ASSUME NEW s \in Signals, SignalArrives(s)
        PROVE  ConnectionInv'
    BY <2>19 DEF SignalArrives
  <2>20. ASSUME NEW s \in Signals, ShutdownRuns(s)
        PROVE  ConnectionInv'
    BY <2>20 DEF ShutdownRuns, CloseSocket, CloseLink
  <2>21. ASSUME NEW s \in Signals, ShutdownReturns(s)
        PROVE  ConnectionInv'
    BY <2>21 DEF ShutdownReturns
  <2>22. CASE AgentEnds
    BY <2>22 DEF AgentEnds
  <2>23. CASE MainExits
    BY <2>23 DEF MainExits
  <2>24. CASE Exited
    BY <2>24 DEF Exited
  <2>25. CASE UNCHANGED vars
    BY <2>25
  <2> QED
    BY <2>1, <2>2, <2>3, <2>4, <2>5, <2>6, <2>7, <2>8, <2>9, <2>10, <2>11, <2>12, <2>13, <2>14, <2>15, <2>16, <2>17, <2>18, <2>19, <2>20, <2>21, <2>22, <2>23, <2>24, <2>25 DEF Next
<1> QED
  BY <1>1, <1>2, TypeCorrect, PTL DEF Spec

(* There is never more than one connection, and connection_loop is waiting *)
(* for it.                                                                 *)
THEOREM OneConnectionHolds == Spec => []OneConnection
<1>1. ConnectionInv => OneConnection
  BY DEF ConnectionInv
<1> QED
  BY <1>1, ConnectionInvariant, PTL

(* A session that can answer belongs to the transport that close() closes. *)
THEOREM SessionOnTransportHolds == Spec => []SessionOnTransport
<1>1. TypeOK /\ ConnectionInv => SessionOnTransport
  BY DEF TypeOK, ConnectionInv, OneConnection, SessionOnTransport
<1> QED
  BY <1>1, TypeCorrect, ConnectionInvariant, PTL

-----------------------------------------------------------------------------
(* The order of the shutdown: past connection_loop the agent is disabled   *)
(* and its background tasks are signalled, and `stopped` is set only when  *)
(* all of them have returned.                                              *)
HaltInv ==
  /\ agent \in {"draining", "done", "failed"} => ~run_enabled /\ ~oid_updaters_enabled
  /\ stopped => agent = "done" /\ UpdatersDone
  /\ agent = "done" => stopped
  /\ main # "running" => agent \in {"done", "failed"}
  /\ agent # "start" => \A u \in Updaters : updater[u] # "new"

LEMMA HaltInvariant == Spec => []HaltInv
<1>1. Init => HaltInv
  BY DEF Init, HaltInv
<1>2. TypeOK /\ HaltInv /\ [Next]_vars => HaltInv'
  <2> SUFFICES ASSUME TypeOK, HaltInv, [Next]_vars
               PROVE  HaltInv'
    OBVIOUS
  <2> USE DEF HaltInv, UpdatersDone, TypeOK,
          vars, mainVars, agentVars, socketVars, connVars, taskVars
  <2>1. CASE MasterStarts
    BY <2>1 DEF MasterStarts
  <2>2. CASE MasterStops
    BY <2>2 DEF MasterStops
  <2>3. ASSUME NEW c \in Connections, MasterDrops(c)
        PROVE  HaltInv'
    BY <2>3 DEF MasterDrops
  <2>4. ASSUME NEW c \in Connections, NEW error \in Answers, MasterAnswers(c, error)
        PROVE  HaltInv'
    BY <2>4 DEF MasterAnswers
  <2>5. ASSUME NEW c \in Connections, OpeningHandshake(c)
        PROVE  HaltInv'
    BY <2>5 DEF OpeningHandshake
  <2>6. ASSUME NEW c \in Connections, DataReceived(c)
        PROVE  HaltInv'
    BY <2>6 DEF DataReceived, ParseResponse, CloseLink
  <2>7. ASSUME NEW c \in Connections, ConnectionLost(c)
        PROVE  HaltInv'
    BY <2>7 DEF ConnectionLost
  <2>8. ASSUME NEW c \in Connections, ConnectionMade(c)
        PROVE  HaltInv'
    BY <2>8 DEF ConnectionMade
  <2>9. ASSUME NEW u \in Updaters, UpdaterRound(u)
        PROVE  HaltInv'
    BY <2>9 DEF UpdaterRound, NextUpdateInterval, Minus
  <2>10. ASSUME NEW u \in Updaters, UpdaterReturns(u)
        PROVE  HaltInv'
    BY <2>10 DEF UpdaterReturns
  <2>11. CASE Tick
    BY <2>11 DEF Tick, Minus
  <2>12. CASE AgentStarts
    BY <2>12 DEF AgentStarts
  <2>13. CASE ConnectionReturned
    BY <2>13 DEF ConnectionReturned
  <2>14. CASE ConnectionRefused
    BY <2>14 DEF ConnectionRefused
  <2>15. CASE ConnectionClosed
    BY <2>15 DEF ConnectionClosed, LoopTop
  <2>16. CASE RetryExpires
    BY <2>16 DEF RetryExpires, LoopTop
  <2>17. CASE DrainEnds
    BY <2>17 DEF DrainEnds
  <2>18. CASE DrainTimesOut
    BY <2>18 DEF DrainTimesOut
  <2>19. ASSUME NEW s \in Signals, SignalArrives(s)
        PROVE  HaltInv'
    BY <2>19 DEF SignalArrives
  <2>20. ASSUME NEW s \in Signals, ShutdownRuns(s)
        PROVE  HaltInv'
    BY <2>20 DEF ShutdownRuns, CloseSocket, CloseLink
  <2>21. ASSUME NEW s \in Signals, ShutdownReturns(s)
        PROVE  HaltInv'
    BY <2>21 DEF ShutdownReturns
  <2>22. CASE AgentEnds
    BY <2>22 DEF AgentEnds
  <2>23. CASE MainExits
    BY <2>23 DEF MainExits
  <2>24. CASE Exited
    BY <2>24 DEF Exited
  <2>25. CASE UNCHANGED vars
    BY <2>25
  <2> QED
    BY <2>1, <2>2, <2>3, <2>4, <2>5, <2>6, <2>7, <2>8, <2>9, <2>10, <2>11, <2>12, <2>13, <2>14, <2>15, <2>16, <2>17, <2>18, <2>19, <2>20, <2>21, <2>22, <2>23, <2>24, <2>25 DEF Next
<1> QED
  BY <1>1, <1>2, TypeCorrect, PTL DEF Spec

(* Once `stopped` is set, no background task is left, no connection is     *)
(* open and none will be attempted.                                        *)
THEOREM StoppedMeansQuietHolds == Spec => []StoppedMeansQuiet
<1>1. ConnectionInv /\ HaltInv => StoppedMeansQuiet
  BY DEF ConnectionInv, OneConnection, HaltInv, StoppedMeansQuiet
<1> QED
  BY <1>1, ConnectionInvariant, HaltInvariant, PTL

-----------------------------------------------------------------------------
(* With a fixed frequency, an updater sleeps at most Frequency + Jitter    *)
(* seconds.  If that is less than BACKGROUND_WAIT_TIMEOUT, every task that *)
(* is still asleep while the agent waits wakes up before the wait ends.    *)
DrainInv ==
  /\ \A u \in Updaters : sleep[u] <= Frequency + Jitter
  /\ agent = "draining" =>
       \A u \in Updaters : updater[u] = "started" => sleep[u] < drain
  /\ agent # "failed"

LEMMA DrainInvariant ==
  ASSUME ~DynamicFrequency, Frequency + Jitter < BACKGROUND_WAIT_TIMEOUT
  PROVE  Spec => []DrainInv
<1>1. Init => DrainInv
  BY ConstantsAssumption DEF Init, DrainInv
<1>2. TypeOK /\ HaltInv /\ DrainInv /\ [Next]_vars => DrainInv'
  <2> SUFFICES ASSUME TypeOK, HaltInv, DrainInv, [Next]_vars
               PROVE  DrainInv'
    OBVIOUS
  <2> USE ConstantsAssumption DEF DrainInv, HaltInv, TypeOK,
          vars, mainVars, agentVars, socketVars, connVars, taskVars
  <2>1. CASE MasterStarts
    BY <2>1 DEF MasterStarts
  <2>2. CASE MasterStops
    BY <2>2 DEF MasterStops
  <2>3. ASSUME NEW c \in Connections, MasterDrops(c)
        PROVE  DrainInv'
    BY <2>3 DEF MasterDrops
  <2>4. ASSUME NEW c \in Connections, NEW error \in Answers, MasterAnswers(c, error)
        PROVE  DrainInv'
    BY <2>4 DEF MasterAnswers
  <2>5. ASSUME NEW c \in Connections, OpeningHandshake(c)
        PROVE  DrainInv'
    BY <2>5 DEF OpeningHandshake
  <2>6. ASSUME NEW c \in Connections, DataReceived(c)
        PROVE  DrainInv'
    BY <2>6 DEF DataReceived, ParseResponse, CloseLink
  <2>7. ASSUME NEW c \in Connections, ConnectionLost(c)
        PROVE  DrainInv'
    BY <2>7 DEF ConnectionLost
  <2>8. ASSUME NEW c \in Connections, ConnectionMade(c)
        PROVE  DrainInv'
    BY <2>8 DEF ConnectionMade
  <2>9. ASSUME NEW u \in Updaters, UpdaterRound(u)
        PROVE  DrainInv'
    BY <2>9 DEF UpdaterRound, NextUpdateInterval, Minus
  <2>10. ASSUME NEW u \in Updaters, UpdaterReturns(u)
        PROVE  DrainInv'
    BY <2>10 DEF UpdaterReturns
  <2>11. CASE Tick
    BY <2>11 DEF Tick, Minus
  <2>12. CASE AgentStarts
    BY <2>12 DEF AgentStarts
  <2>13. CASE ConnectionReturned
    BY <2>13 DEF ConnectionReturned
  <2>14. CASE ConnectionRefused
    BY <2>14 DEF ConnectionRefused
  <2>15. CASE ConnectionClosed
    BY <2>15 DEF ConnectionClosed, LoopTop
  <2>16. CASE RetryExpires
    BY <2>16 DEF RetryExpires, LoopTop
  <2>17. CASE DrainEnds
    BY <2>17 DEF DrainEnds
  <2>18. CASE DrainTimesOut
    BY <2>18 DEF DrainTimesOut, UpdatersDone
  <2>19. ASSUME NEW s \in Signals, SignalArrives(s)
        PROVE  DrainInv'
    BY <2>19 DEF SignalArrives
  <2>20. ASSUME NEW s \in Signals, ShutdownRuns(s)
        PROVE  DrainInv'
    BY <2>20 DEF ShutdownRuns, CloseSocket, CloseLink
  <2>21. ASSUME NEW s \in Signals, ShutdownReturns(s)
        PROVE  DrainInv'
    BY <2>21 DEF ShutdownReturns
  <2>22. CASE AgentEnds
    BY <2>22 DEF AgentEnds
  <2>23. CASE MainExits
    BY <2>23 DEF MainExits
  <2>24. CASE Exited
    BY <2>24 DEF Exited
  <2>25. CASE UNCHANGED vars
    BY <2>25
  <2> QED
    BY <2>1, <2>2, <2>3, <2>4, <2>5, <2>6, <2>7, <2>8, <2>9, <2>10, <2>11, <2>12, <2>13, <2>14, <2>15, <2>16, <2>17, <2>18, <2>19, <2>20, <2>21, <2>22, <2>23, <2>24, <2>25 DEF Next
<1> QED
  BY <1>1, <1>2, TypeCorrect, HaltInvariant, PTL DEF Spec

(* With a fixed frequency and Frequency + Jitter under the timeout, main() *)
(* never waits in its finally clause for an event that is not set.         *)
THEOREM EndedAgentSignalsStoppedHolds ==
  ASSUME ~DynamicFrequency, Frequency + Jitter < BACKGROUND_WAIT_TIMEOUT
  PROVE  Spec => []EndedAgentSignalsStopped
<1>1. HaltInv /\ DrainInv => EndedAgentSignalsStopped
  BY DEF HaltInv, DrainInv, EndedAgentSignalsStopped
<1> QED
  BY <1>1, HaltInvariant, DrainInvariant, PTL

=============================================================================
