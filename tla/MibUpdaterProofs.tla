-------------------------- MODULE MibUpdaterProofs --------------------------
(***************************************************************************)
(* Theorems about MibUpdater, for every reinit rate.                       *)
(***************************************************************************)
EXTENDS MibUpdater, TLAPS

(* How many rounds an outage can have lasted, by the part of the round that *)
(* is next.  Every round of an outage but the first either counts towards   *)
(* the next reinit, and then update_counter has kept up with it, or is the  *)
(* one whose reinit reconnects.                                             *)
OutageInv ==
  /\ outage > 0 => redis_exception_happen
  /\ redis = "down" => ~connected
  /\ connected \/ redis = "down" => outage = 0
  /\ pc \in {"asleep", "reconnect"} => outage <= update_counter + 1
  /\ pc \in {"reconnect", "reinit"} => update_counter > ReinitRate
  /\ pc = "reinit" => outage = 0
  /\ pc = "update" => outage <= update_counter

IInv == TypeOK /\ OutageInv

(* The counter never passes the rate by more than one, whether the class    *)
(* reconnects or not.                                                       *)
THEOREM UpdaterTypeCorrect == Spec => []TypeOK
<1>1. Init => TypeOK
  <2> SUFFICES ASSUME Init
               PROVE  TypeOK
    OBVIOUS
  <2>1. connected \in BOOLEAN /\ redis_exception_happen \in BOOLEAN
    BY Zenon DEF Init
  <2> QED
    BY <2>1, UpdaterAssumption DEF Init, TypeOK
<1>2. TypeOK /\ [Next]_vars => TypeOK'
  <2> SUFFICES ASSUME TypeOK, [Next]_vars
               PROVE  TypeOK'
    OBVIOUS
  <2> USE UpdaterAssumption DEF TypeOK
  <2>1. connected' \in BOOLEAN /\ redis_exception_happen' \in BOOLEAN
    BY Zenon DEF Next, RedisStops, RedisStarts, Wake, Reconnect, ReconnectFails, Reinit, Update, RedisError, DataError, vars
  <2>2. CASE RedisStops \/ RedisStarts
    BY <2>1, <2>2 DEF RedisStops, RedisStarts
  <2>3. CASE Wake
    BY <2>1, <2>3 DEF Wake
  <2>4. CASE Reconnect
    BY <2>1, <2>4 DEF Reconnect
  <2>5. CASE ReconnectFails
    BY <2>1, <2>5 DEF ReconnectFails, EndRound
  <2>6. CASE Reinit
    BY <2>1, <2>6 DEF Reinit
  <2>7. CASE Update \/ RedisError \/ DataError
    BY <2>1, <2>7 DEF Update, RedisError, DataError, EndRound
  <2>8. CASE UNCHANGED vars
    BY <2>1, <2>8 DEF vars
  <2> QED
    BY <2>2, <2>3, <2>4, <2>5, <2>6, <2>7, <2>8 DEF Next
<1> QED
  BY <1>1, <1>2, PTL DEF Spec

LEMMA Invariance ==
  ASSUME Overrides
  PROVE  Spec => []IInv
<1>1. Init => IInv
  <2> SUFFICES ASSUME Init
               PROVE  IInv
    OBVIOUS
  <2>1. connected \in BOOLEAN /\ redis_exception_happen \in BOOLEAN
    BY Zenon DEF Init
  <2> QED
    BY <2>1, UpdaterAssumption DEF Init, IInv, TypeOK, OutageInv
<1>2. IInv /\ [Next]_vars => IInv'
  <2> SUFFICES ASSUME IInv, [Next]_vars
               PROVE  IInv'
    OBVIOUS
  <2> USE UpdaterAssumption DEF IInv, TypeOK, OutageInv
  <2>1. CASE RedisStops
    <3>1. connected' \in BOOLEAN
      BY <2>1, Zenon DEF RedisStops
    <3> QED
      BY <2>1, <3>1 DEF RedisStops
  <2>2. CASE RedisStarts
    BY <2>2 DEF RedisStarts
  <2>3. CASE Wake
    BY <2>3 DEF Wake
  <2>4. CASE Reconnect
    BY <2>4 DEF Reconnect
  <2>5. CASE ReconnectFails
    BY <2>5 DEF ReconnectFails, EndRound, OutageCap
  <2>6. CASE Reinit
    BY <2>6 DEF Reinit
  <2>7. CASE Update
    <3>1. redis_exception_happen' \in BOOLEAN
      BY <2>7, Zenon DEF Update
    <3> QED
      BY <2>7, <3>1 DEF Update, EndRound, OutageCap, Usable
  <2>8. CASE RedisError
    BY <2>8 DEF RedisError, EndRound, OutageCap, Usable
  <2>9. CASE DataError
    BY <2>9 DEF DataError, EndRound, OutageCap, Usable
  <2>10. CASE UNCHANGED vars
    BY <2>10 DEF vars
  <2> QED
    BY <2>1, <2>2, <2>3, <2>4, <2>5, <2>6, <2>7, <2>8, <2>9, <2>10 DEF Next
<1> QED
  BY <1>1, <1>2, PTL DEF Spec

(* An updater that overrides reinit_connection is without a connection for  *)
(* at most ReinitRate + 2 rounds after the server came back.                *)
THEOREM BoundedOutageHolds ==
  ASSUME Overrides
  PROVE  Spec => []BoundedOutage
<1>1. IInv => BoundedOutage
  BY UpdaterAssumption DEF IInv, TypeOK, OutageInv, BoundedOutage
<1> QED
  BY <1>1, Invariance, PTL

(* A round that failed on a dead connection is remembered until then.       *)
THEOREM OutageRememberedHolds ==
  ASSUME Overrides
  PROVE  Spec => []OutageRemembered
<1>1. IInv => OutageRemembered
  BY DEF IInv, OutageInv, OutageRemembered
<1> QED
  BY <1>1, Invariance, PTL

=============================================================================
