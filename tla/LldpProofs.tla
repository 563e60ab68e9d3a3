----------------------------- MODULE LldpProofs -----------------------------
(***************************************************************************)
(* Theorems about Lldp, for any interfaces, neighbours and descriptions,   *)
(* any sets of updaters and any number of changes and exceptions.          *)
(***************************************************************************)
EXTENDS Lldp, FiniteSetTheorems, SequenceTheorems, TLAPS

-----------------------------------------------------------------------------
(* The types that the theorems need, and what keeps them.                  *)
DataOK ==
  /\ entry \in [Ports -> Neighbours \cup {None}]
  /\ port_table \in [Ports -> Descriptions \cup {None}]
  /\ oid_name_map \in [Updaters -> SUBSET Ports]

QueuesOK ==
  /\ DOMAIN pubsub = Subscribers
  /\ \A u \in Subscribers : pubsub[u] # None => pubsub[u] \in Seq(Message)
  /\ batch \in Seq(Message)
  /\ todo \subseteq Ports

LEMMA SubscribersFacts == Subscribers \subseteq Updaters /\ {"loc_port", "rem_man_addr"} \subseteq Subscribers
BY DEF Subscribers, Updaters

(* A known interface is not Unindexed; its messages are messages.          *)
LEMMA MessageFacts ==
  /\ Unindexed \notin Ports
  /\ [port |-> Unindexed, event |-> "set"] \in Message
  /\ \A p \in Ports : \A ev \in {"set", "del"} : [port |-> p, event |-> ev] \in Message
  /\ \A m \in Message : m.port \in Ports \cup {Unindexed} /\ m.event \in {"set", "del"}
                        /\ m = [port |-> m.port, event |-> m.event]
<1>1. Unindexed \notin Ports
  BY LldpAssumption
<1>2. ASSUME NEW p \in Ports \cup {Unindexed}, NEW ev \in {"set", "del"}
      PROVE  [port |-> p, event |-> ev] \in Message
  BY DEF Message
<1>3. ASSUME NEW m \in Message
      PROVE  /\ m.port \in Ports \cup {Unindexed} /\ m.event \in {"set", "del"}
             /\ m = [port |-> m.port, event |-> m.event]
  BY DEF Message
<1> QED
  BY <1>1, <1>2, <1>3

LEMMA DataInit == Init => DataOK
BY DEF Init, DataOK, Empty

LEMMA DataStep == DataOK /\ [Next]_vars => DataOK'
<1> SUFFICES ASSUME DataOK, [Next]_vars PROVE DataOK'
  OBVIOUS
<1>1. ASSUME NEW p \in Ports, NEW n \in Neighbours \cup {None}, EntryChanges(p, n) PROVE DataOK'
  BY <1>1 DEF DataOK, EntryChanges, updaterVars
<1>2. ASSUME NEW p \in Ports, NEW d \in Descriptions \cup {None}, PortChanges(p, d) PROVE DataOK'
  BY <1>2 DEF DataOK, PortChanges, updaterVars
<1>3. ASSUME NEW u \in Updaters, WakeReinit(u) PROVE DataOK'
  BY <1>3 DEF DataOK, WakeReinit, redisVars
<1>4. CASE UNCHANGED <<entry, port_table, oid_name_map>>
  BY <1>4 DEF DataOK
<1>5. UnindexedChanges => UNCHANGED <<entry, port_table, oid_name_map>>
  BY DEF UnindexedChanges, updaterVars
<1>6. Round => UNCHANGED <<entry, port_table, oid_name_map>>
  BY DEF Round, redisVars, Subscribe, LocClear, LocReinit, LocReinitEnds, LocPoll, LocPollEnds, RemClear, RemRead,
         RemSort, ManClear, ManReinit, ManReinitEnds, GetLatestNotification, ManHandle, ManEnds
<1>7. Raises => UNCHANGED <<entry, port_table, oid_name_map>>
  BY DEF Raises, Fault, RemFault, redisVars
<1>8. \A u \in Updaters : Wake(u) => UNCHANGED <<entry, port_table, oid_name_map>>
  BY DEF Wake, redisVars
<1>9. UNCHANGED vars => UNCHANGED <<entry, port_table, oid_name_map>>
  BY DEF vars, redisVars
<1> QED
  BY <1>1, <1>2, <1>3, <1>4, <1>5, <1>6, <1>7, <1>8, <1>9, Zenon DEF Next, Redis

-----------------------------------------------------------------------------
(* What Append, Tail and SubSeq do to the messages of an interface.        *)
Mentions(q, p) == \E i \in DOMAIN q : q[i].port = p

LEMMA AppendMessages ==
  ASSUME NEW q \in Seq(Message), NEW m \in Message, NEW p \in Ports
  PROVE  /\ Append(q, m) \in Seq(Message)
         /\ Mentions(Append(q, m), p) <=> Mentions(q, p) \/ m.port = p
         /\ \A ev : m.port # p /\ Latest(q, p, ev) => Latest(Append(q, m), p, ev)
         /\ \A ev : m = [port |-> p, event |-> ev] => Latest(Append(q, m), p, ev)
<1> DEFINE r == Append(q, m)
           n == Len(q)
<1>1. /\ r \in Seq(Message) /\ n \in Nat
      /\ DOMAIN q = 1 .. n /\ DOMAIN r = 1 .. n + 1
      /\ \A i \in 1 .. n : r[i] = q[i]
      /\ r[n + 1] = m
  BY AppendProperties, LenProperties
<1> HIDE DEF r, n
<1>2. Mentions(r, p) <=> Mentions(q, p) \/ m.port = p
  BY <1>1 DEF Mentions
<1>3. ASSUME NEW ev, m.port # p, Latest(q, p, ev) PROVE Latest(r, p, ev)
  BY <1>1, <1>3 DEF Latest
<1>4. ASSUME NEW ev, m = [port |-> p, event |-> ev] PROVE Latest(r, p, ev)
  BY <1>1, <1>4 DEF Latest
<1> QED
  BY <1>1, <1>2, <1>3, <1>4 DEF r

(* get_latest_notification takes the first k messages and throws away the   *)
(* one after them: what is told of an interface is in the batch or waits,   *)
(* and the latest message of it is the latest of that part.                 *)
LEMMA TakeMessages ==
  ASSUME NEW q \in Seq(Message), NEW k \in 0 .. Len(q), Indexed(q, k), NEW p \in Ports
  PROVE  LET head == SubSeq(q, 1, k)
             rest == SubSeq(q, k + 2, Len(q))
         IN  /\ head \in Seq(Message) /\ rest \in Seq(Message)
             /\ p \in {q[i].port : i \in 1 .. k} <=> Mentions(head, p)
             /\ Mentions(q, p) <=> Mentions(head, p) \/ Mentions(rest, p)
             /\ \A ev : Latest(q, p, ev) /\ Mentions(rest, p) => Latest(rest, p, ev)
             /\ \A ev : Latest(q, p, ev) /\ ~Mentions(rest, p) => Latest(head, p, ev)
<1> DEFINE n == Len(q)
           head == SubSeq(q, 1, k)
           rest == SubSeq(q, k + 2, n)
<1>1. n \in Nat /\ k \in Nat /\ k <= n /\ DOMAIN q = 1 .. n /\ \A i \in 1 .. n : q[i] \in Message
  BY LenProperties
<1> HIDE DEF n
<1>2. head \in Seq(Message) /\ Len(head) = k /\ \A i \in 1 .. k : head[i] = q[i]
  BY <1>1, SubSeqProperties
<1>3. /\ rest \in Seq(Message)
      /\ Len(rest) = IF k + 2 <= n THEN n - k - 1 ELSE 0
      /\ \A i \in 1 .. n - k - 1 : rest[i] = q[i + k + 1]
  <2>1. \A i \in k + 2 .. n : q[i] \in Message
    BY <1>1
  <2>2. /\ rest \in Seq(Message)
        /\ Len(rest) = IF k + 2 <= n THEN n - (k + 2) + 1 ELSE 0
        /\ \A i \in 1 .. n - (k + 2) + 1 : rest[i] = q[(k + 2) + i - 1]
    BY <1>1, <2>1, SubSeqProperties
  <2> QED
    BY <1>1, <2>2
<1>4. DOMAIN head = 1 .. k /\ DOMAIN rest = 1 .. n - k - 1
  BY <1>1, <1>2, <1>3, LenProperties
<1>5. k < n => q[k + 1].port # p
  BY MessageFacts DEF Indexed, n
<1> HIDE DEF head, rest
<1>10. \A i \in 1 .. n : i > k /\ i # k + 1 => i - k - 1 \in 1 .. n - k - 1 /\ rest[i - k - 1] = q[i]
  <2> SUFFICES ASSUME NEW i \in 1 .. n, i > k, i # k + 1
               PROVE  i - k - 1 \in 1 .. n - k - 1 /\ rest[i - k - 1] = q[i]
    OBVIOUS
  <2> DEFINE m == i - k - 1
  <2>1. m \in 1 .. n - k - 1 /\ m + k + 1 = i
    BY <1>1
  <2> HIDE DEF m
  <2>2. rest[m] = q[i]
    BY <1>3, <2>1
  <2> QED
    BY <2>1, <2>2 DEF m
<1>6. p \in {q[i].port : i \in 1 .. k} <=> Mentions(head, p)
  BY <1>2, <1>4 DEF Mentions
<1>7. Mentions(q, p) <=> Mentions(head, p) \/ Mentions(rest, p)
  <2>1. ASSUME Mentions(q, p) PROVE Mentions(head, p) \/ Mentions(rest, p)
    <3>1. PICK i \in 1 .. n : q[i].port = p
      BY <1>1, <2>1 DEF Mentions
    <3>2. CASE i <= k
      BY <1>1, <1>2, <1>4, <3>1, <3>2 DEF Mentions
    <3>3. CASE i > k
      <4>1. i # k + 1
        BY <1>1, <1>5, <3>1, <3>3
      <4>2. i - k - 1 \in 1 .. n - k - 1 /\ rest[i - k - 1] = q[i]
        BY <1>10, <3>3, <4>1
      <4> QED
        BY <1>4, <3>1, <4>2 DEF Mentions
    <3> QED
      BY <1>1, <3>2, <3>3
  <2>2. Mentions(head, p) => Mentions(q, p)
    BY <1>1, <1>2, <1>4 DEF Mentions
  <2>3. Mentions(rest, p) => Mentions(q, p)
    <3>1. \A i \in 1 .. n - k - 1 : i + k + 1 \in 1 .. n
      BY <1>1
    <3> QED
      BY <1>1, <1>3, <1>4, <3>1 DEF Mentions
  <2> QED
    BY <2>1, <2>2, <2>3
<1>8. ASSUME NEW ev, Latest(q, p, ev), Mentions(rest, p) PROVE Latest(rest, p, ev)
  <2>1. PICK i \in 1 .. n : /\ q[i] = [port |-> p, event |-> ev]
                            /\ \A j \in 1 .. n : j > i => q[j].port # p
    BY <1>1, <1>8 DEF Latest
  <2>2. PICK j \in 1 .. n - k - 1 : rest[j].port = p
    BY <1>4, <1>8 DEF Mentions
  <2>3. j + k + 1 \in 1 .. n /\ j + k + 1 <= i
    BY <1>1, <1>3, <2>1, <2>2
  <2>4. i - k - 1 \in 1 .. n - k - 1 /\ rest[i - k - 1] = q[i]
    <3>1. i > k /\ i # k + 1
      BY <1>1, <2>3
    <3> QED
      BY <1>10, <3>1
  <2>5. ASSUME NEW l \in 1 .. n - k - 1, l > i - k - 1 PROVE rest[l].port # p
    BY <1>1, <1>3, <2>1, <2>5
  <2> QED
    BY <1>4, <2>1, <2>4, <2>5 DEF Latest
<1>9. ASSUME NEW ev, Latest(q, p, ev), ~Mentions(rest, p) PROVE Latest(head, p, ev)
  <2>1. PICK i \in 1 .. n : /\ q[i] = [port |-> p, event |-> ev]
                            /\ \A j \in 1 .. n : j > i => q[j].port # p
    BY <1>1, <1>9 DEF Latest
  <2>2. q[i].port = p
    BY <2>1
  <2>3. i <= k
    <3> SUFFICES ASSUME i > k PROVE FALSE
      BY <1>1
    <3>1. i # k + 1
      BY <1>1, <1>5, <2>2
    <3>2. i - k - 1 \in 1 .. n - k - 1 /\ rest[i - k - 1] = q[i]
      BY <1>10, <3>1
    <3> QED
      BY <1>4, <1>9, <2>2, <3>2 DEF Mentions
  <2>4. i \in 1 .. k /\ head[i] = q[i] /\ \A j \in 1 .. k : j > i => head[j].port # p
    BY <1>1, <1>2, <2>1, <2>3
  <2> QED
    BY <1>4, <2>1, <2>4 DEF Latest
<1> QED
  BY <1>2, <1>3, <1>6, <1>7, <1>8, <1>9 DEF head, rest, n

-----------------------------------------------------------------------------
(* The queues hold messages.                                               *)
LEMMA QueuesInit == Init => QueuesOK
BY EmptySeq DEF Init, QueuesOK

LEMMA PublishQueues ==
  ASSUME QueuesOK, NEW m \in Message, Publish(m.port, m.event)
  PROVE  /\ DOMAIN pubsub' = Subscribers
         /\ \A u \in Subscribers : pubsub'[u] # None => pubsub'[u] \in Seq(Message)
         /\ \A u \in Subscribers : pubsub'[u] = IF pubsub[u] = None THEN None ELSE Append(pubsub[u], m)
<1>1. [port |-> m.port, event |-> m.event] = m
  BY MessageFacts
<1>2. \A u \in Subscribers : pubsub'[u] = IF pubsub[u] = None THEN None ELSE Append(pubsub[u], m)
  BY <1>1 DEF Publish
<1>3. ASSUME NEW u \in Subscribers, pubsub[u] # None PROVE Append(pubsub[u], m) \in Seq(Message)
  BY <1>3, AppendProperties DEF QueuesOK
<1> QED
  BY <1>2, <1>3 DEF Publish

LEMMA EntryChangesPublishes ==
  ASSUME NEW p \in Ports, NEW n, EntryChanges(p, n)
  PROVE  LET m == [port |-> p, event |-> IF n = None THEN "del" ELSE "set"]
         IN  m \in Message /\ Publish(m.port, m.event)
BY MessageFacts DEF EntryChanges

LEMMA UnindexedChangesPublishes ==
  ASSUME UnindexedChanges
  PROVE  LET m == [port |-> Unindexed, event |-> "set"] IN m \in Message /\ Publish(m.port, m.event)
BY MessageFacts DEF UnindexedChanges

LEMMA TakeQueues ==
  ASSUME QueuesOK, GetLatestNotification
  PROVE  QueuesOK'
<1> DEFINE q == pubsub["rem_man_addr"]
<1>1. "rem_man_addr" \in Subscribers /\ q # None
  BY DEF GetLatestNotification, Subscribers
<1>2. q \in Seq(Message)
  BY <1>1 DEF QueuesOK
<1>3. PICK k \in 0 .. Len(q) :
        /\ Indexed(q, k) /\ Take(q, k)
        /\ pubsub' = [pubsub EXCEPT !["rem_man_addr"] = SubSeq(q, k + 2, Len(q))]
  BY DEF GetLatestNotification
<1> HIDE DEF q
<1>4. Len(q) \in Nat /\ \A i \in 1 .. Len(q) : q[i] \in Message
  BY <1>2, LenProperties
<1>5. SubSeq(q, 1, k) \in Seq(Message) /\ SubSeq(q, k + 2, Len(q)) \in Seq(Message)
  <2>1. (\A i \in 1 .. k : q[i] \in Message) /\ \A i \in k + 2 .. Len(q) : q[i] \in Message
    BY <1>4
  <2> QED
    BY <1>4, <2>1, SubSeqProperties
<1>6. \A i \in 1 .. k : q[i].port \in Ports
  <2>1. \A i \in 1 .. k : q[i] \in Message
    BY <1>4
  <2> QED
    BY <1>3, <2>1, MessageFacts DEF Indexed
<1> QED
  BY <1>3, <1>5, <1>6 DEF QueuesOK, Take, Enter

LEMMA QueuesStep == DataOK /\ QueuesOK /\ [Next]_vars => QueuesOK'
<1> SUFFICES ASSUME DataOK, QueuesOK, [Next]_vars PROVE QueuesOK'
  OBVIOUS
<1>1. ASSUME NEW p \in Ports, NEW n \in Neighbours \cup {None}, EntryChanges(p, n) PROVE QueuesOK'
  <2>1. UNCHANGED <<batch, todo>>
    BY <1>1 DEF EntryChanges, updaterVars, roundVars
  <2> QED
    BY <1>1, <2>1, PublishQueues, EntryChangesPublishes DEF QueuesOK
<1>2. CASE UnindexedChanges
  <2>1. UNCHANGED <<batch, todo>>
    BY <1>2 DEF UnindexedChanges, updaterVars, roundVars
  <2> QED
    BY <1>2, <2>1, PublishQueues, UnindexedChangesPublishes DEF QueuesOK
<1>3. ASSUME NEW u \in Subscribers, Subscribe(u) PROVE QueuesOK'
  BY <1>3, EmptySeq DEF Subscribe, QueuesOK, manVars, roundVars
<1>4. CASE LocPoll
  <2> DEFINE q == pubsub["loc_port"]
  <2>1. q \in Seq(Message) /\ q # <<>>
    BY <1>4 DEF LocPoll, QueuesOK, Subscribers
  <2>2. Tail(q) \in Seq(Message)
    BY <2>1, HeadTailProperties
  <2> QED
    BY <1>4, <2>2 DEF LocPoll, QueuesOK, manVars, roundVars
<1>5. CASE LocPollEnds
  <2> DEFINE q == pubsub["loc_port"]
  <2>1. UNCHANGED batch /\ todo' = {}
    BY <1>5 DEF LocPollEnds, EndRound, manVars
  <2>2. CASE q = <<>> /\ UNCHANGED pubsub
    BY <2>1, <2>2 DEF QueuesOK
  <2>3. CASE q \notin {None, <<>>} /\ pubsub' = [pubsub EXCEPT !["loc_port"] = Tail(q)]
    <3>1. q \in Seq(Message)
      BY <2>3 DEF QueuesOK, Subscribers
    <3>2. Tail(q) \in Seq(Message)
      BY <2>3, <3>1, HeadTailProperties
    <3> QED
      BY <2>1, <2>3, <3>2 DEF QueuesOK
  <2> QED
    BY <1>5, <2>2, <2>3 DEF LocPollEnds
<1>6. CASE GetLatestNotification
  BY <1>6, TakeQueues
<1>7. \/ LocClear \/ LocReinitEnds \/ RemClear \/ RemSort \/ ManClear \/ ManReinitEnds \/ ManEnds
      \/ \E p \in Ports : LocReinit(p) \/ RemRead(p) \/ ManReinit(p) \/ ManHandle(p)
      => QueuesOK'
  <2>1. \A u \in Updaters : oid_name_map[u] \subseteq Ports
    BY DEF DataOK
  <2>2. LocClear \/ RemClear \/ ManClear => QueuesOK'
    BY <2>1 DEF LocClear, RemClear, ManClear, Enter, Updaters, QueuesOK, manVars
  <2>3. LocReinitEnds \/ RemSort \/ ManReinitEnds => QueuesOK'
    BY DEF LocReinitEnds, RemSort, ManReinitEnds, Enter, EndRound, QueuesOK, manVars
  <2>4. ManEnds => QueuesOK'
    BY EmptySeq DEF ManEnds, EndRound, QueuesOK
  <2>5. ASSUME NEW p \in Ports, LocReinit(p) \/ RemRead(p) \/ ManReinit(p) \/ ManHandle(p) PROVE QueuesOK'
    BY <2>5 DEF LocReinit, RemRead, ManReinit, ManHandle, Enter, QueuesOK, manVars
  <2> QED
    BY <2>2, <2>3, <2>4, <2>5
<1>8. Raises => QueuesOK'
  BY EmptySeq DEF Raises, Fault, RemFault, QueuesOK, manVars
<1>9. ASSUME NEW u \in Updaters, Wake(u) \/ WakeReinit(u) PROVE QueuesOK'
  BY <1>9 DEF Wake, WakeReinit, QueuesOK, manVars
<1>10. ASSUME NEW p \in Ports, NEW d, PortChanges(p, d) PROVE QueuesOK'
  BY <1>10 DEF PortChanges, QueuesOK, updaterVars, roundVars
<1>11. CASE UNCHANGED vars
  BY <1>11 DEF vars, QueuesOK, manVars, roundVars
<1> QED
  BY <1>1, <1>2, <1>3, <1>4, <1>5, <1>6, <1>7, <1>8, <1>9, <1>10, <1>11, Zenon DEF Next, Redis, Round

-----------------------------------------------------------------------------
(* AddressesListed.  A change of an entry that the updater is not told of   *)
(* makes the interface lost; any other one waits as a message or is in the  *)
(* batch, and the latest message of an interface says whether its entry is  *)
(* there, at whatever moment the entry is read.                            *)
Q == pubsub["rem_man_addr"]
EventOf(p) == IF entry[p] = None THEN "del" ELSE "set"
InLoop == At("rem_man_addr", "loop")
Handling(p) == InLoop /\ p \in todo
Complete(p) == \A row \in RowsOf(p, entry[p]) : row \in man_range \/ row[1] \in struck

Tracked(p) ==
  /\ Pending(p) => Latest(Q, p, EventOf(p))
  /\ Handling(p) /\ ~Pending(p) => Latest(batch, p, EventOf(p))
  /\ p \notin lost /\ ~Pending(p) /\ ~Handling(p) => Complete(p)

AddrInv == (InLoop => Q # None) /\ \A p \in Ports : Tracked(p)

LEMMA PendingMentions ==
  \A p : /\ Pending(p) <=> Q # None /\ Mentions(Q, p)
         /\ Pending(p)' <=> Q' # None /\ Mentions(Q', p)
BY Zenon DEF Pending, Mentions, Q

LEMMA AddrInit == Init => AddrInv
BY DEF Init, AddrInv, InLoop, At, Q, Tracked, Pending, Handling, Subscribers

(* What does not touch the table, the entries and the messages.            *)
LEMMA AddrFrame ==
  ASSUME AddrInv, UNCHANGED <<entry, man_range, struck, lost>>, Q' = Q,
         \/ UNCHANGED <<turn, step, todo, batch>>
         \/ ~InLoop' /\ \A p \in Ports : ~Handling(p)
  PROVE  AddrInv'
<1>1. \A p : Pending(p)' <=> Pending(p)
  BY PendingMentions DEF Mentions
<1>2. \A p : EventOf(p)' = EventOf(p) /\ (Complete(p)' <=> Complete(p))
  BY DEF EventOf, Complete, RowsOf
<1>3. CASE UNCHANGED <<turn, step, todo, batch>>
  BY <1>1, <1>2, <1>3 DEF AddrInv, Tracked, Handling, InLoop, At
<1>4. CASE ~InLoop' /\ \A p \in Ports : ~Handling(p)
  BY <1>1, <1>2, <1>4 DEF AddrInv, Tracked, Handling
<1> QED
  BY <1>3, <1>4

(* A message of an interface waits behind the others.                      *)
LEMMA AddrPublish ==
  ASSUME AddrInv, QueuesOK, NEW m \in Message, Publish(m.port, m.event),
         UNCHANGED <<man_range, struck, batch, turn, step, todo>>,
         \A p \in Ports : p # m.port => entry'[p] = entry[p],
         \A p \in Ports : p = m.port => m.event = EventOf(p)',
         IF Q = None /\ m.port \in Ports THEN lost' = lost \cup {m.port} ELSE lost' = lost
  PROVE  AddrInv'
<1>1. Q' = IF Q = None THEN None ELSE Append(Q, m)
  BY PublishQueues DEF Q, Subscribers
<1>2. Q # None => Q \in Seq(Message)
  BY DEF QueuesOK, Q, Subscribers
<1>3. InLoop' <=> InLoop
  BY DEF InLoop, At
<1>4. CASE Q = None
  <2>1. ~InLoop
    BY <1>4 DEF AddrInv
  <2>2. ASSUME NEW p \in Ports PROVE Tracked(p)'
    <3>1. ~Pending(p) /\ ~Pending(p)' /\ ~Handling(p) /\ ~Handling(p)'
      BY <1>1, <1>3, <1>4, <2>1, PendingMentions DEF Handling
    <3>2. CASE p = m.port
      BY <1>4, <3>1, <3>2 DEF Tracked
    <3>3. CASE p # m.port
      <4>1. p \notin lost' => p \notin lost /\ Complete(p)
        BY <1>4, <3>1, <3>3 DEF AddrInv, Tracked
      <4>2. Complete(p)' <=> Complete(p)
        BY <3>3 DEF Complete, RowsOf
      <4> QED
        BY <3>1, <4>1, <4>2 DEF Tracked
    <3> QED
      BY <3>2, <3>3
  <2> QED
    BY <1>3, <2>1, <2>2 DEF AddrInv
<1>5. CASE Q # None
  <2>0. Append(Q, m) # None
    BY <1>1, <1>5, <1>2, PublishQueues, AppendProperties, LldpAssumption
  <2>1. ASSUME NEW p \in Ports PROVE Tracked(p)'
    <3>1. Pending(p)' <=> Pending(p) \/ m.port = p
      BY <1>1, <1>2, <1>5, <2>0, AppendMessages, PendingMentions
    <3>2. CASE p = m.port
      <4>1. m = [port |-> p, event |-> EventOf(p)']
        BY <3>2, MessageFacts
      <4>2. Latest(Q', p, EventOf(p)')
        BY <1>1, <1>2, <1>5, <4>1, AppendMessages DEF Latest
      <4> QED
        BY <3>1, <3>2, <4>2 DEF Tracked
    <3>3. CASE p # m.port
      <4>1. EventOf(p)' = EventOf(p) /\ (Complete(p)' <=> Complete(p)) /\ lost' = lost
        BY <1>5, <3>3 DEF EventOf, Complete, RowsOf
      <4>2. Pending(p)' <=> Pending(p)
        BY <3>1, <3>3
      <4>3. Handling(p)' <=> Handling(p)
        BY <1>3 DEF Handling
      <4>4. Pending(p)' => Latest(Q', p, EventOf(p)')
        <5>1. Pending(p) => Latest(Q, p, EventOf(p))
          BY DEF AddrInv, Tracked
        <5> QED
          BY <1>1, <1>2, <1>5, <3>3, <4>1, <4>2, <5>1, AppendMessages
      <4> QED
        BY <4>1, <4>2, <4>3, <4>4 DEF AddrInv, Tracked, Latest
    <3> QED
      BY <3>2, <3>3
  <2> QED
    BY <1>1, <1>3, <1>5, <2>0, <2>1 DEF AddrInv
<1> QED
  BY <1>4, <1>5

(* The updater takes its messages: what waited is in the batch or waits.    *)
LEMMA AddrTake ==
  ASSUME AddrInv, QueuesOK, GetLatestNotification
  PROVE  AddrInv'
<1>1. Q # None /\ Q \in Seq(Message) /\ ~InLoop
  BY DEF GetLatestNotification, QueuesOK, Q, Subscribers, InLoop, At
<1>2. PICK k \in 0 .. Len(Q) :
        /\ Indexed(Q, k) /\ Take(Q, k)
        /\ pubsub' = [pubsub EXCEPT !["rem_man_addr"] = SubSeq(Q, k + 2, Len(Q))]
  BY DEF GetLatestNotification, Q
<1> DEFINE head == SubSeq(Q, 1, k)
           rest == SubSeq(Q, k + 2, Len(Q))
<1>3. batch' = head /\ todo' = {Q[i].port : i \in 1 .. k} /\ InLoop'
  BY <1>2 DEF Take, Enter, GetLatestNotification, InLoop, At
<1>4. Q' = rest
  BY <1>2 DEF QueuesOK, Q, Subscribers
<1>5. UNCHANGED <<entry, man_range, struck, lost>>
  BY DEF GetLatestNotification, redisVars
<1>6. ASSUME NEW p \in Ports
      PROVE  /\ rest \in Seq(Message)
             /\ p \in todo' <=> Mentions(head, p)
             /\ Mentions(Q, p) <=> Mentions(head, p) \/ Mentions(rest, p)
             /\ \A ev : Latest(Q, p, ev) /\ Mentions(rest, p) => Latest(rest, p, ev)
             /\ \A ev : Latest(Q, p, ev) /\ ~Mentions(rest, p) => Latest(head, p, ev)
  BY <1>1, <1>2, <1>3, TakeMessages
<1>7. rest # None
  <2>1. \A i \in k + 2 .. Len(Q) : Q[i] \in Message
    BY <1>1, <1>2, LenProperties
  <2>2. rest \in Seq(Message)
    BY <1>1, <1>2, <2>1, LenProperties, SubSeqProperties
  <2> QED
    BY <2>2, LldpAssumption
<1> HIDE DEF head, rest
<1>8. ASSUME NEW p \in Ports PROVE Tracked(p)'
  <2>1. EventOf(p)' = EventOf(p) /\ (Complete(p)' <=> Complete(p))
    BY <1>5 DEF EventOf, Complete, RowsOf
  <2>2. (Pending(p)' <=> Mentions(rest, p)) /\ (Pending(p) <=> Mentions(Q, p))
    BY <1>1, <1>4, <1>7, PendingMentions
  <2>3. (Handling(p)' <=> Mentions(head, p)) /\ ~Handling(p)
    BY <1>1, <1>3, <1>6 DEF Handling
  <2>4. Pending(p) => Latest(Q, p, EventOf(p))
    BY DEF AddrInv, Tracked
  <2>5. Pending(p)' => Latest(rest, p, EventOf(p))
    BY <1>6, <2>2, <2>4
  <2>6. Handling(p)' /\ ~Pending(p)' => Latest(head, p, EventOf(p))
    BY <1>6, <2>2, <2>3, <2>4
  <2>7. p \notin lost /\ ~Pending(p)' /\ ~Handling(p)' => Complete(p)
    BY <1>6, <2>2, <2>3 DEF AddrInv, Tracked
  <2> QED
    BY <1>3, <1>4, <1>5, <2>1, <2>5, <2>6, <2>7 DEF Tracked, Latest
<1> QED
  BY <1>4, <1>7, <1>8 DEF AddrInv

LEMMA LatestIsOne ==
  ASSUME NEW q \in Seq(Message), NEW p, NEW e, NEW f, Latest(q, p, e), Latest(q, p, f)
  PROVE  e = f
<1>1. PICK i \in 1 .. Len(q) : q[i] = [port |-> p, event |-> e] /\ \A l \in 1 .. Len(q) : l > i => q[l].port # p
  BY LenProperties DEF Latest
<1>2. PICK j \in 1 .. Len(q) : q[j] = [port |-> p, event |-> f] /\ \A l \in 1 .. Len(q) : l > j => q[l].port # p
  BY LenProperties DEF Latest
<1>3. q[i].port = p /\ q[j].port = p
  BY <1>1, <1>2
<1>4. i = j
  BY <1>1, <1>2, <1>3, LenProperties
<1>5. [port |-> p, event |-> e].event = [port |-> p, event |-> f].event
  BY <1>1, <1>2, <1>4
<1> QED
  BY <1>5

(* Rows are only taken away for an index that is then struck.              *)
LEMMA CompleteStays ==
  ASSUME UNCHANGED entry, struck \subseteq struck',
         \A row \in man_range : row \in man_range' \/ row[1] \in struck',
         NEW r, Complete(r)
  PROVE  Complete(r)'
BY DEF Complete, RowsOf

(* The latest message of an interface is handled with its entry as it is.  *)
LEMMA AddrHandle ==
  ASSUME AddrInv, QueuesOK, NEW p \in Ports, ManHandle(p)
  PROVE  AddrInv'
<1>1. InLoop /\ InLoop' /\ Handling(p) /\ ~Handling(p)' /\ Q' = Q
  BY DEF ManHandle, At, Enter, InLoop, Handling, Q
<1>2. UNCHANGED <<entry, batch>> /\ lost' = lost \ {p} /\ todo' = todo \ {p}
  BY DEF ManHandle, redisVars, Enter
<1>3. \A r : (Pending(r)' <=> Pending(r)) /\ EventOf(r)' = EventOf(r)
  BY <1>1, <1>2, PendingMentions DEF EventOf
<1>4. struck \subseteq struck' /\ \A row \in man_range : row \in man_range' \/ row[1] \in struck'
  BY DEF ManHandle
<1>5. \A r : Complete(r) => Complete(r)'
  BY <1>2, <1>4, CompleteStays
<1>6. ~Pending(p) => Complete(p)'
  <2> SUFFICES ASSUME ~Pending(p) PROVE Complete(p)'
    OBVIOUS
  <2>1. Latest(batch, p, EventOf(p))
    BY <1>1 DEF AddrInv, Tracked
  <2>2. CASE man_range' = man_range \cup RowsOf(p, entry[p])
    BY <1>2, <2>2 DEF Complete
  <2>3. CASE Latest(batch, p, "del")
    <3>1. EventOf(p) = "del"
      BY <2>1, <2>3, LatestIsOne DEF QueuesOK
    <3>2. RowsOf(p, entry[p]) = {}
      BY <3>1 DEF EventOf, RowsOf
    <3> QED
      BY <1>2, <3>2 DEF Complete
  <2> QED
    BY <2>2, <2>3 DEF ManHandle
<1>7. ASSUME NEW r \in Ports PROVE Tracked(r)'
  <2>1. CASE r = p
    <3>1. Pending(p) => Latest(Q, p, EventOf(p))
      BY DEF AddrInv, Tracked
    <3> QED
      BY <1>1, <1>3, <1>6, <2>1, <3>1 DEF Tracked, Latest
  <2>2. CASE r # p
    <3>1. (Handling(r)' <=> Handling(r)) /\ (r \in lost' <=> r \in lost)
      BY <1>1, <1>2, <2>2 DEF Handling
    <3>2. Tracked(r)
      BY DEF AddrInv
    <3> QED
      BY <1>1, <1>2, <1>3, <1>5, <3>1, <3>2 DEF Tracked, Latest
  <2> QED
    BY <2>1, <2>2
<1> QED
  BY <1>1, <1>7 DEF AddrInv

(* A reinit forgets everything and then reads the entries of the           *)
(* interfaces that it knows; an interface that it does not know is lost.   *)
LEMMA AddrReinit ==
  ASSUME AddrInv, ManClear \/ \E p \in Ports : ManReinit(p)
  PROVE  AddrInv'
<1>1. ~InLoop /\ ~InLoop' /\ Q' = Q /\ UNCHANGED entry
  BY DEF ManClear, ManReinit, At, Enter, InLoop, Q, redisVars
<1>2. \A r : (Pending(r)' <=> Pending(r)) /\ EventOf(r)' = EventOf(r) /\ ~Handling(r) /\ ~Handling(r)'
  BY <1>1, PendingMentions DEF EventOf, Handling
<1>3. \A r \in Ports : Pending(r) => Latest(Q, r, EventOf(r))
  BY DEF AddrInv, Tracked
<1>4. CASE ManClear
  <2>1. lost' = Ports
    BY <1>4 DEF ManClear
  <2> QED
    BY <1>1, <1>2, <1>3, <2>1 DEF AddrInv, Tracked, Latest
<1>5. ASSUME NEW p \in Ports, ManReinit(p) PROVE AddrInv'
  <2>1. lost' = lost \ {p} /\ man_range' = man_range \cup RowsOf(p, entry[p]) /\ UNCHANGED struck
    BY <1>5 DEF ManReinit
  <2>2. Complete(p)'
    BY <1>1, <2>1 DEF Complete
  <2>3. \A r : Complete(r) => Complete(r)'
    BY <1>1, <2>1, CompleteStays
  <2>4. \A r \in Ports : r \notin lost' /\ ~Pending(r) => Complete(r)'
    BY <1>2, <2>1, <2>2, <2>3 DEF AddrInv, Tracked
  <2> QED
    BY <1>1, <1>2, <1>3, <2>4 DEF AddrInv, Tracked, Latest
<1> QED
  BY <1>4, <1>5

(* An exception loses the interfaces that the loop has not come to.        *)
LEMMA AddrFault ==
  ASSUME AddrInv, Fault
  PROVE  AddrInv'
<1>1. ~InLoop' /\ Q' = Q /\ UNCHANGED <<entry, man_range, struck>>
  BY DEF Fault, InLoop, At, Q, redisVars
<1>2. \A r : (Pending(r)' <=> Pending(r)) /\ EventOf(r)' = EventOf(r) /\ (Complete(r)' <=> Complete(r)) /\ ~Handling(r)'
  BY <1>1, PendingMentions DEF EventOf, Complete, Handling
<1>3. ASSUME NEW r \in Ports, r \notin lost' PROVE r \notin lost /\ ~Handling(r)
  BY <1>3 DEF Fault, Handling, InLoop, At
<1> QED
  BY <1>1, <1>2, <1>3 DEF AddrInv, Tracked, Latest

(* A change of an entry is told or makes the interface lost.               *)
LEMMA AddrChange ==
  ASSUME AddrInv, DataOK, QueuesOK, NEW p \in Ports, NEW n \in Neighbours \cup {None}, EntryChanges(p, n)
  PROVE  AddrInv'
<1> DEFINE m == [port |-> p, event |-> IF n = None THEN "del" ELSE "set"]
<1>1. m \in Message /\ Publish(m.port, m.event) /\ m.port = p
  BY EntryChangesPublishes
<1>2. UNCHANGED <<man_range, struck, batch, turn, step, todo>>
  BY DEF EntryChanges, updaterVars, roundVars
<1>3. entry'[p] = n /\ \A r \in Ports : r # p => entry'[r] = entry[r]
  BY DEF EntryChanges, DataOK
<1>4. m.event = EventOf(p)'
  BY <1>3 DEF EventOf
<1>5. IF Q = None /\ m.port \in Ports THEN lost' = lost \cup {m.port} ELSE lost' = lost
  BY DEF EntryChanges, Q
<1> HIDE DEF m
<1> QED
  BY <1>1, <1>2, <1>3, <1>4, <1>5, AddrPublish

LEMMA AddrUnindexed ==
  ASSUME AddrInv, QueuesOK, UnindexedChanges
  PROVE  AddrInv'
<1> DEFINE m == [port |-> Unindexed, event |-> "set"]
<1>1. m \in Message /\ Publish(m.port, m.event) /\ m.port \notin Ports
  BY UnindexedChangesPublishes, MessageFacts
<1>2. UNCHANGED <<man_range, struck, batch, turn, step, todo, entry, lost>>
  BY DEF UnindexedChanges, updaterVars, roundVars
<1> HIDE DEF m
<1> QED
  BY <1>1, <1>2, AddrPublish

LEMMA AddrSubscribe ==
  ASSUME AddrInv, QueuesOK, NEW u \in Subscribers, Subscribe(u)
  PROVE  AddrInv'
<1>1. ~InLoop /\ UNCHANGED <<entry, man_range, struck, lost, turn, step, todo, batch>>
  BY DEF Subscribe, InLoop, At, redisVars, manVars, roundVars
<1>2. CASE u = "loc_port"
  <2>1. Q' = Q
    BY <1>2 DEF Subscribe, Q, QueuesOK, Subscribers
  <2> QED
    BY <1>1, <2>1, AddrFrame
<1>3. CASE u = "rem_man_addr"
  <2>1. Q = None /\ Q' = <<>> /\ ~InLoop'
    BY <1>1, <1>3 DEF Subscribe, Q, QueuesOK, Subscribers, InLoop, At
  <2>2. \A r : ~Pending(r) /\ ~Pending(r)'
    BY <2>1, PendingMentions DEF Mentions
  <2>3. \A r : (Complete(r)' <=> Complete(r)) /\ ~Handling(r)' /\ ~Handling(r)
    BY <1>1, <2>1 DEF Complete, RowsOf, Handling
  <2> QED
    BY <1>1, <2>1, <2>2, <2>3 DEF AddrInv, Tracked
<1> QED
  BY <1>2, <1>3 DEF Subscribers

(* The steps that AddrFrame is about.                                      *)
LEMMA AddrElsewhere ==
  ASSUME AddrInv, QueuesOK,
         \/ LocClear \/ LocReinitEnds \/ LocPoll \/ LocPollEnds \/ RemClear \/ RemSort \/ ManReinitEnds \/ ManEnds
         \/ \E p \in Ports : LocReinit(p) \/ RemRead(p) \/ RemFault(p) \/ \E d : PortChanges(p, d)
         \/ \E u \in Updaters : Wake(u) \/ WakeReinit(u)
         \/ UNCHANGED vars
  PROVE  AddrInv'
<1>1. CASE LocPoll \/ LocPollEnds
  <2>1. Q' = Q /\ UNCHANGED <<entry, man_range, struck, lost>> /\ ~InLoop /\ ~InLoop'
    BY <1>1 DEF LocPoll, LocPollEnds, EndRound, Q, QueuesOK, Subscribers, At, InLoop, redisVars, manVars, roundVars
  <2> QED
    BY <2>1, AddrFrame DEF Handling
<1>2. CASE LocClear \/ LocReinitEnds \/ RemClear \/ RemSort \/ ManReinitEnds
           \/ \E p \in Ports : LocReinit(p) \/ RemRead(p) \/ RemFault(p)
  <2>1. Q' = Q /\ UNCHANGED <<entry, man_range, struck, lost>> /\ ~InLoop /\ ~InLoop'
    BY <1>2 DEF LocClear, LocReinitEnds, RemClear, RemSort, ManReinitEnds, LocReinit, RemRead, RemFault, EndRound, Enter,
                At, InLoop, Q, redisVars, manVars
  <2> QED
    BY <2>1, AddrFrame DEF Handling
<1>3. CASE ManEnds
  <2>1. Q' = Q /\ UNCHANGED <<entry, man_range, struck, lost>> /\ todo = {} /\ ~InLoop'
    BY <1>3 DEF ManEnds, EndRound, At, InLoop, Q, redisVars
  <2> QED
    BY <2>1, AddrFrame DEF Handling
<1>4. ASSUME NEW p \in Ports, NEW d, PortChanges(p, d) PROVE AddrInv'
  <2>1. Q' = Q /\ UNCHANGED <<entry, man_range, struck, lost, turn, step, todo, batch>>
    BY <1>4 DEF PortChanges, updaterVars, roundVars, Q
  <2> QED
    BY <2>1, AddrFrame
<1>5. ASSUME NEW u \in Updaters, Wake(u) \/ WakeReinit(u) PROVE AddrInv'
  <2>1. Q' = Q /\ UNCHANGED <<entry, man_range, struck, lost>> /\ ~InLoop /\ ~InLoop'
    BY <1>5, LldpAssumption DEF Wake, WakeReinit, At, InLoop, Q, redisVars, manVars, Updaters
  <2> QED
    BY <2>1, AddrFrame DEF Handling
<1>6. CASE UNCHANGED vars
  <2>1. Q' = Q /\ UNCHANGED <<entry, man_range, struck, lost, turn, step, todo, batch>>
    BY <1>6 DEF vars, redisVars, manVars, roundVars, Q
  <2> QED
    BY <2>1, AddrFrame
<1> QED
  BY <1>1, <1>2, <1>3, <1>4, <1>5, <1>6, Zenon

LEMMA AddrStep == DataOK /\ QueuesOK /\ AddrInv /\ [Next]_vars => AddrInv'
<1> SUFFICES ASSUME DataOK, QueuesOK, AddrInv, [Next]_vars PROVE AddrInv'
  OBVIOUS
<1>1. ASSUME NEW p \in Ports, NEW n \in Neighbours \cup {None}, EntryChanges(p, n) PROVE AddrInv'
  BY <1>1, AddrChange
<1>2. CASE UnindexedChanges
  BY <1>2, AddrUnindexed
<1>3. ASSUME NEW u \in Subscribers, Subscribe(u) PROVE AddrInv'
  BY <1>3, AddrSubscribe
<1>4. CASE GetLatestNotification
  BY <1>4, AddrTake
<1>5. ASSUME NEW p \in Ports, ManHandle(p) PROVE AddrInv'
  BY <1>5, AddrHandle
<1>6. CASE ManClear \/ \E p \in Ports : ManReinit(p)
  BY <1>6, AddrReinit
<1>7. CASE Fault
  BY <1>7, AddrFault
<1> QED
  BY <1>1, <1>2, <1>3, <1>4, <1>5, <1>6, <1>7, AddrElsewhere, Zenon DEF Next, Redis, Round, Raises

(* Between rounds, what the updater was told of or read is in its table:   *)
(* an address of the entry of an interface is listed unless a change was    *)
(* made before psubscribe, its notification waits, an exception lost it, or *)
(* the "del" of another interface took it away.                            *)
THEOREM AddressesListedHolds == Spec => []AddressesListed
<1>1. Init => DataOK /\ QueuesOK /\ AddrInv
  BY DataInit, QueuesInit, AddrInit
<1>2. DataOK /\ QueuesOK /\ AddrInv /\ [Next]_vars => DataOK' /\ QueuesOK' /\ AddrInv'
  BY DataStep, QueuesStep, AddrStep
<1>3. AddrInv => AddressesListed
  BY DEF AddrInv, Tracked, AddressesListed, Informed, Complete, Handling, InLoop, At
<1> QED
  BY <1>1, <1>2, <1>3, PTL DEF Spec

-----------------------------------------------------------------------------
(* Refinement: each updater implements CachedTable.                        *)

LEMMA LocStep == DataOK /\ QueuesOK /\ [Next]_vars => [LocPorts!Next]_(LocPorts!vars)
<1> SUFFICES ASSUME DataOK, QueuesOK, [Next]_vars PROVE [LocPorts!Next]_(LocPorts!vars)
  OBVIOUS
<1> DEFINE Same == UNCHANGED <<port_table, loc_port_data>>
<1>1. Same => UNCHANGED LocPorts!vars
  BY DEF LocPorts!vars
<1>2. ASSUME NEW p \in Ports, UpdateInterface(p), UNCHANGED port_table PROVE LocPorts!Next \/ Same
  <2>1. LocPorts!Read(p) \/ Same
    BY <1>2 DEF UpdateInterface, LocPorts!Read
  <2> QED
    BY <2>1 DEF LocPorts!Next
<1>3. ASSUME NEW p \in Ports, NEW d \in Descriptions \cup {None}, PortChanges(p, d) PROVE LocPorts!Next
  <2>1. port_table' \in LocPorts!Contents /\ UNCHANGED loc_port_data
    BY <1>3 DEF PortChanges, updaterVars, locVars, DataOK, LocPorts!Contents
  <2> QED
    BY <2>1 DEF LocPorts!Next, LocPorts!Change
<1>4. LocClear => LocPorts!Next
  BY DEF LocClear, redisVars, Empty, LocPorts!Next, LocPorts!Clear
<1>5. ASSUME NEW p \in Ports, LocReinit(p) PROVE LocPorts!Next \/ Same
  BY <1>2, <1>5 DEF LocReinit, redisVars
<1>6. LocPoll => LocPorts!Next \/ Same
  <2> SUFFICES ASSUME LocPoll PROVE LocPorts!Next \/ Same
    OBVIOUS
  <2> DEFINE q == pubsub["loc_port"]
  <2>1. q \in Seq(Message) /\ q # <<>> /\ Head(q).port # Unindexed
    BY DEF LocPoll, QueuesOK, Subscribers
  <2>2. Head(q) \in Message
    BY <2>1, HeadTailProperties
  <2>3. Head(q).port \in Ports
    BY <2>1, <2>2, MessageFacts
  <2>4. UNCHANGED port_table /\ (UpdateInterface(Head(q).port) \/ UNCHANGED loc_port_data)
    BY DEF LocPoll, redisVars
  <2> QED
    BY <1>2, <2>3, <2>4
<1>7. UnindexedChanges \/ (\E u \in Subscribers : Subscribe(u)) \/ (\E u \in Updaters : Wake(u) \/ WakeReinit(u)) => Same
  BY DEF UnindexedChanges, Subscribe, Wake, WakeReinit, updaterVars, redisVars, locVars
<1>8. Fault \/ LocReinitEnds \/ LocPollEnds \/ RemClear \/ RemSort \/ ManClear \/ ManReinitEnds
      \/ GetLatestNotification \/ ManEnds => Same
  BY DEF Fault, LocReinitEnds, LocPollEnds, RemClear, RemSort, ManClear, ManReinitEnds, GetLatestNotification, ManEnds,
         redisVars, locVars
<1>9. ASSUME NEW p \in Ports PROVE RemRead(p) \/ RemFault(p) \/ ManReinit(p) \/ ManHandle(p) => Same
  BY DEF RemRead, RemFault, ManReinit, ManHandle, redisVars, locVars
<1>10. ASSUME NEW p \in Ports, NEW n, EntryChanges(p, n) PROVE Same
  BY <1>10 DEF EntryChanges, updaterVars, locVars
<1>11. UNCHANGED vars => Same
  BY DEF vars, redisVars, locVars
<1> HIDE DEF Same
<1> QED
  BY <1>1, <1>3, <1>4, <1>5, <1>6, <1>7, <1>8, <1>9, <1>10, <1>11, Zenon DEF Next, Redis, Round, Raises

(* What lldpRemTable may show for an interface: a complete entry.          *)
Parsed == [p \in Ports |-> IF entry[p] # None /\ entry[p].caps THEN entry[p] ELSE None]

LEMMA RemStep == DataOK /\ [Next]_vars => [RemTable!Next]_(RemTable!vars)
<1> SUFFICES ASSUME DataOK, [Next]_vars PROVE [RemTable!Next]_(RemTable!vars)
  OBVIOUS
<1> DEFINE Same == UNCHANGED <<entry, lldp_counters>>
<1>1. Same => UNCHANGED RemTable!vars
  BY DEF RemTable!vars
<1>2. ASSUME NEW p \in Ports, NEW n \in Neighbours \cup {None}, EntryChanges(p, n) PROVE RemTable!Next
  <2>1. entry' \in [Ports -> Neighbours \cup {None}] /\ UNCHANGED lldp_counters
    BY <1>2 DEF EntryChanges, updaterVars, remVars, DataOK
  <2>2. Parsed' \in RemTable!Contents
    BY <2>1 DEF Parsed, RemTable!Contents
  <2> QED
    BY <2>1, <2>2 DEF RemTable!Next, RemTable!Change, Parsed
<1>3. RemClear => RemTable!Next
  BY DEF RemClear, redisVars, Empty, RemTable!Next, RemTable!Clear
<1>4. ASSUME NEW p \in Ports, RemRead(p) PROVE RemTable!Next \/ Same
  <2>1. UNCHANGED entry
    BY <1>4 DEF RemRead, redisVars
  <2>2. CASE entry[p] # None /\ entry[p].caps
    <3>1. lldp_counters' = [lldp_counters EXCEPT ![p] = Parsed[p]]
      BY <1>4, <2>2 DEF RemRead, Parsed
    <3>2. RemTable!Read(p)
      BY <2>1, <3>1 DEF RemTable!Read, Parsed
    <3> QED
      BY <3>2 DEF RemTable!Next
  <2>3. CASE ~(entry[p] # None /\ entry[p].caps)
    BY <1>4, <2>1, <2>3 DEF RemRead
  <2> QED
    BY <2>2, <2>3
<1>5. UnindexedChanges \/ (\E u \in Subscribers : Subscribe(u)) \/ (\E u \in Updaters : Wake(u) \/ WakeReinit(u)) => Same
  BY DEF UnindexedChanges, Subscribe, Wake, WakeReinit, updaterVars, redisVars, remVars
<1>6. Fault \/ LocClear \/ LocReinitEnds \/ LocPoll \/ LocPollEnds \/ RemSort \/ ManClear \/ ManReinitEnds
      \/ GetLatestNotification \/ ManEnds => Same
  BY DEF Fault, LocClear, LocReinitEnds, LocPoll, LocPollEnds, RemSort, ManClear, ManReinitEnds, GetLatestNotification,
         ManEnds, redisVars, remVars
<1>7. ASSUME NEW p \in Ports PROVE LocReinit(p) \/ RemFault(p) \/ ManReinit(p) \/ ManHandle(p) => Same
  BY DEF LocReinit, RemFault, ManReinit, ManHandle, redisVars, remVars
<1>8. ASSUME NEW p \in Ports, NEW d, PortChanges(p, d) PROVE Same
  BY <1>8 DEF PortChanges, updaterVars, remVars
<1>9. UNCHANGED vars => Same
  BY DEF vars, redisVars, remVars
<1> HIDE DEF Same
<1> QED
  BY <1>1, <1>2, <1>3, <1>4, <1>5, <1>6, <1>7, <1>8, <1>9, Zenon DEF Next, Redis, Round, Raises

(* Every value of lldpLocPortTable was read from its own key since the     *)
(* table was cleared, whichever messages came, in whatever order.          *)
THEOREM LocPortsImplementHolds == Spec => LocPortsImplement
<1>1. Init => LocPorts!Init
  BY DEF Init, Empty, LocPorts!Init, LocPorts!Contents
<1>2. Init => DataOK /\ QueuesOK
  BY DataInit, QueuesInit
<1>3. DataOK /\ QueuesOK /\ [Next]_vars => DataOK' /\ QueuesOK'
  BY DataStep, QueuesStep
<1> QED
  BY <1>1, <1>2, <1>3, LocStep, PTL DEF Spec, LocPortsImplement, LocPorts!Spec

(* Every value of lldpRemTable is one that a complete entry of its         *)
(* interface held after the round began, whatever a round raised.          *)
THEOREM RemTableImplementsHolds == Spec => RemTableImplements
<1>1. Init => RemTable!Init
  BY DEF Init, Empty, RemTable!Init, RemTable!Contents
<1>2. Init => DataOK
  BY DataInit
<1>3. DataOK /\ [Next]_vars => DataOK'
  BY DataStep
<1> QED
  BY <1>1, <1>2, <1>3, RemStep, PTL DEF Spec, RemTableImplements, RemTable!Spec

-----------------------------------------------------------------------------
(* list.sort(): the elements of the list, in ascending order, and strictly *)
(* so if no two are equal.  The elements up to the i-th are counted; no    *)
(* two counts are equal, so each place is taken by one element.            *)
LEMMA SortedAscends ==
  ASSUME NEW list \in Seq(Int)
  PROVE  /\ DOMAIN Sorted(list) = DOMAIN list
         /\ ToSet(Sorted(list)) = ToSet(list)
         /\ (\A i, j \in DOMAIN list : list[i] = list[j] => i = j)
            => \A i, j \in DOMAIN Sorted(list) : i < j => Sorted(list)[i] < Sorted(list)[j]
<1> DEFINE n == Len(list)
           before(i, k) == list[i] < list[k] \/ (list[i] = list[k] /\ i < k)
           Upto(i) == {j \in 1 .. n : list[j] < list[i] \/ (list[j] = list[i] /\ j <= i)}
           place == [i \in 1 .. n |-> Cardinality(Upto(i))]
<1>1. n \in Nat /\ DOMAIN list = 1 .. n /\ \A i \in 1 .. n : list[i] \in Int
  BY LenProperties, ElementOfSeq
<1> HIDE DEF n
<1>2. IsFiniteSet(1 .. n) /\ Cardinality(1 .. n) = n
  BY <1>1, FS_Interval, SMT
<1>3. ASSUME NEW i \in 1 .. n
      PROVE  /\ IsFiniteSet(Upto(i)) /\ place[i] \in 1 .. n
             /\ i \in Upto(i) /\ place[i] = PlaceOf(list, i)
  <2>1. Upto(i) \in SUBSET (1 .. n)
    OBVIOUS
  <2>2. i \in Upto(i)
    BY <1>1, SMT
  <2>3. place[i] = Cardinality(Upto(i)) /\ place[i] = PlaceOf(list, i)
    BY <1>1 DEF PlaceOf
  <2> HIDE DEF Upto, place
  <2>4. IsFiniteSet(Upto(i)) /\ Cardinality(Upto(i)) <= n /\ Cardinality(Upto(i)) \in Nat
    BY <1>2, <2>1, FS_Subset, FS_CardinalityType
  <2>5. Cardinality(Upto(i)) # 0
    BY <2>2, <2>4, FS_EmptySet
  <2> QED
    BY <1>1, <2>2, <2>3, <2>4, <2>5, SMT
<1>4. ASSUME NEW i \in 1 .. n, NEW k \in 1 .. n, before(i, k)
      PROVE  place[i] < place[k]
  <2>1. Upto(i) \in SUBSET Upto(k) /\ k \notin Upto(i) /\ k \in Upto(k)
    BY <1>1, <1>4, SMT
  <2>2. place[i] = Cardinality(Upto(i)) /\ place[k] = Cardinality(Upto(k))
    OBVIOUS
  <2>3. IsFiniteSet(Upto(k)) /\ place[i] \in 1 .. n /\ place[k] \in 1 .. n
    BY <1>3
  <2> HIDE DEF Upto, place
  <2>4. Cardinality(Upto(i)) <= Cardinality(Upto(k)) /\ Cardinality(Upto(i)) # Cardinality(Upto(k))
    BY <2>1, <2>3, FS_Subset
  <2> QED
    BY <2>2, <2>3, <2>4, SMT
<1>5. ASSUME NEW i \in 1 .. n, NEW k \in 1 .. n, place[i] = place[k]
      PROVE  i = k
  <2>1. ~before(i, k) /\ ~before(k, i)
    <3>1. ~(place[i] < place[k]) /\ ~(place[k] < place[i])
      <4>1. place[i] \in 1 .. n
        BY <1>3
      <4> QED
        BY <1>5, <4>1, SMT
    <3> QED
      BY <1>4, <3>1
  <2> QED
    BY <1>1, <2>1, SMT
<1>6. \A k \in 1 .. n : \E i \in 1 .. n : place[i] = k
  <2>1. place \in [1 .. n -> 1 .. n]
    BY <1>3
  <2> HIDE DEF place
  <2>2. place \in Injection(1 .. n, 1 .. n)
    BY <1>5, <2>1 DEF Injection, IsInjective
  <2>3. place \in Surjection(1 .. n, 1 .. n)
    BY <1>2, <2>2, FS_Injection
  <2> QED
    BY <2>3 DEF Surjection
<1> DEFINE at(k) == CHOOSE i \in 1 .. n : PlaceOf(list, i) = k
<1>7. \A k \in 1 .. n : at(k) \in 1 .. n /\ place[at(k)] = k
  <2> SUFFICES ASSUME NEW k \in 1 .. n
               PROVE  at(k) \in 1 .. n /\ place[at(k)] = k
    OBVIOUS
  <2> HIDE DEF place
  <2>1. \E i \in 1 .. n : PlaceOf(list, i) = k
    BY <1>3, <1>6
  <2>2. at(k) \in 1 .. n /\ PlaceOf(list, at(k)) = k
    BY <2>1
  <2> QED
    BY <1>3, <2>2
<1>8. DOMAIN Sorted(list) = 1 .. n /\ \A k \in 1 .. n : Sorted(list)[k] = list[at(k)]
  BY <1>1 DEF Sorted
<1> HIDE DEF at, place, Upto
<1>9. ToSet(Sorted(list)) = ToSet(list)
  <2>1. \A k \in 1 .. n : \E i \in 1 .. n : Sorted(list)[k] = list[i]
    BY <1>7, <1>8
  <2>2. \A i \in 1 .. n : \E k \in 1 .. n : Sorted(list)[k] = list[i]
    <3> TAKE i \in 1 .. n
    <3>1. place[i] \in 1 .. n
      BY <1>3
    <3>2. at(place[i]) = i
      BY <1>5, <1>7, <3>1
    <3> QED
      BY <1>8, <3>1, <3>2
  <2>3. ToSet(Sorted(list)) = {Sorted(list)[k] : k \in 1 .. n}
    BY <1>8 DEF ToSet
  <2>4. ToSet(list) = {list[i] : i \in 1 .. n}
    BY <1>1 DEF ToSet
  <2>5. \A x \in ToSet(Sorted(list)) : x \in ToSet(list)
    BY <2>1, <2>3, <2>4
  <2>6. \A x \in ToSet(list) : x \in ToSet(Sorted(list))
    BY <2>2, <2>3, <2>4
  <2> QED
    BY <2>5, <2>6
<1>10. ASSUME \A i, j \in DOMAIN list : list[i] = list[j] => i = j,
              NEW k \in 1 .. n, NEW l \in 1 .. n, k < l
       PROVE  Sorted(list)[k] < Sorted(list)[l]
  <2>1. at(k) \in 1 .. n /\ at(l) \in 1 .. n /\ place[at(k)] = k /\ place[at(l)] = l
    BY <1>7
  <2>2. ~(place[at(l)] < place[at(k)]) /\ place[at(k)] # place[at(l)]
    BY <1>10, <2>1, SMT
  <2>3. ~(list[at(l)] < list[at(k)]) /\ at(k) # at(l)
    BY <1>4, <2>1, <2>2
  <2>4. list[at(k)] # list[at(l)]
    BY <1>1, <1>10, <2>1, <2>3
  <2>5. list[at(k)] < list[at(l)]
    BY <1>1, <2>1, <2>3, <2>4, SMT
  <2> QED
    BY <1>8, <2>5
<1> QED
  BY <1>1, <1>8, <1>9, <1>10

-----------------------------------------------------------------------------
(* Types.                                                                  *)

(* What TypeOK says of the variables that DataOK and QueuesOK leave out.    *)
RestOK ==
  /\ running \in Processes
  /\ turn \in Updaters \cup {None}
  /\ step \in {"asleep", "clear", "reinit", "update", "loop"}
  /\ loc_port_data \in [Ports -> Descriptions \cup {None}]
  /\ rem_range \in Seq(Ports)
  /\ lldp_counters \in [Ports -> Neighbours \cup {None}]
  /\ man_range \subseteq Rows
  /\ finished \subseteq Updaters
  /\ lost \subseteq Ports /\ struck \subseteq Ports
  /\ changes \in 0 .. MaxChanges /\ faults \in 0 .. MaxFaults

LEMMA RowsOfEntry ==
  ASSUME DataOK, NEW p \in Ports
  PROVE  RowsOf(p, entry[p]) \subseteq Rows
<1>1. CASE entry[p] = None
  BY <1>1 DEF RowsOf
<1>2. CASE entry[p] \in Neighbours
  <2> DEFINE rows(q, n) == RowsOf(q, n)
  <2>1. Rows = UNION {rows(q, n) : q \in Ports, n \in Neighbours}
    BY DEF Rows
  <2>2. \A q \in Ports, n \in Neighbours : rows(q, n) \subseteq Rows
    <3> HIDE DEF rows
    <3> QED
      BY <2>1
  <2> QED
    BY <1>2, <2>2
<1> QED
  BY <1>1, <1>2 DEF DataOK

(* One more change, one more exception.                                    *)
LEMMA Counted ==
  /\ changes \in 0 .. MaxChanges /\ Count => changes' \in 0 .. MaxChanges
  /\ faults \in 0 .. MaxFaults /\ faults < MaxFaults /\ faults' = faults + 1 => faults' \in 0 .. MaxFaults
BY LldpAssumption, SMT DEF Count

LEMMA RestInit == Init => RestOK
<1> SUFFICES ASSUME Init PROVE RestOK
  OBVIOUS
<1>1. changes \in 0 .. MaxChanges /\ faults \in 0 .. MaxFaults
  BY LldpAssumption, SMT DEF Init
<1>2. rem_range \in Seq(Ports)
  BY EmptySeq DEF Init
<1> QED
  BY <1>1, <1>2 DEF Init, RestOK, Empty

(* Changes in Redis.                                                       *)
LEMMA RestRedis == RestOK /\ DataOK /\ Redis => RestOK'
<1> SUFFICES ASSUME RestOK, DataOK, Redis PROVE RestOK'
  OBVIOUS
<1>1. Count /\ UNCHANGED updaterVars /\ lost' \subseteq Ports
  BY DEF Redis, EntryChanges, UnindexedChanges, PortChanges, RestOK
<1>2. changes' \in 0 .. MaxChanges
  BY <1>1, Counted DEF RestOK
<1> QED
  BY <1>1, <1>2, Zenon DEF updaterVars, locVars, remVars, roundVars, RestOK

(* The frame of a round's steps.                                           *)
LEMMA RestFrame ==
  ASSUME RestOK, UNCHANGED <<running, changes>>,
         UNCHANGED loc_port_data \/ loc_port_data' \in [Ports -> Descriptions \cup {None}],
         UNCHANGED rem_range \/ rem_range' \in Seq(Ports),
         UNCHANGED lldp_counters \/ lldp_counters' \in [Ports -> Neighbours \cup {None}],
         UNCHANGED man_range \/ man_range' \subseteq Rows,
         UNCHANGED turn \/ turn' \in Updaters \cup {None},
         UNCHANGED step \/ step' \in {"asleep", "clear", "reinit", "update", "loop"},
         UNCHANGED finished \/ finished' \subseteq Updaters,
         UNCHANGED lost \/ lost' \subseteq Ports, UNCHANGED struck \/ struck' \subseteq Ports,
         UNCHANGED faults \/ faults' \in 0 .. MaxFaults
  PROVE  RestOK'
<1>1. running' \in Processes /\ changes' \in 0 .. MaxChanges
  BY DEF RestOK
<1>2. loc_port_data' \in [Ports -> Descriptions \cup {None}]
  BY DEF RestOK
<1>3. rem_range' \in Seq(Ports) /\ lldp_counters' \in [Ports -> Neighbours \cup {None}]
  BY DEF RestOK
<1>4. man_range' \subseteq Rows
  BY DEF RestOK
<1>5. turn' \in Updaters \cup {None} /\ step' \in {"asleep", "clear", "reinit", "update", "loop"}
  BY DEF RestOK
<1>6. finished' \subseteq Updaters /\ lost' \subseteq Ports /\ struck' \subseteq Ports
  BY DEF RestOK
<1>7. faults' \in 0 .. MaxFaults
  BY DEF RestOK
<1> QED
  BY <1>1, <1>2, <1>3, <1>4, <1>5, <1>6, <1>7 DEF RestOK

LEMMA RestWake ==
  ASSUME RestOK, NEW u \in Updaters, Wake(u) \/ WakeReinit(u)
  PROVE  RestOK'
<1>1. /\ UNCHANGED <<running, changes, loc_port_data, rem_range, lldp_counters, man_range, finished, lost, struck, faults>>
      /\ turn' \in Updaters \cup {None} /\ step' \in {"asleep", "clear", "reinit", "update", "loop"}
  BY DEF Wake, WakeReinit, redisVars, locVars, remVars, manVars
<1> QED
  BY <1>1, RestFrame

LEMMA RestFault ==
  ASSUME RestOK, QueuesOK, Raises
  PROVE  RestOK'
<1>1. turn' \in Updaters \cup {None} /\ step' \in {"asleep", "clear", "reinit", "update", "loop"}
  BY DEF Raises, Fault, RemFault
<1>2. faults' \in 0 .. MaxFaults
  BY Counted DEF RestOK, Raises, Fault, RemFault
<1>3. finished' \subseteq Updaters
  BY DEF RestOK, Raises, Fault, RemFault
<1>4. CASE Fault
  <2>1. lost' \subseteq Ports
    BY <1>4 DEF Fault, RestOK, QueuesOK
  <2> QED
    BY <1>1, <1>2, <1>3, <1>4, <2>1, RestFrame DEF Fault, redisVars, locVars, remVars
<1>5. ASSUME NEW p \in Ports, RemFault(p)
      PROVE  RestOK'
  <2>1. rem_range' \in Seq(Ports)
    BY <1>5, AppendProperties DEF RestOK, RemFault
  <2> QED
    BY <1>1, <1>2, <1>3, <1>5, <2>1, RestFrame DEF RemFault, redisVars, locVars, manVars
<1> QED
  BY <1>4, <1>5 DEF Raises

(* The steps of the two tables whose lists are sets.                       *)
LEMMA RestSets ==
  ASSUME RestOK, DataOK, QueuesOK,
         \/ \E u \in Subscribers : Subscribe(u)
         \/ LocClear \/ LocReinitEnds \/ LocPoll \/ LocPollEnds
         \/ ManClear \/ ManReinitEnds \/ GetLatestNotification \/ ManEnds
         \/ \E p \in Ports : LocReinit(p) \/ ManReinit(p) \/ ManHandle(p)
  PROVE  RestOK'
<1>1. ASSUME NEW u \in Subscribers, Subscribe(u) PROVE RestOK'
  BY <1>1, RestFrame DEF Subscribe, redisVars, locVars, remVars, manVars, roundVars
<1>2. CASE LocClear
  <2>1. loc_port_data' \in [Ports -> Descriptions \cup {None}]
    BY <1>2 DEF LocClear, Empty
  <2> QED
    BY <1>2, <2>1, RestFrame DEF LocClear, Enter, redisVars, remVars, manVars
<1>3. CASE LocReinitEnds \/ ManReinitEnds
  BY <1>3, RestFrame DEF LocReinitEnds, ManReinitEnds, Enter, redisVars, locVars, remVars, manVars
<1>4. ASSUME NEW p \in Ports, UpdateInterface(p)
      PROVE  UNCHANGED loc_port_data \/ loc_port_data' \in [Ports -> Descriptions \cup {None}]
  BY <1>4 DEF UpdateInterface, RestOK, DataOK
<1>5. CASE LocPoll
  <2> DEFINE q == pubsub["loc_port"]
  <2>1. q \in Seq(Message) /\ q # <<>> /\ Head(q).port # Unindexed
    BY <1>5 DEF LocPoll, QueuesOK, Subscribers
  <2>2. Head(q) \in Message
    BY <2>1, HeadTailProperties
  <2>3. Head(q).port \in Ports
    BY <2>1, <2>2, MessageFacts
  <2>4. UNCHANGED loc_port_data \/ loc_port_data' \in [Ports -> Descriptions \cup {None}]
    BY <1>4, <1>5, <2>3 DEF LocPoll
  <2> QED
    BY <1>5, <2>4, RestFrame DEF LocPoll, redisVars, remVars, manVars, roundVars
<1>6. CASE LocPollEnds
  <2>1. finished' \subseteq Updaters
    BY <1>6 DEF LocPollEnds, EndRound, RestOK, Updaters
  <2> QED
    BY <1>6, <2>1, RestFrame DEF LocPollEnds, EndRound, redisVars, locVars, remVars, manVars
<1>7. CASE ManClear
  <2>1. man_range' \subseteq Rows /\ struck' \subseteq Ports /\ lost' \subseteq Ports
    BY <1>7 DEF ManClear
  <2> QED
    BY <1>7, <2>1, RestFrame DEF ManClear, Enter, redisVars, locVars, remVars
<1>8. CASE GetLatestNotification
  BY <1>8, RestFrame DEF GetLatestNotification, Take, Enter, redisVars, locVars, remVars
<1>9. CASE ManEnds
  <2>1. finished' \subseteq Updaters
    BY <1>9 DEF ManEnds, EndRound, RestOK, Updaters
  <2> QED
    BY <1>9, <2>1, RestFrame DEF ManEnds, EndRound, redisVars, locVars, remVars
<1>10. ASSUME NEW p \in Ports, LocReinit(p) PROVE RestOK'
  BY <1>4, <1>10, RestFrame DEF LocReinit, Enter, redisVars, remVars, manVars
<1>11. ASSUME NEW p \in Ports, ManReinit(p) \/ ManHandle(p) PROVE RestOK'
  <2>1. man_range' \subseteq Rows
    BY <1>11, RowsOfEntry DEF ManReinit, ManHandle, RestOK
  <2>2. lost' \subseteq Ports /\ struck' \subseteq Ports
    BY <1>11 DEF ManReinit, ManHandle, RestOK
  <2> QED
    BY <1>11, <2>1, <2>2, RestFrame DEF ManReinit, ManHandle, Enter, redisVars, locVars, remVars
<1> QED
  BY <1>1, <1>2, <1>3, <1>5, <1>6, <1>7, <1>8, <1>9, <1>10, <1>11

-----------------------------------------------------------------------------
(* lldpRemTable: what has a value is listed, nothing is listed twice, and  *)
(* the interfaces that a round has still to read are not listed yet.       *)
RemInv ==
  /\ ValuesAreListed
  /\ RemTableSorted
  /\ \A i, j \in DOMAIN rem_range : rem_range[i] = rem_range[j] => i = j
  /\ At("rem_table", "loop") => \A p \in todo : p \notin ToSet(rem_range)

(* A list with an interface more.                                          *)
LEMMA Listed ==
  ASSUME NEW list \in Seq(Ports), NEW p \in Ports, p \notin ToSet(list),
         \A i, j \in DOMAIN list : list[i] = list[j] => i = j
  PROVE  /\ Append(list, p) \in Seq(Ports)
         /\ ToSet(Append(list, p)) = ToSet(list) \cup {p}
         /\ \A i, j \in DOMAIN Append(list, p) : Append(list, p)[i] = Append(list, p)[j] => i = j
<1> DEFINE more == Append(list, p)
           n == Len(list)
<1>1. /\ more \in Seq(Ports) /\ n \in Nat
      /\ DOMAIN list = 1 .. n /\ DOMAIN more = 1 .. n + 1
      /\ \A i \in 1 .. n : more[i] = list[i]
      /\ more[n + 1] = p
  BY AppendProperties, LenProperties
<1> HIDE DEF more, n
<1>2. 1 .. n + 1 = (1 .. n) \cup {n + 1} /\ n + 1 \notin 1 .. n
  BY <1>1, SMT
<1>3. \A i \in 1 .. n : list[i] # p
  BY <1>1 DEF ToSet
<1>4. ToSet(more) = ToSet(list) \cup {p}
  BY <1>1, <1>2 DEF ToSet
<1>5. \A i, j \in DOMAIN more : more[i] = more[j] => i = j
  BY <1>1, <1>2, <1>3
<1> QED
  BY <1>1, <1>4, <1>5 DEF more

LEMMA RemInit == Init => RemInv
BY LldpAssumption DEF Init, RemInv, ValuesAreListed, RemTableSorted, At, Empty, ToSet, Updaters

(* A row is read, with its value or without, or its parse raises.          *)
LEMMA RemReads ==
  ASSUME RestOK, DataOK, QueuesOK, RemInv, NEW p \in Ports, RemRead(p) \/ RemFault(p)
  PROVE  RestOK' /\ RemInv'
<1>1. At("rem_table", "loop") /\ p \in todo /\ p \notin ToSet(rem_range) /\ rem_range \in Seq(Ports)
  BY DEF RemRead, RemFault, RemInv, RestOK
<1>2. /\ rem_range' \in Seq(Ports)
      /\ ToSet(rem_range') = ToSet(rem_range) \cup (IF entry[p] = None THEN {} ELSE {p})
      /\ \A i, j \in DOMAIN rem_range' : rem_range'[i] = rem_range'[j] => i = j
  <2>1. CASE rem_range' = Append(rem_range, p) /\ entry[p] # None
    BY <1>1, <2>1, Listed DEF RemInv
  <2>2. CASE rem_range' = rem_range /\ entry[p] = None
    BY <1>1, <2>2 DEF RemInv
  <2> QED
    BY <2>1, <2>2 DEF RemRead, RemFault
<1>3. CASE RemRead(p)
  <2>1. UNCHANGED turn /\ turn = "rem_table" /\ todo' = todo \ {p}
    BY <1>1, <1>3 DEF RemRead, Enter, At
  <2>2. lldp_counters' = IF entry[p] # None /\ entry[p].caps
                         THEN [lldp_counters EXCEPT ![p] = entry[p]] ELSE lldp_counters
    BY <1>3 DEF RemRead
  <2>3. lldp_counters' \in [Ports -> Neighbours \cup {None}]
    BY <2>2 DEF RestOK, DataOK
  <2>4. ValuesAreListed'
    BY <1>2, <2>2 DEF ValuesAreListed, RemInv, RestOK
  <2>5. RemTableSorted'
    BY <2>1 DEF RemTableSorted
  <2>6. \A r \in todo' : r \notin ToSet(rem_range')
    BY <1>1, <1>2, <2>1 DEF RemInv
  <2>7. RestOK'
    BY <1>2, <1>3, <2>3, RestFrame DEF RemRead, Enter, redisVars, locVars, manVars
  <2> QED
    BY <1>2, <2>4, <2>5, <2>6, <2>7 DEF RemInv
<1>4. CASE RemFault(p)
  <2>1. turn' = None /\ "rem_table" \notin finished' /\ UNCHANGED lldp_counters
    BY <1>4 DEF RemFault
  <2>2. ValuesAreListed'
    BY <1>2, <2>1 DEF ValuesAreListed, RemInv
  <2>3. RemTableSorted' /\ ~At("rem_table", "loop")'
    BY <2>1, LldpAssumption DEF RemTableSorted, At, Updaters
  <2>4. RestOK'
    BY <1>4, RestFault DEF Raises
  <2> QED
    BY <1>2, <2>2, <2>3, <2>4 DEF RemInv
<1> QED
  BY <1>3, <1>4

(* A round begins with an empty list and ends with a sorted one.           *)
LEMMA RemClears ==
  ASSUME RestOK, RemInv, RemClear
  PROVE  RestOK' /\ RemInv'
<1>1. rem_range' = <<>> /\ lldp_counters' = Empty /\ turn' = "rem_table"
  BY DEF RemClear, Enter, At
<1>2. RestOK'
  <2>1. rem_range' \in Seq(Ports) /\ lldp_counters' \in [Ports -> Neighbours \cup {None}]
    BY <1>1, EmptySeq DEF Empty
  <2> QED
    BY <2>1, RestFrame DEF RemClear, Enter, redisVars, locVars, manVars
<1> QED
  BY <1>1, <1>2 DEF RemInv, ValuesAreListed, RemTableSorted, Empty, ToSet

LEMMA RemSorts ==
  ASSUME RestOK, RemInv, RemSort
  PROVE  RestOK' /\ RemInv'
<1>1. rem_range \in Seq(Int) /\ \A i, j \in DOMAIN rem_range : rem_range[i] = rem_range[j] => i = j
  <2>1. Ports \subseteq Int
    BY LldpAssumption
  <2>2. rem_range \in Seq(Int)
    BY <2>1, SeqMonotonic DEF RestOK
  <2> QED
    BY <2>2 DEF RemInv
<1>2. rem_range' = Sorted(rem_range) /\ UNCHANGED lldp_counters /\ turn' = None
  BY DEF RemSort, EndRound
<1>3. /\ DOMAIN rem_range' = DOMAIN rem_range /\ ToSet(rem_range') = ToSet(rem_range)
      /\ \A i, j \in DOMAIN rem_range' : i < j => rem_range'[i] < rem_range'[j]
  BY <1>1, <1>2, SortedAscends
<1>4. rem_range' \in Seq(Ports)
  <2>1. rem_range' = [k \in 1 .. Len(rem_range) |-> rem_range'[k]]
    BY <1>1, <1>2, LenProperties DEF Sorted
  <2>2. \A k \in DOMAIN rem_range' : rem_range'[k] \in Ports
    <3>1. \A r \in ToSet(rem_range) : r \in Ports
      BY LenProperties, ElementOfSeq DEF RestOK, ToSet
    <3>2. \A k \in DOMAIN rem_range' : rem_range'[k] \in ToSet(rem_range')
      BY DEF ToSet
    <3> QED
      BY <1>3, <3>1, <3>2
  <2>3. Len(rem_range) \in Nat /\ DOMAIN rem_range = 1 .. Len(rem_range)
    BY <1>1, LenProperties
  <2> QED
    BY <1>3, <2>1, <2>2, <2>3
<1>5. \A i, j \in DOMAIN rem_range' : rem_range'[i] = rem_range'[j] => i = j
  <2>1. DOMAIN rem_range' \subseteq Int /\ \A i \in DOMAIN rem_range' : rem_range'[i] \in Int
    <3>1. DOMAIN rem_range' \subseteq Int
      BY <1>1, <1>3, LenProperties
    <3>2. \A i \in DOMAIN rem_range' : rem_range'[i] \in Ports
      BY <1>4, LenProperties, ElementOfSeq
    <3>3. Ports \subseteq Int
      BY LldpAssumption
    <3> QED
      BY <3>1, <3>2, <3>3
  <2> QED
    BY <1>3, <2>1, SMT
<1>6. RestOK'
  <2>1. finished' \subseteq Updaters
    BY DEF RemSort, EndRound, RestOK, Updaters
  <2> QED
    BY <1>4, <2>1, RestFrame DEF RemSort, EndRound, redisVars, locVars, manVars
<1>7. ValuesAreListed' /\ RemTableSorted' /\ ~At("rem_table", "loop")'
  BY <1>2, <1>3, LldpAssumption DEF RemInv, ValuesAreListed, RemTableSorted, At, Updaters
<1> QED
  BY <1>5, <1>6, <1>7 DEF RemInv

(* The steps that leave the table alone.                                   *)
LEMMA RemElsewhere ==
  ASSUME RemInv, UNCHANGED remVars,
         ~(turn' = "rem_table" /\ step' = "loop") \/ UNCHANGED <<turn, step, todo>>,
         "rem_table" \in finished' => "rem_table" \in finished,
         turn = "rem_table" => turn' = "rem_table" \/ "rem_table" \notin finished'
  PROVE  RemInv'
BY DEF RemInv, ValuesAreListed, RemTableSorted, At, remVars

LEMMA LldpStep == RestOK /\ DataOK /\ QueuesOK /\ RemInv /\ [Next]_vars => RestOK' /\ RemInv'
<1> SUFFICES ASSUME RestOK, DataOK, QueuesOK, RemInv, [Next]_vars PROVE RestOK' /\ RemInv'
  OBVIOUS
<1>1. CASE Redis
  <2>1. UNCHANGED <<remVars, turn, step, todo, finished>>
    BY <1>1 DEF Redis, EntryChanges, UnindexedChanges, PortChanges, updaterVars, roundVars
  <2> QED
    BY <1>1, <2>1, RestRedis, RemElsewhere
<1>2. ASSUME NEW u \in Updaters, Wake(u) \/ WakeReinit(u) PROVE RestOK' /\ RemInv'
  <2>1. UNCHANGED <<remVars, finished>> /\ turn = None /\ step' # "loop"
    BY <1>2 DEF Wake, WakeReinit
  <2>2. RemInv'
    BY <2>1, RemElsewhere, LldpAssumption DEF At, Updaters
  <2> QED
    BY <1>2, <2>2, RestWake
<1>3. CASE Fault
  <2>1. UNCHANGED remVars /\ turn' = None /\ finished' = finished \ {turn}
    BY <1>3 DEF Fault
  <2>2. RemInv'
    BY <2>1, RemElsewhere, LldpAssumption DEF At, Updaters
  <2> QED
    BY <1>3, <2>2, RestFault DEF Raises
<1>4. ASSUME NEW p \in Ports, RemRead(p) \/ RemFault(p) PROVE RestOK' /\ RemInv'
  BY <1>4, RemReads
<1>5. CASE RemClear
  BY <1>5, RemClears
<1>6. CASE RemSort
  BY <1>6, RemSorts
<1>7. CASE \/ \E u \in Subscribers : Subscribe(u)
           \/ LocClear \/ LocReinitEnds \/ LocPoll \/ LocPollEnds
           \/ ManClear \/ ManReinitEnds \/ GetLatestNotification \/ ManEnds
           \/ \E p \in Ports : LocReinit(p) \/ ManReinit(p) \/ ManHandle(p)
  <2> SUFFICES RemInv'
    BY <1>7, RestSets
  <2>1. CASE LocPoll \/ \E u \in Subscribers : Subscribe(u)
    <3>1. UNCHANGED <<remVars, turn, step, todo, finished>>
      BY <2>1 DEF Subscribe, LocPoll, roundVars
    <3> QED
      BY <3>1, RemElsewhere
  <2>2. CASE LocPollEnds \/ ManEnds
    <3>1. UNCHANGED remVars /\ turn' = None /\ turn # "rem_table"
          /\ ("rem_table" \in finished' => "rem_table" \in finished)
      BY <2>2 DEF LocPollEnds, ManEnds, EndRound, At
    <3>2. turn' # "rem_table"
      BY <3>1, LldpAssumption DEF Updaters
    <3> QED
      BY <3>1, <3>2, RemElsewhere
  <2>3. CASE LocClear \/ LocReinitEnds \/ ManClear \/ ManReinitEnds \/ GetLatestNotification
             \/ \E p \in Ports : LocReinit(p) \/ ManReinit(p) \/ ManHandle(p)
    <3>1. UNCHANGED <<remVars, finished, turn>> /\ turn # "rem_table"
      BY <2>3 DEF LocClear, LocReinitEnds, ManClear, ManReinitEnds, GetLatestNotification, Take, LocReinit, ManReinit,
                  ManHandle, Enter, At
    <3>2. turn' = turn /\ turn' # "rem_table"
      BY <3>1
    <3> QED
      BY <3>1, <3>2, RemElsewhere
  <2> QED
    BY <1>7, <2>1, <2>2, <2>3
<1>8. CASE UNCHANGED vars
  <2>1. UNCHANGED <<running, entry, port_table, changes, loc_port_data, rem_range, lldp_counters, man_range, batch, struck,
                    lost, turn, step, todo, pubsub, oid_name_map, finished, faults>>
    BY <1>8 DEF vars, redisVars, locVars, remVars, manVars, roundVars
  <2> QED
    BY <2>1, RestFrame, RemElsewhere DEF remVars
<1> QED
  BY <1>1, <1>2, <1>3, <1>4, <1>5, <1>6, <1>7, <1>8, Zenon DEF Next, Round, Raises

LEMMA LldpInvariant == Spec => [](RestOK /\ DataOK /\ QueuesOK /\ RemInv)
<1>1. Init => RestOK /\ DataOK /\ QueuesOK /\ RemInv
  BY RestInit, DataInit, QueuesInit, RemInit
<1>2. RestOK /\ DataOK /\ QueuesOK /\ RemInv /\ [Next]_vars => RestOK' /\ DataOK' /\ QueuesOK' /\ RemInv'
  BY LldpStep, DataStep, QueuesStep
<1> QED
  BY <1>1, <1>2, PTL DEF Spec

(* For any interfaces, neighbours and descriptions: every variable keeps   *)
(* its type, in and between the rounds of the three updaters.              *)
THEOREM LldpTypeCorrect == Spec => []TypeOK
<1>1. RestOK /\ DataOK /\ QueuesOK => TypeOK
  BY DEF RestOK, DataOK, QueuesOK, TypeOK
<1> QED
  BY <1>1, LldpInvariant, PTL

(* For any order of the name map, and whatever raised before: the list of   *)
(* lldpRemTable is strictly ascending when its last round raised nothing.  *)
THEOREM RemTableSortedHolds == Spec => []RemTableSorted
<1>1. RemInv => RemTableSorted
  BY DEF RemInv
<1> QED
  BY <1>1, LldpInvariant, PTL

(* However a round ends, lldpRemTable has values for no interface that it   *)
(* does not list.                                                          *)
THEOREM ValuesAreListedHolds == Spec => []ValuesAreListed
<1>1. RemInv => ValuesAreListed
  BY DEF RemInv
<1> QED
  BY <1>1, LldpInvariant, PTL

=============================================================================
