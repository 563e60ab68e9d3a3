------------------------------ MODULE MibTable ------------------------------
(***************************************************************************)
(* MIBTable: Get and GetNext over the OIDs of the sub-agent, while the     *)
(* updaters' rounds replace what the entries iterate over and return.  A   *)
(* request is served without an await, so a round falls between two        *)
(* requests; a manager's walk is many requests, and any number of rounds   *)
(* fall between them.                                                      *)
(*                                                                         *)
(* An OID is a tuple of numbers.  An entry has a prefix and is either      *)
(* static (MIBEntry: one value, whatever the sub-id) or a subtree          *)
(* (SubtreeMIBEntry: an iterator over sub-ids and a callable), which an    *)
(* OidMIBEntry over SNMP_OVERLAY_DB may overlay.  Values are abstracted to *)
(* where they come from.                                                   *)
(***************************************************************************)
EXTENDS Integers, Sequences, FiniteSets, SequencesExt

CONSTANTS
  Statics,    \* the prefixes of the MIBEntry objects
  Subtrees,   \* the prefixes of the SubtreeMIBEntry objects
  Overlays,   \* the subtrees wrapped in an OverlayAdpaterMIBEntry
  SubIds,     \* the sub-ids that an iterator may list
  Starts,     \* the OIDs that a search range may start with
  Ends,       \* the OIDs that a search range may end with
  None        \* Python's None

prefixes == Statics \cup Subtrees

Nested(p, q) == p # q /\ IsPrefix(p, q)

Values == {"underlay", "overlay"}

\* No entry of SonicMIB has a prefix inside another's.
ASSUME TableAssumption ==
  /\ Statics \cap Subtrees = {} /\ Overlays \subseteq Subtrees
  /\ prefixes \subseteq Seq(Nat) \ {<<>>} /\ SubIds \subseteq Seq(Nat) \ {<<>>}
  /\ Starts \cup Ends \subseteq Seq(Nat)
  /\ prefixes # {} /\ IsFiniteSet(prefixes) /\ IsFiniteSet(SubIds)
  /\ \A p, q \in prefixes : ~Nested(p, q)
  /\ None \notin Seq(Nat) \cup Values \cup [name : Seq(Nat), type : {"value"}, value : Values]

VARIABLES
  present,  \* the static entries whose callable returns a value
  listed,   \* what the iterator of each subtree yields, its sorted list as a set
  held,     \* the sub-ids for which the callable of each subtree returns a value
  overlay,  \* the sub-ids that SNMP_OVERLAY_DB gives a value for, in oid_map
  cursor,   \* the name a walk has reached, None when there is no walk
  owed,     \* names that had a value ever since the walk began, not yet returned
  torn      \* the subtrees that listed a sub-id without a value since it began

tableVars == <<present, listed, held, overlay>>
walkVars  == <<cursor, owed, torn>>
vars == <<tableVars, walkVars>>

-----------------------------------------------------------------------------
(* Tuples: Python's order is lexicographic.                                *)

Before(a, b) ==
  \/ IsStrictPrefix(a, b)
  \/ \E i \in DOMAIN a \cap DOMAIN b :
       /\ a[i] < b[i]
       /\ \A j \in 1 .. i - 1 : a[j] = b[j]

Least(S) == CHOOSE a \in S : \A b \in S : a = b \/ Before(a, b)
Greatest(S) == CHOOSE a \in S : \A b \in S : a = b \/ Before(b, a)

-----------------------------------------------------------------------------
(* The entries.                                                            *)

get_sub_id(p, oid) == SubSeq(oid, Len(p) + 1, Len(oid))
replace_sub_id(p, sub_id) == p \o sub_id

\* mib_entry(sub_id): an overlay is asked first.
Call(p, sub_id) ==
  IF p \in Statics THEN IF p \in present THEN "underlay" ELSE None
  ELSE IF p \in Overlays /\ sub_id \in overlay[p] THEN "overlay"
  ELSE IF sub_id \in held[p] THEN "underlay" ELSE None

\* Fault: bisect_left, which finds an equal sub-id again.
NextSubId_BisectLeft(p, sub_id) ==
  IF p \in Statics THEN None
  ELSE LET later == {k \in listed[p] : k = sub_id \/ Before(sub_id, k)}
       IN  IF later = {} THEN None ELSE Least(later)

\* mib_entry.get_next(sub_id): a bisect_right in the iterator's sorted list.
NextSubId(p, sub_id) ==
  IF p \in Statics THEN None
  ELSE LET later == {k \in listed[p] : Before(sub_id, k)}
       IN  IF later = {} THEN None ELSE Least(later)

\* next(iter(mib_entry)): a static entry yields the empty sub-id.
FirstSubId(p) == IF p \in Statics THEN <<>> ELSE NextSubId(p, <<>>)

-----------------------------------------------------------------------------
(* The lookups.                                                            *)

Found(name, value) == [name |-> name, type |-> "value", value |-> value]
NotFound(name, type) == [name |-> name, type |-> type, value |-> None]

FindParentPrefix(oid) ==
  LET preceding == {p \in prefixes : p = oid \/ Before(p, oid)}
  IN  IF preceding # {} /\ IsPrefix(Greatest(preceding), oid)
      THEN Greatest(preceding) ELSE None

ValueAt(oid) ==
  LET p == FindParentPrefix(oid)
  IN  IF p = None THEN None ELSE Call(p, get_sub_id(p, oid))

Get(start) ==
  LET value == ValueAt(start)
  IN  IF value # None THEN Found(start, value)
      ELSE NotFound(start, IF FindParentPrefix(start) # None THEN "noSuchInstance" ELSE "noSuchObject")

\* What entry p answers with a sub-id that its iterator gave.
Answer(p, sub_id) ==
  IF sub_id = None THEN None
  ELSE IF Call(p, sub_id) = None THEN None
  ELSE Found(replace_sub_id(p, sub_id), Call(p, sub_id))

\* _get_nextvalue(parent_mib_entry, start_key).
NextInParent(start) ==
  LET p == FindParentPrefix(start)
  IN  IF p = None THEN None ELSE Answer(p, NextSubId(p, get_sub_id(p, start)))

\* Fault: a subtree without data ends the view.
NextInFollowing_StopsAtEmpty(start, end) ==
  LET remaining == {p \in prefixes : Before(start, p) /\ Before(p, end)}
  IN  IF remaining = {} THEN None
      ELSE Answer(Least(remaining), FirstSubId(Least(remaining)))

\* The first answer of the prefixes that remain before the end.
NextInFollowing(start, end) ==
  LET remaining == {p \in prefixes : Before(start, p) /\ Before(p, end)}
      usable == {p \in remaining : Answer(p, FirstSubId(p)) # None}
  IN  IF usable = {} THEN None ELSE Answer(Least(usable), FirstSubId(Least(usable)))

\* Fault: `include` is looked at after the successor.
GetNext_IncludeLast(sr) ==
  LET nearby == NextInParent(sr.start)
      here   == ValueAt(sr.start)
      beyond == NextInFollowing(sr.start, sr.end)
  IN  IF nearby # None THEN nearby
      ELSE IF sr.include /\ here # None THEN Found(sr.start, here)
      ELSE IF beyond # None THEN beyond
      ELSE NotFound(sr.start, "endOfMibView")

\* Fault: the entry that holds the start is the only one looked at.
GetNext_InParentOnly(sr) ==
  LET here   == ValueAt(sr.start)
      nearby == NextInParent(sr.start)
      beyond == NextInFollowing(sr.start, sr.end)
  IN  IF sr.include /\ here # None THEN Found(sr.start, here)
      ELSE IF nearby # None THEN nearby
      ELSE IF FindParentPrefix(sr.start) = None /\ beyond # None THEN beyond
      ELSE NotFound(sr.start, "endOfMibView")

GetNext(sr) ==
  LET here   == ValueAt(sr.start)
      nearby == NextInParent(sr.start)
      beyond == NextInFollowing(sr.start, sr.end)
  IN  IF sr.include /\ here # None THEN Found(sr.start, here)
      ELSE IF nearby # None THEN nearby
      ELSE IF beyond # None THEN beyond
      ELSE NotFound(sr.start, "endOfMibView")

\* GetPDU.make_response and GetNextPDU.make_response: every search range is
\* looked up in turn, in one step of the event loop.
GetResponse(ranges) == [i \in DOMAIN ranges |-> Get(ranges[i].start)]
GetNextResponse(ranges) == [i \in DOMAIN ranges |-> GetNext(ranges[i])]

-----------------------------------------------------------------------------
(* The state machine.                                                      *)

\* The names of the variables instantiated: what a walk is to return.
Instances ==
  {s \in Statics : s \in present} \cup
  UNION {{replace_sub_id(p, k) : k \in {k \in listed[p] : Call(p, k) # None}} : p \in Subtrees}

TornNow == {p \in Subtrees : \E k \in listed[p] : Call(p, k) = None}

TypeOK ==
  /\ present \subseteq Statics
  /\ listed \in [Subtrees -> SUBSET SubIds]
  /\ held \in [Subtrees -> SUBSET SubIds]
  /\ overlay \in [Overlays -> SUBSET SubIds]
  /\ cursor \in Seq(Nat) \cup {None}
  /\ owed \subseteq Seq(Nat)
  /\ torn \subseteq Subtrees

\* Before the first round the updaters' lists and maps are empty.
Init ==
  /\ present = {}
  /\ listed = [p \in Subtrees |-> {}]
  /\ held = [p \in Subtrees |-> {}]
  /\ overlay = [p \in Overlays |-> {}]
  /\ cursor = None
  /\ owed = {}
  /\ torn = {}

\* The walk's history, after a round: a name stays owed only if it kept its value.
WalkSeesRound ==
  /\ owed' = owed \cap Instances'
  /\ torn' = IF cursor = None THEN torn ELSE torn \cup TornNow'
  /\ UNCHANGED cursor

\* Fault: the iterator's list holds whole names.
RebuildSubtree_WholeNames(p) ==
  /\ \E K, H \in SUBSET SubIds :
       /\ listed' = [listed EXCEPT ![p] = {replace_sub_id(p, k) : k \in K}]
       /\ held' = [held EXCEPT ![p] = H]
  /\ UNCHANGED <<present, overlay>>
  /\ WalkSeesRound

\* The round of the updater of a subtree.  It may leave a sub-id listed without
\* a value (a counter that COUNTERS_DB does not have, a round that raised after
\* the list was replaced) or a value without its sub-id listed.
RebuildSubtree(p) ==
  /\ \E K, H \in SUBSET SubIds :
       /\ listed' = [listed EXCEPT ![p] = K]
       /\ held' = [held EXCEPT ![p] = H]
  /\ UNCHANGED <<present, overlay>>
  /\ WalkSeesRound

\* The round of RedisOidTreeUpdater: any keys, or those before one it rejects.
RebuildOverlay(p) ==
  /\ \E H \in SUBSET SubIds : overlay' = [overlay EXCEPT ![p] = H]
  /\ UNCHANGED <<present, listed, held>>
  /\ WalkSeesRound

\* The round of the updater of a static entry.
RebuildStatic(p) ==
  /\ present' \in {present \cup {p}, present \ {p}}
  /\ UNCHANGED <<listed, held, overlay>>
  /\ WalkSeesRound

\* The end of a walk's search ranges: after every prefix.
ViewEnd == <<Greatest(prefixes)[1] + 1>>

\* A manager begins a walk at the root of the table.
WalkStarts ==
  /\ cursor = None
  /\ cursor' = <<>>
  /\ owed' = Instances
  /\ torn' = TornNow
  /\ UNCHANGED tableVars

WalkResponse ==
  GetNextResponse(<<[start |-> cursor, end |-> ViewEnd, include |-> FALSE]>>)[1]

\* It asks for the successor of the name it has reached, and has a value for it.
WalkContinues ==
  /\ cursor # None
  /\ WalkResponse.type = "value"
  /\ cursor' = WalkResponse.name
  /\ owed' = owed \ {WalkResponse.name}
  /\ UNCHANGED <<torn, tableVars>>

\* endOfMibView ends it.
WalkEnds ==
  /\ cursor # None
  /\ WalkResponse.type = "endOfMibView"
  /\ cursor' = None
  /\ owed' = {}
  /\ torn' = {}
  /\ UNCHANGED tableVars

Next ==
  \/ \E p \in Subtrees : RebuildSubtree(p)
  \/ \E p \in Overlays : RebuildOverlay(p)
  \/ \E p \in Statics : RebuildStatic(p)
  \/ WalkStarts \/ WalkContinues \/ WalkEnds

Spec == Init /\ [][Next]_vars

-----------------------------------------------------------------------------
(* Properties.                                                             *)

SearchRanges ==
  {sr \in [start : Starts, end : Ends, include : BOOLEAN] : Before(sr.start, sr.end)}

ParentOf(name) == CHOOSE p \in prefixes : IsPrefix(p, name)

\* The names a search range asks for, by the words of GetNextPDU.make_response.
InRange(sr) ==
  {n \in Instances : /\ Before(sr.start, n) \/ (sr.include /\ n = sr.start)
                     /\ Before(n, sr.end)}

\* Whether the subtree of a name lists, past the start and before that name, a
\* sub-id without a value: the code then leaves the subtree.
Obstructed(sr, name) ==
  LET p == ParentOf(name)
  IN  /\ p \in Subtrees
      /\ \E k \in listed[p] : /\ Call(p, k) = None
                              /\ Before(sr.start, replace_sub_id(p, k))
                              /\ Before(replace_sub_id(p, k), name)

\* GetNext answers with the closest successor of the start, in whatever entry it
\* is and however many entries without data lie between, unless a sub-id without
\* a value obstructs it.  (Checked between walks, in every state of the table.)
ClosestSuccessor ==
  cursor = None =>
    \A sr \in SearchRanges :
      LET wanted == Least(InRange(sr))
          answer == GetNext(sr)
      IN  InRange(sr) # {} /\ ~Obstructed(sr, wanted) =>
            \/ answer = Found(wanted, Call(ParentOf(wanted), get_sub_id(ParentOf(wanted), wanted)))
            \/ sr.include /\ answer = Get(sr.start)

\* Get and GetNext agree: what GetNext returns, Get returns for that name, and a
\* name that Get has a value for is what an inclusive GetNext from it returns.
GetAgrees ==
  cursor = None =>
    \A sr \in SearchRanges :
      LET answer == GetNext(sr)
      IN  /\ answer.type = "value" => Get(answer.name) = answer
          /\ sr.include /\ ValueAt(sr.start) # None => answer.name = sr.start

\* A walk goes strictly upwards, whatever rounds fall between its requests: a
\* manager that sees a name repeat or decrease aborts the walk.  The table has
\* finitely many names, so a walk that ascends also ends.
WalkAscends ==
  cursor # None /\ WalkResponse.type = "value" => Before(cursor, WalkResponse.name)

\* A walk that is told endOfMibView has returned every name that kept its value
\* since the walk began, though rounds replaced the lists around it, except in a
\* subtree that meanwhile listed a sub-id without a value.
WalkComplete ==
  cursor # None /\ WalkResponse.type = "endOfMibView" => \A n \in owed : ParentOf(n) \in torn

=============================================================================
