---------------------------- MODULE SortedLists ----------------------------
(***************************************************************************)
(* list.sort(): the lists of sub OIDs that get_next searches by bisection. *)
(***************************************************************************)
EXTENDS Integers, Sequences, FiniteSets

\* How many elements come up to the i-th: those below it, and of those equal to it
\* the ones in front of it.
PlaceOf(list, i) ==
  Cardinality({j \in DOMAIN list : list[j] < list[i] \/ (list[j] = list[i] /\ j <= i)})

Sorted(list) == [k \in DOMAIN list |-> list[CHOOSE i \in DOMAIN list : PlaceOf(list, i) = k]]

=============================================================================
