----------------------------- MODULE CachedTable -----------------------------
(***************************************************************************)
(* What an updater that copies a Redis table promises: the value that it   *)
(* shows for a key is one that it read from that key since it last cleared *)
(* the copy.  It may show an old value and it may show none; it never      *)
(* invents one, gives a key the value of another, or goes back from a      *)
(* value that it read later to one that it read earlier.                   *)
(***************************************************************************)
CONSTANTS
  Keys,     \* the keys of the table
  Values,   \* what a key may hold
  Nothing   \* no such key in Redis, no such key in the copy; it is not in Values

VARIABLES
  db,     \* the table in Redis
  shown   \* the updater's copy

vars == <<db, shown>>

Contents == [Keys -> Values \cup {Nothing}]

Init ==
  /\ db \in Contents
  /\ shown = [k \in Keys |-> Nothing]

\* Some other program writes or deletes a key.
Change ==
  /\ db' \in Contents
  /\ UNCHANGED shown

\* The updater reads one key.
Read(k) ==
  /\ shown' = [shown EXCEPT ![k] = db[k]]
  /\ UNCHANGED db

\* The updater starts to build its copy again.
Clear ==
  /\ shown' = [k \in Keys |-> Nothing]
  /\ UNCHANGED db

Next == Change \/ Clear \/ \E k \in Keys : Read(k)

Spec == Init /\ [][Next]_vars

=============================================================================
