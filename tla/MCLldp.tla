------------------------------- MODULE MCLldp -------------------------------
(* Lldp with two interfaces and two neighbours: one whose time mark is the   *)
(* index of an interface, one without the capability keys.                   *)
EXTENDS Lldp

MCNeighbours == {
  [mark |-> 2, addrs |-> {"addr1"}, caps |-> TRUE],
  [mark |-> 9, addrs |-> {"addr1", "addr2"}, caps |-> FALSE]}

MCProcesses == {{u} : u \in Updaters}

=============================================================================
