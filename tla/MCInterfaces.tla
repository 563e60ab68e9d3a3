---------------------------- MODULE MCInterfaces ----------------------------
(* Interfaces with two ports, a LAG over both, a VLAN and the management     *)
(* port, router interface 61 on a port and 62 on the LAG, and counters of    *)
(* one and of two bits.                                                      *)
EXTENDS Interfaces, TLC, Functions

MCOwner == 61 :> 1 @@ 62 :> 1001
MCWidth == [ifTable |-> 2, ifXTable |-> 4]
MCInitial == 1 :> 1 @@ 2 :> 3

\* SumOf, the cardinality of what is counted, is the sum.
ASSUME \A f \in UNION {[S -> 0 .. 3] : S \in SUBSET {1, 2, 3}} : SumOf(f) = SumFunction(f)

=============================================================================
