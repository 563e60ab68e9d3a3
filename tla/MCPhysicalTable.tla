--------------------------- MODULE MCPhysicalTable ---------------------------
(* PhysicalTable with a drawer and its fan, and a transceiver.                *)
EXTENDS PhysicalTable

MCParent   == [f \in Fans |-> "drawer1"]
MCPosition == [e \in Entities |-> 1]
=============================================================================
