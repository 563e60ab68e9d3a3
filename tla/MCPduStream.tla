----------------------------- MODULE MCPduStream -----------------------------
(* PduStream with requests of one and of two search ranges, a Response to a  *)
(* Register PDU and a PDU that is not answered.                              *)
EXTENDS PduStream

MCPdus == {
  [type |-> "request", items |-> 1, error |-> "none"], [type |-> "request", items |-> 2, error |-> "none"],
  [type |-> "response", items |-> 1, error |-> "none"], [type |-> "other", items |-> 0, error |-> "none"]}

MCOpens == {[type |-> "response", items |-> 0, error |-> e] : e \in Errors}

=============================================================================
