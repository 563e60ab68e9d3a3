------------------------------ MODULE PduStream ------------------------------
(***************************************************************************)
(* The byte stream from the master to the sub-agent: PDUStream and         *)
(* PDU.decode of pdu.py, the PDUs of pdu_implementations.py, and           *)
(* AgentX.data_received of protocol.py, which answers them.                *)
(*                                                                         *)
(* asyncio hands over what the socket has, a chunk; a PDU may be cut by    *)
(* the end of a chunk anywhere.  Each chunk is decoded on its own: what    *)
(* data_received has not understood when it returns is gone.               *)
(*                                                                         *)
(* A PDU is a header and a number of fields: the search ranges of a        *)
(* request; the fixed fields of a Response and its VarBinds.  Each of them *)
(* is two parts, and a cut between the two stands for one anywhere in it:  *)
(* the bytes of it that are there cannot be unpacked.                      *)
(***************************************************************************)
EXTENDS Integers, Sequences, SequencesExt

CONSTANTS
  Pdus,     \* what the master may send after the session is open
  Opens,    \* what it may answer the Open PDU
  None,     \* session_id -1
  Session,  \* the session id that the master gives
  Garbled,  \* one read at the wrong place
  MaxPdus   \* bound: PDUs on a connection

Header == 2
Field == 2

Errors == {"none", "parseError", "openFailed", "inconsistent"}

\* items: the search ranges of a request, the VarBinds of a Response.  A PDU of type
\* "other" has no make_response (Close, TestSet, Ping...) or no class (GetBulk...).
Body(p) ==
  CASE p.type = "request" -> Field * p.items
    [] p.type = "response" -> Field * (1 + p.items)
    [] OTHER -> 0

Size(p) == Header + Body(p)

ASSUME StreamAssumption ==
  /\ \A p \in Pdus \cup Opens :
       p.type \in {"request", "response", "other"} /\ p.items \in Nat /\ p.error \in Errors
  /\ \A p \in Opens : p.type = "response"
  /\ None # Session /\ None # Garbled /\ Session # Garbled
  /\ MaxPdus \in Nat

VARIABLES
  pdus,       \* what the master has sent on this connection; the first answers the Open
  stream,     \* their parts: the PDU's place in pdus and the part's in the PDU
  received,   \* how many parts have been handed to data_received
  read,       \* how many it has consumed or dropped: fewer while it runs
  session_id,
  closing,    \* transport.close() was called
  answers,    \* the Responses written: the request's place in pdus, and its VarBinds
  failed,     \* history: the requests whose lookup raised
  due         \* history: the PDUs of the last chunk that nothing keeps it from handling

vars == <<pdus, stream, received, read, session_id, closing, answers, failed, due>>

Sessions == {None, Session, Garbled}

TypeOK ==
  /\ pdus \in Seq(Pdus \cup Opens)
  /\ stream \in Seq([pdu : DOMAIN pdus, part : Nat \ {0}])
  /\ received \in 0 .. Len(stream) /\ read \in 0 .. received
  /\ session_id \in Sessions
  /\ closing \in BOOLEAN
  /\ answers \in Seq([pdu : DOMAIN pdus, items : Nat])
  /\ failed \subseteq DOMAIN pdus /\ due \subseteq DOMAIN pdus

Init ==
  /\ pdus = <<>> /\ stream = <<>>
  /\ received = 0 /\ read = 0
  /\ session_id = None /\ closing = FALSE
  /\ answers = <<>> /\ failed = {} /\ due = {}

-----------------------------------------------------------------------------
(* The master and the transport.                                           *)

\* The master answers the Open PDU first; it sends requests for what the agent has
\* registered under the session that it has given it.
Send(p) ==
  /\ Len(pdus) < MaxPdus
  /\ IF pdus = <<>> THEN p \in Opens ELSE p \in Pdus /\ session_id = Session
  /\ pdus' = Append(pdus, p)
  /\ stream' = stream \o [k \in 1 .. Size(p) |-> [pdu |-> Len(pdus) + 1, part |-> k]]
  /\ UNCHANGED <<received, read, session_id, closing, answers, failed, due>>

\* The PDUs that lie whole in parts from .. to, behind PDUs that do and that
\* data_received can handle, if the first of the parts begins a PDU.
Handleable(from, to) ==
  LET whole == {i \in DOMAIN pdus :
                  \E n \in from .. to - Size(pdus[i]) + 1 : stream[n] = [pdu |-> i, part |-> 1]}
  IN  IF stream[from].part # 1 THEN {}
      ELSE {i \in whole : \A j \in 1 .. i : j \in whole => pdus[j].type # "other"}

\* A chunk of k parts arrives.  The event loop runs data_received to its end before
\* it reads on.
Receive(k) ==
  /\ read = received /\ ~closing
  /\ received' = received + k
  /\ due' = Handleable(received + 1, received + k)
  /\ UNCHANGED <<pdus, stream, read, session_id, closing, answers, failed>>

\* The connection is lost, by the master or after a close; the next one has a new
\* protocol object.
Lost ==
  /\ read = received
  /\ pdus' = <<>> /\ stream' = <<>>
  /\ received' = 0 /\ read' = 0
  /\ session_id' = None /\ closing' = FALSE
  /\ answers' = <<>> /\ failed' = {} /\ due' = {}

-----------------------------------------------------------------------------
(* data_received, one PDU after the other.                                 *)

link == <<pdus, stream, received, due>>

Available == received - read
First == stream[read + 1]
This == pdus[First.pdu]

\* Fault: payload_length is not looked at.
BodyRead_ToTheEnd == Available - Header

\* What follows the header of the PDU at hand in this chunk, of its own parts: a
\* request and a Response read no further than payload_length.
BodyRead == IF Available - Header < Body(This) THEN Available - Header ELSE Body(This)

\* An exception ends the loop: the rest of the chunk is dropped.
Drop == read' = received

\* The PDU at hand begins at a header.
Aligned == read < received /\ First.part = 1

\* Less than a header, or a PDU without a class or without make_response.
Raise ==
  /\ Aligned
  /\ Available < Header \/ This.type = "other"
  /\ Drop
  /\ UNCHANGED <<link, session_id, closing, answers, failed>>

At(t) == Aligned /\ Available >= Header /\ This.type = t

\* A search range or a VarBind that is cut cannot be unpacked, nor a Response without
\* its fixed fields.
Cut ==
  /\ \/ At("request") /\ BodyRead % Field # 0
     \/ At("response") /\ (BodyRead % Field # 0 \/ BodyRead = 0)
  /\ Drop
  /\ UNCHANGED <<link, session_id, closing, answers, failed>>

\* Fault: the next PDU is looked for where this one should end.
Answer_SkipsLength ==
  /\ At("request") /\ BodyRead % Field = 0
  /\ answers' = Append(answers, [pdu |-> First.pdu, items |-> BodyRead \div Field])
  /\ read' = read + Header + Body(This)
  /\ UNCHANGED <<link, session_id, closing, failed>>

\* Fault: one PDU of a chunk is decoded.
Answer_Once ==
  /\ At("request") /\ BodyRead % Field = 0
  /\ answers' = Append(answers, [pdu |-> First.pdu, items |-> BodyRead \div Field])
  /\ Drop
  /\ UNCHANGED <<link, session_id, closing, failed>>

\* make_response over the search ranges that are there.  The session id of the
\* request is not looked at.
Answer ==
  /\ At("request") /\ BodyRead % Field = 0
  /\ answers' = Append(answers, [pdu |-> First.pdu, items |-> BodyRead \div Field])
  /\ read' = read + Header + BodyRead
  /\ UNCHANGED <<link, session_id, closing, failed>>

\* A lookup in the table raises, or what it returns cannot be encoded.
LookupRaises ==
  /\ At("request") /\ BodyRead % Field = 0
  /\ failed' = failed \cup {First.pdu}
  /\ Drop
  /\ UNCHANGED <<link, session_id, closing, answers>>

\* parse_response, and register_subtrees under the session that it stores.  Later
\* Responses are only logged.
ParseResponse(error, id) ==
  IF session_id # None THEN UNCHANGED <<session_id, closing>>
  ELSE /\ session_id' = IF error = "none" THEN id ELSE None
       /\ closing' = (closing \/ error = "parseError")

HandleResponse ==
  /\ At("response") /\ BodyRead % Field = 0 /\ BodyRead # 0
  /\ ParseResponse(This.error, Session)
  /\ read' = read + Header + BodyRead
  /\ session_id # None \/ This.error # "inconsistent"
  /\ UNCHANGED <<link, answers, failed>>

\* AgentError: no session, and an error that does not answer an Open PDU.
Inconsistent ==
  /\ At("response") /\ BodyRead % Field = 0 /\ BodyRead # 0
  /\ session_id = None /\ This.error = "inconsistent"
  /\ Drop
  /\ UNCHANGED <<link, session_id, closing, answers, failed>>

\* The rest of a PDU is read as a header.  Mostly it has no known type or cannot be
\* unpacked; it may look like a request, which is answered under a packet id that no
\* one waits for (answers has no record of it), or like a Response.
Misread(k, error) ==
  /\ read < received /\ First.part # 1
  /\ \/ Drop /\ UNCHANGED <<session_id, closing>>
     \/ read' = read + k /\ UNCHANGED <<session_id, closing>>
     \/ /\ session_id # None \/ error # "inconsistent"
        /\ read' = read + k /\ ParseResponse(error, Garbled)
  /\ UNCHANGED <<link, answers, failed>>

DataReceived ==
  \/ Raise \/ Cut \/ Answer \/ LookupRaises \/ HandleResponse \/ Inconsistent
  \/ \E k \in 0 .. Available, error \in Errors : Misread(k, error)

Next ==
  \/ \E p \in Pdus \cup Opens : Send(p)
  \/ \E k \in 1 .. Len(stream) - received : Receive(k)
  \/ Lost
  \/ DataReceived

Spec == Init /\ [][Next]_vars

-----------------------------------------------------------------------------
(* Properties.                                                             *)

\* Wherever the chunks end and whatever raises in them, no request is answered twice,
\* the answers come in the order of the requests, and none has more VarBinds than
\* its request has search ranges.
AnswersMatch ==
  /\ \A i, j \in DOMAIN answers : i < j => answers[i].pdu < answers[j].pdu
  /\ \A i \in DOMAIN answers :
       pdus[answers[i].pdu].type = "request" /\ answers[i].items <= pdus[answers[i].pdu].items

Answered(i) == [pdu |-> i, items |-> pdus[i].items] \in ToSet(answers)

\* A chunk has dealt with PDU i: a request is answered in full, the answer to the Open
\* PDU has opened the session, or a lookup for a PDU of the chunk raised before.
Handled(i) ==
  \/ pdus[i].type = "request" /\ Answered(i)
  \/ pdus[i].type = "response" /\ (pdus[i].error = "none" => session_id # None)
  \/ \E j \in failed \cap due : j <= i

\* A chunk that begins with a PDU is handled up to its first administrative PDU, the
\* first lookup that raises, or the PDU that its end cuts, even if the chunk before
\* was cut: its requests are answered in full, and the answer to the Open PDU opens
\* the session.
ChunkIsHandled == read = received => \A i \in due : Handled(i)

=============================================================================
