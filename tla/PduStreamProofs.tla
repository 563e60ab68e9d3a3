--------------------------- MODULE PduStreamProofs ---------------------------
(***************************************************************************)
(* Theorems about PduStream, for any PDUs, any number of them and any      *)
(* chunks: type correctness, and that answers match requests.              *)
(***************************************************************************)
EXTENDS PduStream, SequenceTheorems, TLAPS

(* The parts of the stream are those of one PDU after the other.            *)
Layout ==
  \A m, n \in DOMAIN stream : m < n =>
    \/ stream[m].pdu < stream[n].pdu
    \/ stream[m].pdu = stream[n].pdu /\ stream[m].part < stream[n].part

(* What has been answered lies before what is still to be read: a PDU that  *)
(* begins behind `read` is none of those that have an answer.               *)
AnsweredBefore ==
  \A i \in DOMAIN answers : \A n \in DOMAIN stream :
    n > read /\ stream[n].part = 1 => answers[i].pdu < stream[n].pdu

(* The parts and the answers of a connection on which n PDUs were sent.     *)
PartsOf(n) == [pdu : 1 .. n, part : Nat \ {0}]
AnswersOf(n) == [pdu : 1 .. n, items : Nat]

IInv == TypeOK /\ Layout /\ AnsweredBefore /\ AnswersMatch

-----------------------------------------------------------------------------
(* The PDU at hand.                                                        *)

(* Body is a number for every PDU that may be sent.                         *)
LEMMA BodyNat ==
  ASSUME NEW p \in Pdus \cup Opens
  PROVE  Body(p) \in Nat /\ Size(p) \in Nat /\ (p.type = "request" => Body(p) = 2 * p.items)
BY StreamAssumption, SMT DEF Body, Size, Field, Header

(* The types with the number of PDUs in place of their domain.              *)
LEMMA Typed ==
  ASSUME TypeOK
  PROVE  /\ Len(pdus) \in Nat /\ DOMAIN pdus = 1 .. Len(pdus)
         /\ stream \in Seq(PartsOf(Len(pdus)))
         /\ Len(stream) \in Nat /\ DOMAIN stream = 1 .. Len(stream)
         /\ \A n \in DOMAIN stream : stream[n] \in PartsOf(Len(pdus))
         /\ answers \in Seq(AnswersOf(Len(pdus)))
         /\ Len(answers) \in Nat /\ DOMAIN answers = 1 .. Len(answers)
         /\ \A i \in DOMAIN answers : answers[i] \in AnswersOf(Len(pdus))
<1>1. Len(pdus) \in Nat /\ DOMAIN pdus = 1 .. Len(pdus)
  BY LenProperties DEF TypeOK
<1>2. stream \in Seq(PartsOf(Len(pdus))) /\ answers \in Seq(AnswersOf(Len(pdus)))
  BY <1>1 DEF TypeOK, PartsOf, AnswersOf
<1>3. Len(stream) \in Nat /\ DOMAIN stream = 1 .. Len(stream)
  BY <1>2, LenProperties
<1>4. Len(answers) \in Nat /\ DOMAIN answers = 1 .. Len(answers)
  BY <1>2, LenProperties
<1>5. \A n \in DOMAIN stream : stream[n] \in PartsOf(Len(pdus))
  BY <1>2, <1>3, ElementOfSeq
<1>6. \A i \in DOMAIN answers : answers[i] \in AnswersOf(Len(pdus))
  BY <1>2, <1>4, ElementOfSeq
<1> QED
  BY <1>1, <1>2, <1>3, <1>4, <1>5, <1>6

(* More PDUs: what was of the connection still is.                          *)
LEMMA Wider ==
  ASSUME NEW n \in Nat
  PROVE  /\ Seq(PartsOf(n)) \subseteq Seq(PartsOf(n + 1))
         /\ Seq(AnswersOf(n)) \subseteq Seq(AnswersOf(n + 1))
<1>1. 1 .. n \subseteq 1 .. n + 1
  BY SMT
<1>2. PartsOf(n) \subseteq PartsOf(n + 1) /\ AnswersOf(n) \subseteq AnswersOf(n + 1)
  BY <1>1 DEF PartsOf, AnswersOf
<1> QED
  BY <1>2, SeqMonotonic

(* A PDU with a whole header: what is read of it lies in the chunk and in   *)
(* the PDU.                                                                 *)
LEMMA AtHand ==
  ASSUME TypeOK, read < received
  PROVE  /\ read + 1 \in DOMAIN stream
         /\ First.pdu \in DOMAIN pdus /\ First.part \in Nat \ {0}
         /\ This \in Pdus \cup Opens
         /\ Available \in Nat /\ Available <= received
         /\ Available >= Header =>
              BodyRead \in Nat /\ BodyRead <= Body(This) /\ read + Header + BodyRead \in 0 .. received
<1>1. read + 1 \in DOMAIN stream
  <2>1. read \in 0 .. received /\ received \in 0 .. Len(stream)
    BY DEF TypeOK
  <2> QED
    BY <2>1, Typed, SMT
<1>2. stream[read + 1] \in PartsOf(Len(pdus))
  BY <1>1, Typed
<1>3. First.pdu \in DOMAIN pdus /\ First.part \in Nat \ {0}
  BY <1>2, Typed DEF First, PartsOf
<1>4. This \in Pdus \cup Opens
  BY <1>3, Typed, ElementOfSeq DEF This, TypeOK
<1>5. Available \in Nat /\ Available <= received
  BY SMT DEF TypeOK, Available
<1>6. Body(This) \in Nat
  BY <1>4, BodyNat
<1>7. Available >= Header => BodyRead \in Nat /\ BodyRead <= Body(This) /\ BodyRead <= Available - Header
  BY <1>5, <1>6, SMT DEF BodyRead, Header
<1>8. Available >= Header => read + Header + BodyRead \in 0 .. received
  BY <1>5, <1>7, SMT DEF TypeOK, Available, Header
<1> QED
  BY <1>1, <1>3, <1>4, <1>5, <1>7, <1>8

-----------------------------------------------------------------------------
(* Steps that only move `read` forward.                                    *)

(* One of them keeps the whole invariant.                                   *)
LEMMA Forward ==
  ASSUME IInv, UNCHANGED <<pdus, stream, received, due, answers>>,
         read' \in read .. received, failed' \subseteq DOMAIN pdus,
         session_id' \in Sessions, closing' \in BOOLEAN
  PROVE  IInv'
<1>1. TypeOK'
  BY SMT DEF IInv, TypeOK, Sessions
<1>2. Layout'
  BY DEF IInv, Layout
<1>3. \A n : n > read' /\ n \in DOMAIN stream => n > read
  BY SMT DEF IInv, TypeOK
<1>4. AnsweredBefore'
  BY <1>3 DEF IInv, AnsweredBefore
<1>5. AnswersMatch'
  BY DEF IInv, AnswersMatch
<1> QED
  BY <1>1, <1>2, <1>4, <1>5 DEF IInv

(* A PDU is sent: its parts come last.                                      *)
LEMMA Sent ==
  ASSUME TypeOK, NEW p \in Pdus \cup Opens, Send(p)
  PROVE  /\ pdus' \in Seq(Pdus \cup Opens) /\ DOMAIN pdus' = 1 .. Len(pdus) + 1
         /\ pdus'[Len(pdus) + 1] = p /\ \A i \in DOMAIN pdus : pdus'[i] = pdus[i]
         /\ stream' \in Seq(PartsOf(Len(pdus) + 1)) /\ answers \in Seq(AnswersOf(Len(pdus) + 1))
         /\ Size(p) \in Nat /\ Len(stream') = Len(stream) + Size(p)
         /\ DOMAIN stream' = 1 .. Len(stream) + Size(p)
         /\ \A n \in DOMAIN stream : stream'[n] = stream[n] /\ stream[n].pdu \in 1 .. Len(pdus)
         /\ \A n \in DOMAIN stream' \ DOMAIN stream :
              stream'[n] = [pdu |-> Len(pdus) + 1, part |-> n - Len(stream)]
<1> DEFINE parts == [k \in 1 .. Size(p) |-> [pdu |-> Len(pdus) + 1, part |-> k]]
<1> DEFINE N == Len(pdus)
<1>1. /\ TypeOK /\ N \in Nat /\ Len(stream) \in Nat
      /\ pdus \in Seq(Pdus \cup Opens) /\ stream \in Seq(PartsOf(N)) /\ answers \in Seq(AnswersOf(N))
  BY Typed DEF TypeOK
<1>2. /\ pdus' = Append(pdus, p) /\ pdus' \in Seq(Pdus \cup Opens) /\ Len(pdus') = N + 1
      /\ DOMAIN pdus = 1 .. N /\ DOMAIN pdus' = 1 .. N + 1
      /\ pdus'[N + 1] = p /\ \A i \in DOMAIN pdus : pdus'[i] = pdus[i]
  <2>1. pdus' = Append(pdus, p)
    BY DEF Send
  <2>2. /\ Append(pdus, p) \in Seq(Pdus \cup Opens) /\ Len(Append(pdus, p)) = N + 1
        /\ Append(pdus, p)[N + 1] = p /\ \A i \in 1 .. N : Append(pdus, p)[i] = pdus[i]
    BY <1>1, AppendProperties
  <2> QED
    BY <1>1, <2>1, <2>2, LenProperties
<1>3. Size(p) \in Nat
  BY BodyNat
<1>4. /\ parts \in Seq(PartsOf(N + 1)) /\ Len(parts) = Size(p)
      /\ \A k \in 1 .. Size(p) : parts[k] = [pdu |-> N + 1, part |-> k]
  <2>1. N + 1 \in 1 .. N + 1
    BY <1>1, SMT
  <2>2. \A k \in 1 .. Size(p) : k \in Nat \ {0}
    BY <1>3, SMT
  <2>3. \A k \in 1 .. Size(p) : [pdu |-> N + 1, part |-> k] \in PartsOf(N + 1)
    BY <2>1, <2>2, Zenon DEF PartsOf
  <2>4. parts \in [1 .. Size(p) -> PartsOf(N + 1)]
    BY <2>3, Zenon
  <2>5. \A k \in 1 .. Size(p) : parts[k] = [pdu |-> N + 1, part |-> k]
    BY Zenon
  <2> HIDE DEF parts
  <2> QED
    BY <1>3, <2>4, <2>5, SMT
<1>5. stream \in Seq(PartsOf(N + 1)) /\ answers \in Seq(AnswersOf(N + 1))
  BY <1>1, Wider
<1>6. stream' = stream \o parts
  BY DEF Send
<1> HIDE DEF parts
<1>7. /\ stream' \in Seq(PartsOf(N + 1)) /\ Len(stream') = Len(stream) + Size(p)
      /\ \A n \in 1 .. Len(stream) + Size(p) :
           stream'[n] = IF n <= Len(stream) THEN stream[n] ELSE parts[n - Len(stream)]
  <2>1. /\ stream \o parts \in Seq(PartsOf(N + 1)) /\ Len(stream \o parts) = Len(stream) + Len(parts)
        /\ \A n \in 1 .. Len(stream) + Len(parts) :
             (stream \o parts)[n] = IF n <= Len(stream) THEN stream[n] ELSE parts[n - Len(stream)]
    BY <1>4, <1>5, ConcatProperties
  <2> QED
    BY <1>4, <1>6, <2>1
<1>8. DOMAIN stream = 1 .. Len(stream) /\ DOMAIN stream' = 1 .. Len(stream) + Size(p)
  BY <1>5, <1>7, LenProperties
<1>9. \A n \in DOMAIN stream : stream'[n] = stream[n] /\ stream[n].pdu \in 1 .. N
  <2>1. \A n \in DOMAIN stream : stream'[n] = stream[n]
    BY <1>1, <1>3, <1>7, <1>8, SMT
  <2>2. \A n \in DOMAIN stream : stream[n] \in PartsOf(N)
    BY <1>1, Typed
  <2> QED
    BY <2>1, <2>2, Zenon DEF PartsOf
<1>10. \A n \in DOMAIN stream' \ DOMAIN stream : stream'[n] = [pdu |-> N + 1, part |-> n - Len(stream)]
  <2> SUFFICES ASSUME NEW n \in DOMAIN stream' \ DOMAIN stream
               PROVE  stream'[n] = [pdu |-> N + 1, part |-> n - Len(stream)]
    OBVIOUS
  <2>1. n - Len(stream) \in 1 .. Size(p) /\ stream'[n] = parts[n - Len(stream)]
    BY <1>1, <1>3, <1>7, <1>8, SMT
  <2> QED
    BY <1>4, <2>1
<1> QED
  BY <1>2, <1>3, <1>5, <1>7, <1>8, <1>9, <1>10

(* Nothing is answered by it.                                               *)
LEMMA SendStep ==
  ASSUME IInv, NEW p \in Pdus \cup Opens, Send(p)
  PROVE  IInv'
<1> DEFINE N == Len(pdus)
<1>1. /\ TypeOK /\ N \in Nat /\ Len(stream) \in Nat
      /\ pdus \in Seq(Pdus \cup Opens) /\ stream \in Seq(PartsOf(N)) /\ answers \in Seq(AnswersOf(N))
      /\ DOMAIN pdus = 1 .. N /\ DOMAIN stream = 1 .. Len(stream)
  BY Typed DEF IInv, TypeOK
<1>2. /\ pdus' \in Seq(Pdus \cup Opens) /\ DOMAIN pdus' = 1 .. N + 1
      /\ \A i \in DOMAIN pdus : pdus'[i] = pdus[i]
      /\ stream' \in Seq(PartsOf(N + 1)) /\ answers \in Seq(AnswersOf(N + 1))
      /\ Size(p) \in Nat /\ Len(stream') = Len(stream) + Size(p)
      /\ DOMAIN stream' = 1 .. Len(stream) + Size(p)
      /\ \A n \in DOMAIN stream : stream'[n] = stream[n] /\ stream[n].pdu \in 1 .. N
  BY <1>1, Sent
<1>3. \A n \in DOMAIN stream' \ DOMAIN stream : stream'[n].pdu = N + 1 /\ stream'[n].part = n - Len(stream)
  BY <1>1, Sent
<1>4. TypeOK'
  <2>1. received \in 0 .. Len(stream') /\ read \in 0 .. received
    BY <1>1, <1>2, SMT DEF IInv, TypeOK
  <2>2. stream' \in Seq([pdu : DOMAIN pdus', part : Nat \ {0}]) /\ answers \in Seq([pdu : DOMAIN pdus', items : Nat])
    BY <1>2 DEF PartsOf, AnswersOf
  <2>3. failed \subseteq DOMAIN pdus' /\ due \subseteq DOMAIN pdus'
    BY <1>1, <1>2, SMT DEF IInv, TypeOK
  <2> QED
    BY <1>2, <2>1, <2>2, <2>3 DEF IInv, TypeOK, Send, Sessions
<1>5. Layout'
  <2> SUFFICES ASSUME NEW m \in DOMAIN stream', NEW n \in DOMAIN stream', m < n
               PROVE  \/ stream'[m].pdu < stream'[n].pdu
                      \/ stream'[m].pdu = stream'[n].pdu /\ stream'[m].part < stream'[n].part
    BY DEF Layout
  <2>1. CASE n \in DOMAIN stream
    <3>1. m \in DOMAIN stream
      <4>1. m \in 1 .. Len(stream) + Size(p) /\ n \in 1 .. Len(stream)
        BY <1>1, <1>2, <2>1
      <4>2. m \in 1 .. Len(stream)
        <5>1. Len(stream) \in Nat /\ Size(p) \in Nat
          BY <1>1, <1>2
        <5> QED
          BY <4>1, <5>1, SMT
      <4> QED
        BY <1>1, <4>2
    <3>2. stream'[m] = stream[m] /\ stream'[n] = stream[n]
      BY <1>2, <2>1, <3>1, Zenon
    <3>3. Layout
      BY DEF IInv
    <3> QED
      BY <2>1, <3>1, <3>2, <3>3, Zenon DEF Layout
  <2>2. CASE n \notin DOMAIN stream /\ m \in DOMAIN stream
    BY <1>1, <1>2, <1>3, <2>2, SMT
  <2>3. CASE n \notin DOMAIN stream /\ m \notin DOMAIN stream
    BY <1>1, <1>2, <1>3, <2>3, SMT
  <2> QED
    BY <2>1, <2>2, <2>3
<1>6. \A i \in DOMAIN answers : answers[i].pdu \in 1 .. N
  BY <1>1, Typed, Zenon DEF AnswersOf
<1>7. AnsweredBefore'
  <2> SUFFICES ASSUME NEW i \in DOMAIN answers, NEW n \in DOMAIN stream', n > read, stream'[n].part = 1
               PROVE  answers[i].pdu < stream'[n].pdu
    BY DEF AnsweredBefore, Send
  <2>1. CASE n \in DOMAIN stream
    BY <1>2, <2>1 DEF IInv, AnsweredBefore
  <2>2. CASE n \notin DOMAIN stream
    BY <1>1, <1>3, <1>6, <2>2, SMT
  <2> QED
    BY <2>1, <2>2
<1>8. AnswersMatch'
  <2>1. answers' = answers
    BY DEF Send
  <2>2. \A i \in DOMAIN answers : pdus'[answers[i].pdu] = pdus[answers[i].pdu]
    BY <1>2, <1>6
  <2> QED
    BY <2>1, <2>2 DEF IInv, AnswersMatch
<1> QED
  BY <1>4, <1>5, <1>7, <1>8 DEF IInv

(* The answer to the PDU at hand comes last, and the PDUs behind `read` are *)
(* later ones.                                                             *)
LEMMA AnswerStep ==
  ASSUME IInv, Answer
  PROVE  IInv'
<1> DEFINE items == BodyRead \div Field
<1>1. read < received /\ First.part = 1 /\ Available >= Header /\ This.type = "request" /\ TypeOK
  BY DEF Answer, At, Aligned, IInv
<1>2. /\ read + 1 \in DOMAIN stream /\ First.pdu \in DOMAIN pdus
      /\ This \in Pdus \cup Opens
      /\ BodyRead \in Nat /\ BodyRead <= Body(This) /\ read + Header + BodyRead \in 0 .. received
  BY <1>1, AtHand
<1>3. Body(This) = 2 * This.items /\ This.items \in Nat
  BY <1>1, <1>2, BodyNat, StreamAssumption
<1>4. items \in Nat /\ items <= This.items
  BY <1>2, <1>3, SMT DEF Field
<1> HIDE DEF items
<1>5. /\ answers' = Append(answers, [pdu |-> First.pdu, items |-> items])
      /\ read' = read + Header + BodyRead
      /\ UNCHANGED <<pdus, stream, received, due, session_id, closing, failed>>
  BY DEF Answer, link, items
<1>6. answers \in Seq([pdu : DOMAIN pdus, items : Nat]) /\ Len(answers) \in Nat
  BY <1>1, Typed DEF TypeOK
<1>7. /\ answers' \in Seq([pdu : DOMAIN pdus, items : Nat])
      /\ DOMAIN answers = 1 .. Len(answers) /\ DOMAIN answers' = 1 .. Len(answers) + 1
      /\ \A i \in DOMAIN answers : answers'[i] = answers[i]
      /\ answers'[Len(answers) + 1] = [pdu |-> First.pdu, items |-> items]
  <2>1. [pdu |-> First.pdu, items |-> items] \in [pdu : DOMAIN pdus, items : Nat]
    BY <1>2, <1>4, Zenon
  <2> QED
    BY <1>5, <1>6, <2>1, AppendProperties, LenProperties
<1>8. read' > read /\ read' \in 0 .. received
  BY <1>1, <1>2, <1>5, SMT DEF TypeOK, Header
<1>9. TypeOK'
  BY <1>1, <1>5, <1>7, <1>8 DEF TypeOK, Sessions
<1>10. Layout'
  BY <1>5 DEF IInv, Layout
<1>11. \A i \in DOMAIN answers : answers[i].pdu < First.pdu
  <2>1. read + 1 > read
    BY <1>1, SMT DEF TypeOK
  <2> QED
    BY <1>1, <1>2, <2>1 DEF IInv, AnsweredBefore, First
<1>12. AnsweredBefore'
  <2> SUFFICES ASSUME NEW i \in DOMAIN answers', NEW n \in DOMAIN stream, n > read', stream[n].part = 1
               PROVE  answers'[i].pdu < stream[n].pdu
    BY <1>5 DEF AnsweredBefore
  <2>1. n > read /\ n > read + 1 /\ read + 1 \in DOMAIN stream
    <3>1. n \in Nat /\ read \in Nat
      BY <1>1, <1>8, Typed, SMT DEF TypeOK
    <3> QED
      BY <1>2, <1>5, <3>1, SMT DEF Header
  <2>2. CASE i \in DOMAIN answers
    BY <1>7, <2>1, <2>2 DEF IInv, AnsweredBefore
  <2>3. CASE i = Len(answers) + 1
    <3>1. stream[read + 1].pdu < stream[n].pdu
      <4>1. stream[read + 1].part = 1
        BY <1>1 DEF First
      <4>2. ~(stream[read + 1].part < stream[n].part)
        BY <4>1, SMT
      <4> QED
        BY <2>1, <4>2 DEF IInv, Layout
    <3> QED
      BY <1>7, <2>3, <3>1 DEF First
  <2> QED
    BY <1>6, <1>7, <2>2, <2>3, SMT
<1>13. AnswersMatch'
  <2>1. ASSUME NEW i \in DOMAIN answers', NEW j \in DOMAIN answers', i < j
        PROVE  answers'[i].pdu < answers'[j].pdu
    <3>1. i \in DOMAIN answers
      BY <1>6, <1>7, <2>1, SMT
    <3>2. CASE j \in DOMAIN answers
      BY <1>7, <2>1, <3>1, <3>2 DEF IInv, AnswersMatch
    <3>3. CASE j = Len(answers) + 1
      BY <1>7, <1>11, <3>1, <3>3
    <3> QED
      BY <1>6, <1>7, <3>2, <3>3, SMT
  <2>2. ASSUME NEW i \in DOMAIN answers'
        PROVE  pdus[answers'[i].pdu].type = "request" /\ answers'[i].items <= pdus[answers'[i].pdu].items
    <3>1. CASE i \in DOMAIN answers
      BY <1>7, <3>1 DEF IInv, AnswersMatch
    <3>2. CASE i = Len(answers) + 1
      BY <1>1, <1>4, <1>7, <3>2 DEF This
    <3> QED
      BY <1>6, <1>7, <3>1, <3>2, SMT
  <2> QED
    BY <1>5, <2>1, <2>2 DEF AnswersMatch
<1> QED
  BY <1>9, <1>10, <1>12, <1>13 DEF IInv

(* The other steps of data_received.                                        *)
LEMMA OtherSteps ==
  ASSUME IInv,
         \/ Raise \/ Cut \/ LookupRaises \/ HandleResponse \/ Inconsistent
         \/ \E k \in 0 .. Available, error \in Errors : Misread(k, error)
  PROVE  IInv'
<1>1. TypeOK /\ received \in Nat /\ read \in Nat /\ received \in read .. received
  BY SMT DEF IInv, TypeOK
<1>2. session_id \in Sessions /\ closing \in BOOLEAN /\ failed \subseteq DOMAIN pdus
  BY <1>1 DEF TypeOK
<1>3. CASE Raise \/ Cut \/ Inconsistent
  BY <1>1, <1>2, <1>3, Forward DEF Raise, Cut, Inconsistent, Drop, link
<1>4. CASE LookupRaises
  <2>1. read < received
    BY <1>4 DEF LookupRaises, At, Aligned
  <2>2. failed' \subseteq DOMAIN pdus
    BY <1>1, <1>2, <1>4, <2>1, AtHand DEF LookupRaises
  <2> QED
    BY <1>1, <1>2, <1>4, <2>2, Forward DEF LookupRaises, Drop, link
<1>5. ASSUME NEW error, NEW id \in Sessions, ParseResponse(error, id)
      PROVE  session_id' \in Sessions /\ closing' \in BOOLEAN
  BY <1>2, <1>5 DEF ParseResponse, Sessions
<1>6. CASE HandleResponse
  <2>1. read < received /\ Available >= Header
    BY <1>6 DEF HandleResponse, At, Aligned
  <2>2. BodyRead \in Nat /\ read + Header + BodyRead \in 0 .. received
    BY <1>1, <2>1, AtHand
  <2>3. read' \in read .. received
    BY <1>1, <1>6, <2>2, SMT DEF HandleResponse, Header
  <2>4. session_id' \in Sessions /\ closing' \in BOOLEAN
    BY <1>5, <1>6 DEF HandleResponse, Sessions
  <2> QED
    BY <1>2, <1>6, <2>3, <2>4, Forward DEF HandleResponse, link
<1>7. ASSUME NEW k \in 0 .. Available, NEW error \in Errors, Misread(k, error)
      PROVE  IInv'
  <2>1. read' \in read .. received
    BY <1>1, <1>7, SMT DEF Misread, Drop, Available
  <2>2. session_id' \in Sessions /\ closing' \in BOOLEAN
    BY <1>2, <1>5, <1>7 DEF Misread, Sessions
  <2> QED
    BY <1>2, <1>7, <2>1, <2>2, Forward DEF Misread, link
<1> QED
  BY <1>3, <1>4, <1>6, <1>7

(* A chunk arrives.                                                         *)
LEMMA ReceiveStep ==
  ASSUME IInv, NEW k \in 1 .. Len(stream) - received, Receive(k)
  PROVE  IInv'
<1>1. received' \in 0 .. Len(stream) /\ read \in 0 .. received'
  BY SMT DEF IInv, TypeOK, Receive
<1>2. due' \subseteq DOMAIN pdus
  BY DEF Receive, Handleable
<1>3. TypeOK'
  BY <1>1, <1>2 DEF IInv, TypeOK, Receive, Sessions
<1>4. Layout' /\ AnsweredBefore' /\ AnswersMatch'
  BY DEF IInv, Layout, AnsweredBefore, AnswersMatch, Receive
<1> QED
  BY <1>3, <1>4 DEF IInv

(* A new connection starts with nothing.                                    *)
LEMMA FreshStep ==
  /\ Init => IInv
  /\ Lost => IInv'
<1>1. \A S : <<>> \in Seq(S)
  BY EmptySeq
<1>2. DOMAIN <<>> = {} /\ 0 \in 0 .. Len(<<>>) /\ 0 \in 0 .. 0
  BY SMT
<1>3. Init => IInv
  BY <1>1, <1>2, Zenon DEF Init, IInv, TypeOK, Layout, AnsweredBefore, AnswersMatch, Sessions
<1>4. Lost => IInv'
  BY <1>1, <1>2, Zenon DEF Lost, IInv, TypeOK, Layout, AnsweredBefore, AnswersMatch, Sessions
<1> QED
  BY <1>3, <1>4

LEMMA StreamStep == IInv /\ [Next]_vars => IInv'
<1> SUFFICES ASSUME IInv, [Next]_vars
             PROVE  IInv'
  OBVIOUS
<1>1. CASE UNCHANGED vars
  BY <1>1 DEF vars, IInv, TypeOK, Layout, AnsweredBefore, AnswersMatch, Sessions
<1>2. CASE \E p \in Pdus \cup Opens : Send(p)
  BY <1>2, SendStep
<1>3. CASE \E k \in 1 .. Len(stream) - received : Receive(k)
  BY <1>3, ReceiveStep
<1>4. CASE Lost
  BY <1>4, FreshStep
<1>5. CASE DataReceived
  BY <1>5, AnswerStep, OtherSteps DEF DataReceived
<1> QED
  BY <1>1, <1>2, <1>3, <1>4, <1>5 DEF Next

(* For any PDUs and chunks: no part is read that the chunk does not have,   *)
(* and what is answered was sent.                                           *)
THEOREM StreamTypeCorrect == Spec => []TypeOK
<1>1. IInv => TypeOK
  BY DEF IInv
<1> QED
  BY <1>1, FreshStep, StreamStep, PTL DEF Spec

(* For any PDUs and chunks, and whatever is misread or raises: answers come *)
(* in the order of the requests, each once, with no VarBind too many.       *)
THEOREM AnswersMatchHolds == Spec => []AnswersMatch
<1>1. IInv => AnswersMatch
  BY DEF IInv
<1> QED
  BY <1>1, FreshStep, StreamStep, PTL DEF Spec

-----------------------------------------------------------------------------
(* What a chunk brings whole is handled.                                   *)

(* Each PDU that begins in the stream is there to its end, and the next one *)
(* follows it.                                                             *)
WholePdus ==
  \A n \in DOMAIN stream : stream[n].part = 1 =>
    LET i == stream[n].pdu IN
    /\ n + Size(pdus[i]) - 1 <= Len(stream)
    /\ \A k \in 1 .. Size(pdus[i]) : stream[n + k - 1] = [pdu |-> i, part |-> k]
    /\ n + Size(pdus[i]) <= Len(stream) => stream[n + Size(pdus[i])].part = 1

(* PDU i lies whole between `read` and the end of the chunk.                *)
Ahead(i) ==
  \E n \in DOMAIN stream :
    /\ n > read /\ n + Size(pdus[i]) - 1 <= received
    /\ stream[n] = [pdu |-> i, part |-> 1]

(* As long as something is due, `read` is at the header of a PDU that is.   *)
DueAhead ==
  /\ \A i \in due : Handled(i) \/ (Ahead(i) /\ stream[read + 1].part = 1)
  /\ \A i \in due : pdus[i].type # "other"
  /\ \A i \in due, n \in DOMAIN stream :
       n > read /\ stream[n].part = 1 /\ stream[n].pdu <= i => stream[n].pdu \in due

(* Without a session nothing is sent but the answer to the Open PDU: an     *)
(* AgentError, which drops the rest of a chunk, drops no other PDU.         *)
OpenFirst == session_id = None => Len(pdus) <= 1

ChunkInv == IInv /\ WholePdus /\ DueAhead /\ OpenFirst

(* What is handled stays so.                                                *)
LEMMA StaysHandled ==
  ASSUME UNCHANGED <<pdus, due>>, ToSet(answers) \subseteq ToSet(answers'),
         session_id # None => session_id' # None, failed \subseteq failed'
  PROVE  \A i \in due : Handled(i) => Handled(i)'
BY DEF Handled, Answered

(* A PDU that begins behind another begins behind its end.                  *)
LEMMA Beyond ==
  ASSUME IInv, WholePdus, NEW m \in DOMAIN stream, NEW n \in DOMAIN stream, m < n,
         stream[m].part = 1, stream[n].part = 1
  PROVE  m + Size(pdus[stream[m].pdu]) <= n
<1> DEFINE size == Size(pdus[stream[m].pdu])
<1>1. m \in Nat /\ n \in Nat /\ size \in Nat
  <2>1. DOMAIN stream = 1 .. Len(stream) /\ stream[m] \in PartsOf(Len(pdus)) /\ DOMAIN pdus = 1 .. Len(pdus)
    BY Typed DEF IInv
  <2>2. stream[m].pdu \in DOMAIN pdus /\ pdus \in Seq(Pdus \cup Opens)
    BY <2>1 DEF IInv, TypeOK, PartsOf
  <2>3. pdus[stream[m].pdu] \in Pdus \cup Opens
    BY <2>1, <2>2, ElementOfSeq
  <2>4. size \in Nat
    BY <2>3, BodyNat
  <2> HIDE DEF size
  <2> QED
    BY <2>1, <2>4, SMT
<1>2. \A k \in 1 .. size : stream[m + k - 1].part = k
  <2>1. \A k \in 1 .. size : stream[m + k - 1] = [pdu |-> stream[m].pdu, part |-> k]
    BY Zenon DEF WholePdus
  <2> HIDE DEF size
  <2> TAKE k \in 1 .. size
  <2>2. stream[m + k - 1] = [pdu |-> stream[m].pdu, part |-> k]
    BY <2>1
  <2> QED
    BY <2>2
<1> SUFFICES ASSUME ~(m + size <= n)
             PROVE  FALSE
  OBVIOUS
<1> HIDE DEF size
<1>3. n - m + 1 \in 1 .. size /\ m + (n - m + 1) - 1 = n /\ n - m + 1 # 1
  BY <1>1, SMT
<1> QED
  BY <1>2, <1>3

(* While a PDU is due and not handled, the one at hand is whole and due.    *)
LEMMA AtDue ==
  ASSUME ChunkInv, NEW i \in due, ~Handled(i)
  PROVE  /\ Aligned /\ First.pdu \in due /\ First.pdu <= i
         /\ This.type \in {"request", "response"}
         /\ Available >= Header /\ BodyRead = Body(This)
         /\ read + Header + BodyRead = read + Size(This)
<1> PICK n \in DOMAIN stream : /\ n > read /\ n + Size(pdus[i]) - 1 <= received
                               /\ stream[n] = [pdu |-> i, part |-> 1]
  BY DEF ChunkInv, DueAhead, Ahead
<1>1. IInv /\ TypeOK /\ WholePdus /\ i \in DOMAIN pdus
  BY DEF ChunkInv, IInv, TypeOK
<1>2. /\ read \in Nat /\ received \in Nat /\ n \in Nat /\ n <= Len(stream) /\ Len(stream) \in Nat
      /\ DOMAIN stream = 1 .. Len(stream)
  <2>1. Len(stream) \in Nat /\ DOMAIN stream = 1 .. Len(stream)
    BY <1>1, Typed
  <2>2. received \in 0 .. Len(stream) /\ read \in 0 .. received
    BY <1>1 DEF TypeOK
  <2> QED
    BY <2>1, <2>2, SMT
<1>3. pdus[i] \in Pdus \cup Opens /\ Size(pdus[i]) \in Nat /\ Size(pdus[i]) >= 2
  <2>1. pdus[i] \in Pdus \cup Opens
    BY <1>1, Typed, ElementOfSeq DEF TypeOK
  <2> QED
    BY <2>1, BodyNat, SMT DEF Size, Header
<1>4. read < received /\ First.part = 1
  <2>1. read < received
    BY <1>2, <1>3, SMT
  <2> QED
    BY <2>1 DEF ChunkInv, DueAhead, First
<1>5. /\ read + 1 \in DOMAIN stream /\ First.pdu \in DOMAIN pdus
      /\ This \in Pdus \cup Opens /\ Body(This) \in Nat
  BY <1>1, <1>4, AtHand, BodyNat
<1>6. First.pdu <= i
  <2>1. CASE n = read + 1
    BY <1>1, <1>5, <2>1, Typed, SMT DEF First
  <2>2. CASE n # read + 1
    <3>1. read + 1 < n
      BY <1>2, <2>2, SMT
    <3>2. ~(stream[read + 1].part < stream[n].part)
      BY <1>4, SMT DEF First
    <3>3. stream[read + 1].pdu < i
      BY <1>1, <1>5, <3>1, <3>2 DEF IInv, Layout
    <3> QED
      BY <1>1, <1>5, <3>3, Typed, SMT DEF First
  <2> QED
    BY <2>1, <2>2
<1>7. read + Size(This) <= received
  <2>1. CASE n = read + 1
    BY <1>2, <1>3, <2>1, SMT DEF First, This
  <2>2. CASE n # read + 1
    <3>1. read + 1 < n
      BY <1>2, <2>2, SMT
    <3>2. read + 1 + Size(pdus[stream[read + 1].pdu]) <= n
      BY <1>1, <1>4, <1>5, <3>1, Beyond DEF First
    <3>3. read + 1 + Size(This) <= n
      BY <3>2 DEF This, First
    <3>4. Size(This) \in Nat
      BY <1>5, BodyNat
    <3> QED
      BY <1>2, <1>3, <3>3, <3>4, SMT
  <2> QED
    BY <2>1, <2>2
<1>8. First.pdu \in due
  <2>1. read + 1 > read
    BY <1>2, SMT
  <2> QED
    BY <1>4, <1>5, <1>6, <2>1 DEF ChunkInv, DueAhead, First
<1>9. Available >= Header /\ BodyRead = Body(This) /\ read + Header + BodyRead = read + Size(This)
  BY <1>2, <1>5, <1>7, SMT DEF Available, Header, BodyRead, Size
<1>10. This.type \in {"request", "response"}
  BY <1>5, <1>8, StreamAssumption DEF ChunkInv, DueAhead, This
<1> QED
  BY <1>4, <1>6, <1>8, <1>9, <1>10 DEF Aligned

(* A step of data_received either leaves nothing due unhandled, or handles  *)
(* the PDU at hand and goes on behind it.                                   *)
LEMMA DueStep ==
  ASSUME ChunkInv, UNCHANGED <<pdus, stream, received, due>>,
         read' \in read .. received,
         \A i \in due : Handled(i) => Handled(i)',
         \A i \in due : ~Handled(i) =>
            \/ \A j \in due : First.pdu <= j => Handled(j)'
            \/ read' = read + Size(This) /\ \A j \in due : j = First.pdu => Handled(j)'
  PROVE  DueAhead'
<1>1. ASSUME NEW i \in due, ~Handled(i)'
      PROVE  Ahead(i)' /\ stream[read' + 1].part = 1
  <2>1. ~Handled(i)
    BY <1>1
  <2>2. First.pdu <= i /\ First.part = 1 /\ read < received
    BY <2>1, AtDue DEF Aligned
  <2>3. read' = read + Size(This) /\ \A j \in due : j = First.pdu => Handled(j)'
    BY <1>1, <2>1, <2>2
  <2>4. PICK n \in DOMAIN stream : /\ n > read /\ n + Size(pdus[i]) - 1 <= received
                                  /\ stream[n] = [pdu |-> i, part |-> 1]
    BY <2>1 DEF ChunkInv, DueAhead, Ahead
  <2>5. i # First.pdu
    BY <1>1, <2>3
  <2>6. /\ IInv /\ TypeOK /\ WholePdus /\ read + 1 \in DOMAIN stream
        /\ DOMAIN stream = 1 .. Len(stream) /\ Len(stream) \in Nat
    BY <2>2, AtHand, Typed DEF ChunkInv, IInv
  <2>7. read \in Nat /\ received \in Nat /\ Size(This) \in Nat
    <3>1. Size(This) \in Nat
      BY <2>2, <2>6, AtHand, BodyNat
    <3>2. read \in 0 .. received /\ received \in 0 .. Len(stream)
      BY <2>6 DEF TypeOK
    <3> QED
      BY <2>6, <3>1, <3>2, SMT
  <2>8. read + 1 < n
    <3>1. n # read + 1
      BY <2>4, <2>5 DEF First
    <3> QED
      BY <2>4, <2>6, <2>7, <3>1, SMT
  <2>9. read + 1 + Size(This) <= n
    <3>1. read + 1 + Size(pdus[stream[read + 1].pdu]) <= n
      BY <2>2, <2>4, <2>6, <2>8, Beyond DEF First
    <3> QED
      BY <3>1 DEF This, First
  <2>10. Ahead(i)'
    <3>1. n > read'
      BY <2>3, <2>6, <2>7, <2>9, SMT
    <3> QED
      BY <2>4, <3>1 DEF Ahead
  <2>11. stream[read + 1 + Size(This)].part = 1
    <3>1. read + 1 + Size(This) <= Len(stream)
      BY <2>6, <2>7, <2>9, SMT
    <3> QED
      BY <2>2, <2>6, <3>1 DEF WholePdus, First, This
  <2>12. read' + 1 = read + 1 + Size(This)
    BY <2>3, <2>7, SMT
  <2> QED
    BY <2>10, <2>11, <2>12
<1>2. \A n \in DOMAIN stream : n > read' => n > read
  BY SMT DEF ChunkInv, IInv, TypeOK
<1>3. \A i \in due' : Handled(i)' \/ (Ahead(i)' /\ stream'[read' + 1].part = 1)
  BY <1>1
<1>4. \A i \in due' : pdus'[i].type # "other"
  BY DEF ChunkInv, DueAhead
<1>5. \A i \in due', n \in DOMAIN stream' :
        n > read' /\ stream'[n].part = 1 /\ stream'[n].pdu <= i => stream'[n].pdu \in due'
  BY <1>2 DEF ChunkInv, DueAhead
<1> QED
  BY <1>3, <1>4, <1>5 DEF DueAhead

(* What a step of data_received does whatever is due.                       *)
LEMMA DataSteps ==
  ASSUME IInv, DataReceived
  PROVE  /\ UNCHANGED <<pdus, stream, received, due>>
         /\ read' \in read .. received
         /\ ToSet(answers) \subseteq ToSet(answers') /\ failed \subseteq failed'
         /\ session_id # None => session_id' # None
<1>1. TypeOK /\ read \in Nat /\ received \in Nat /\ read <= received
  BY SMT DEF IInv, TypeOK
<1>2. UNCHANGED <<pdus, stream, received, due>>
  BY DEF DataReceived, Raise, Cut, Answer, LookupRaises, HandleResponse, Inconsistent, Misread, link
<1>3. CASE Raise \/ Cut \/ LookupRaises \/ Inconsistent
  BY <1>1, <1>2, <1>3, SMT DEF Raise, Cut, LookupRaises, Inconsistent, Drop
<1>4. CASE Answer
  <2>1. read < received /\ Available >= Header
    BY <1>4 DEF Answer, At, Aligned
  <2>2. read + Header + BodyRead \in 0 .. received /\ BodyRead \in Nat
    BY <1>1, <2>1, AtHand
  <2>3. read' \in read .. received
    BY <1>1, <1>4, <2>2, SMT DEF Answer, Header
  <2>4. ToSet(answers) \subseteq ToSet(answers')
    <3>1. PICK a : answers' = Append(answers, a)
      BY <1>4 DEF Answer
    <3>2. \A i \in DOMAIN answers : i \in DOMAIN answers' /\ answers'[i] = answers[i]
      BY <1>1, <3>1, SMT DEF TypeOK
    <3> QED
      BY <3>2 DEF ToSet
  <2> QED
    BY <1>2, <1>4, <2>3, <2>4 DEF Answer
<1>5. CASE HandleResponse
  <2>1. read < received /\ Available >= Header
    BY <1>5 DEF HandleResponse, At, Aligned
  <2>2. read + Header + BodyRead \in 0 .. received /\ BodyRead \in Nat
    BY <1>1, <2>1, AtHand
  <2>3. read' \in read .. received
    BY <1>1, <1>5, <2>2, SMT DEF HandleResponse, Header
  <2> QED
    BY <1>2, <1>5, <2>3 DEF HandleResponse, ParseResponse
<1>6. ASSUME NEW k \in 0 .. Available, NEW error \in Errors, Misread(k, error)
      PROVE  /\ read' \in read .. received /\ UNCHANGED <<answers, failed>>
             /\ session_id # None => session_id' # None
  <2>1. read' \in read .. received
    BY <1>1, <1>6, SMT DEF Misread, Drop, Available
  <2> QED
    BY <1>6, <2>1 DEF Misread, ParseResponse
<1> QED
  BY <1>2, <1>3, <1>4, <1>5, <1>6 DEF DataReceived

(* A request or a Response that is there to its end can be unpacked.        *)
LEMMA WholeBody ==
  ASSUME NEW p \in Pdus \cup Opens, p.type \in {"request", "response"}
  PROVE  /\ Body(p) % Field = 0
         /\ p.type = "request" => Body(p) \div Field = p.items
         /\ p.type = "response" => Body(p) # 0
BY StreamAssumption, SMT DEF Body, Field

(* What is at hand while something due is not handled: no step leaves it.   *)
LEMMA DueIsHandled ==
  ASSUME ChunkInv, DataReceived, NEW i \in due, ~Handled(i)
  PROVE  \/ \A j \in due : First.pdu <= j => Handled(j)'
         \/ read' = read + Size(This) /\ \A j \in due : j = First.pdu => Handled(j)'
<1>1. /\ Aligned /\ First.pdu \in due /\ First.part = 1
      /\ This.type \in {"request", "response"}
      /\ Available >= Header /\ BodyRead = Body(This)
      /\ read + Header + BodyRead = read + Size(This)
  BY AtDue DEF Aligned
<1>2. TypeOK /\ This \in Pdus \cup Opens
  BY <1>1, AtHand DEF ChunkInv, IInv, Aligned
<1>3. /\ BodyRead % Field = 0
      /\ This.type = "request" => BodyRead \div Field = This.items
      /\ This.type = "response" => BodyRead # 0
  BY <1>1, <1>2, WholeBody
<1>4. ~Raise
  <2>1. Available \in Int
    BY <1>2, SMT DEF TypeOK, Available
  <2> QED
    BY <1>1, <2>1, SMT DEF Raise, Header
<1>5. ~Cut
  BY <1>1, <1>3 DEF Cut, At
<1>6. ~(\E k \in 0 .. Available, error \in Errors : Misread(k, error))
  BY <1>1 DEF Misread
<1>7. pdus' = pdus /\ due' = due
  BY DataSteps DEF ChunkInv
<1>8. CASE Answer
  <2>1. This.type = "request" /\ read' = read + Size(This)
    BY <1>1, <1>8 DEF Answer, At
  <2>2. answers' = Append(answers, [pdu |-> First.pdu, items |-> This.items])
    BY <1>3, <1>8, <2>1 DEF Answer
  <2>3. [pdu |-> First.pdu, items |-> This.items] \in ToSet(answers')
    <3> DEFINE a == [pdu |-> First.pdu, items |-> This.items]
    <3> HIDE DEF a
    <3>1. Len(answers) + 1 \in DOMAIN answers' /\ answers'[Len(answers) + 1] = a
      BY <1>2, <2>2, SMT DEF TypeOK, a
    <3>2. a \in ToSet(answers')
      BY <3>1 DEF ToSet
    <3> QED
      BY <3>2 DEF a
  <2>4. \A j \in due : j = First.pdu => Handled(j)'
    BY <1>7, <2>1, <2>3 DEF Handled, Answered, This
  <2> QED
    BY <2>1, <2>4
<1>9. CASE LookupRaises
  <2>1. First.pdu \in failed' \cap due'
    BY <1>1, <1>7, <1>9 DEF LookupRaises
  <2> QED
    BY <2>1 DEF Handled
<1>10. CASE HandleResponse
  <2>1. This.type = "response" /\ read' = read + Size(This)
    BY <1>1, <1>10 DEF HandleResponse, At
  <2>2. This.error = "none" => session_id' # None
    BY <1>10, StreamAssumption DEF HandleResponse, ParseResponse
  <2>3. \A j \in due : j = First.pdu => Handled(j)'
    BY <1>7, <2>1, <2>2 DEF Handled, This
  <2> QED
    BY <2>1, <2>3
<1>11. CASE Inconsistent
  <2>1. session_id = None /\ This.error = "inconsistent" /\ This.type = "response"
    BY <1>11 DEF Inconsistent, At
  <2>2. \A j \in due : j = First.pdu
    <3>1. DOMAIN pdus = 1 .. Len(pdus) /\ Len(pdus) \in Nat /\ due \subseteq DOMAIN pdus
      BY <1>2, Typed DEF TypeOK
    <3>2. Len(pdus) <= 1
      BY <2>1 DEF ChunkInv, OpenFirst
    <3>3. \A j \in due : j = 1
      BY <3>1, <3>2, SMT
    <3> QED
      BY <1>1, <3>3
  <2>3. \A j \in due : Handled(j)'
    BY <1>7, <2>1, <2>2 DEF Handled, This
  <2> QED
    BY <2>3
<1> QED
  BY <1>4, <1>5, <1>6, <1>8, <1>9, <1>10, <1>11 DEF DataReceived

LEMMA ChunkData ==
  ASSUME ChunkInv, DataReceived
  PROVE  ChunkInv'
<1>1. IInv'
  BY StreamStep DEF ChunkInv, Next
<1>2. /\ UNCHANGED <<pdus, stream, received, due>>
      /\ read' \in read .. received
      /\ ToSet(answers) \subseteq ToSet(answers') /\ failed \subseteq failed'
      /\ session_id # None => session_id' # None
  BY DataSteps DEF ChunkInv
<1>3. WholePdus'
  BY <1>2 DEF ChunkInv, WholePdus
<1>4. OpenFirst'
  BY <1>2 DEF ChunkInv, OpenFirst
<1>5. \A i \in due : Handled(i) => Handled(i)'
  BY <1>2, StaysHandled
<1>6. DueAhead'
  BY <1>2, <1>5, DueIsHandled, DueStep
<1> QED
  BY <1>1, <1>3, <1>4, <1>6 DEF ChunkInv

(* A chunk arrives: what lies whole in it is ahead.                         *)
LEMMA ChunkReceive ==
  ASSUME ChunkInv, NEW k \in 1 .. Len(stream) - received, Receive(k)
  PROVE  ChunkInv'
<1> DEFINE from == received + 1
           to == received + k
           whole == {i \in DOMAIN pdus :
                       \E n \in from .. to - Size(pdus[i]) + 1 : stream[n] = [pdu |-> i, part |-> 1]}
<1>1. IInv' /\ IInv /\ WholePdus /\ TypeOK
  BY StreamStep DEF ChunkInv, IInv, Next
<1>2. WholePdus' /\ OpenFirst'
  BY DEF ChunkInv, WholePdus, OpenFirst, Receive
<1>3. /\ read' = read /\ read = received /\ received' = to /\ due' = Handleable(from, to)
      /\ pdus' = pdus /\ stream' = stream
  BY DEF Receive
<1>4. /\ received \in Nat /\ to \in Nat /\ to <= Len(stream) /\ Len(stream) \in Nat
      /\ DOMAIN stream = 1 .. Len(stream) /\ DOMAIN pdus = 1 .. Len(pdus)
  <2>1. Len(stream) \in Nat /\ DOMAIN stream = 1 .. Len(stream) /\ DOMAIN pdus = 1 .. Len(pdus)
    BY <1>1, Typed
  <2>2. received \in Nat
    BY <1>1, SMT DEF TypeOK
  <2> QED
    BY <2>1, <2>2, SMT
<1>5. \A i \in DOMAIN pdus : Size(pdus[i]) \in Nat /\ Size(pdus[i]) >= 2
  <2> SUFFICES ASSUME NEW i \in DOMAIN pdus
               PROVE  Size(pdus[i]) \in Nat /\ Size(pdus[i]) >= 2
    OBVIOUS
  <2>1. pdus[i] \in Pdus \cup Opens
    BY <1>1, Typed, ElementOfSeq DEF TypeOK
  <2> QED
    BY <2>1, BodyNat, SMT DEF Size, Header
<1>6. /\ stream[from].part = 1 \/ due' = {}
      /\ due' \subseteq whole
      /\ \A i \in due' : \A j \in 1 .. i : j \in whole => pdus[j].type # "other"
      /\ \A i \in due' : \A j \in whole : j <= i => j \in due'
  <2>1. CASE stream[from].part # 1
    BY <1>3, <2>1 DEF Handleable
  <2>2. CASE stream[from].part = 1
    <3>1. due' = {i \in whole : \A j \in 1 .. i : j \in whole => pdus[j].type # "other"}
      BY <1>3, <2>2 DEF Handleable
    <3>2. whole \subseteq DOMAIN pdus
      OBVIOUS
    <3> HIDE DEF whole
    <3>3. \A i \in whole, j \in whole : j <= i => 1 .. j \subseteq 1 .. i
      BY <1>4, <3>2, SMT
    <3> QED
      BY <2>2, <3>1, <3>3, Zenon
  <2> QED
    BY <2>1, <2>2
<1> HIDE DEF whole
<1>7. ASSUME NEW i \in due'
      PROVE  Ahead(i)'
  <2>1. i \in DOMAIN pdus /\ \E n \in from .. to - Size(pdus[i]) + 1 : stream[n] = [pdu |-> i, part |-> 1]
    BY <1>6, <1>7 DEF whole
  <2> PICK n \in from .. to - Size(pdus[i]) + 1 : stream[n] = [pdu |-> i, part |-> 1]
    BY <2>1
  <2>2. n \in DOMAIN stream /\ n > read' /\ n + Size(pdus[i]) - 1 <= to
    <3> DEFINE size == Size(pdus[i])
    <3>1. size \in Nat /\ size >= 2 /\ n \in from .. to - size + 1
      BY <1>5, <2>1
    <3> HIDE DEF size
    <3>2. n \in 1 .. Len(stream) /\ n > received /\ n + size - 1 <= to
      BY <1>4, <3>1, SMT
    <3> QED
      BY <1>3, <1>4, <3>2 DEF size
  <2> QED
    BY <1>3, <2>2 DEF Ahead
<1>8. \A i \in due' : pdus[i].type # "other"
  <2>1. \A i \in due' : i \in whole /\ i \in 1 .. i
    BY <1>1, <1>3, <1>4, <1>6, SMT DEF IInv, TypeOK
  <2> QED
    BY <1>6, <2>1
<1>9. ASSUME NEW i \in due', NEW n \in DOMAIN stream, n > read, stream[n].part = 1, stream[n].pdu <= i
      PROVE  stream[n].pdu \in due'
  <2> DEFINE j == stream[n].pdu
  <2>1. i \in DOMAIN pdus /\ \E m \in from .. to - Size(pdus[i]) + 1 : stream[m] = [pdu |-> i, part |-> 1]
    BY <1>6, <1>9 DEF whole
  <2> PICK m \in from .. to - Size(pdus[i]) + 1 : stream[m] = [pdu |-> i, part |-> 1]
    BY <2>1
  <2>2. j \in DOMAIN pdus /\ stream[n] = [pdu |-> j, part |-> 1]
    <3>1. stream[n] \in PartsOf(Len(pdus))
      BY <1>1, Typed
    <3> QED
      BY <1>4, <1>9, <3>1 DEF PartsOf
  <2>3. m \in DOMAIN stream /\ m \in Nat /\ n \in Nat /\ n >= from /\ i \in Nat /\ j \in Nat
    <3>1. j \in Nat /\ i \in Nat
      BY <1>4, <2>1, <2>2, SMT
    <3> HIDE DEF j
    <3> QED
      BY <1>3, <1>4, <1>5, <1>9, <2>1, <3>1, SMT
  <2>4. n + Size(pdus[j]) - 1 <= to
    <3>1. CASE n = m
      <4>1. j = i
        BY <2>2, <3>1
      <4> DEFINE size == Size(pdus[i])
      <4>2. size \in Nat /\ n \in from .. to - size + 1
        BY <1>5, <2>1, <3>1
      <4> HIDE DEF j, size
      <4>3. n + size - 1 <= to
        BY <1>4, <4>2, SMT
      <4> QED
        BY <4>1, <4>3 DEF size
    <3>2. CASE n < m
      <4>1. n + Size(pdus[j]) <= m
        BY <1>1, <1>9, <2>3, <3>2, Beyond
      <4>2. Size(pdus[j]) \in Nat /\ Size(pdus[i]) >= 2 /\ Size(pdus[i]) \in Nat
        BY <1>5, <2>1, <2>2
      <4>3. m <= to - Size(pdus[i]) + 1
        BY <1>4, <4>2, SMT
      <4> DEFINE si == Size(pdus[i])
                 sj == Size(pdus[j])
      <4>4. n + sj <= m /\ sj \in Nat /\ si >= 2 /\ si \in Nat /\ m <= to - si + 1
        BY <4>1, <4>2, <4>3
      <4>5. to \in Nat /\ m \in Nat /\ n \in Nat
        BY <1>4, <2>3
      <4> HIDE DEF j, si, sj, to
      <4>6. n + sj - 1 <= to
        BY <4>4, <4>5, SMT
      <4> QED
        BY <4>6 DEF sj
    <3>3. CASE m < n
      <4>1. i < j
        <5>1. ~(stream[m].part < stream[n].part)
          BY <1>9, SMT
        <5> QED
          BY <1>1, <2>2, <2>3, <3>3, <5>1 DEF IInv, Layout
      <4> HIDE DEF j
      <4> QED
        BY <1>9, <2>3, <4>1, SMT DEF j
    <3> QED
      BY <2>3, <3>1, <3>2, <3>3, SMT
  <2>5. j \in whole
    <3>1. n \in from .. to - Size(pdus[j]) + 1
      <4>1. Size(pdus[j]) \in Nat
        BY <1>5, <2>2
      <4> DEFINE size == Size(pdus[j])
      <4>2. size \in Nat /\ n + size - 1 <= to
        BY <2>4, <4>1
      <4> HIDE DEF j, size
      <4>3. n \in from .. to - size + 1
        BY <1>4, <2>3, <4>2, SMT
      <4> QED
        BY <4>3 DEF size
    <3> QED
      BY <2>2, <3>1 DEF whole
  <2> QED
    BY <1>6, <1>9, <2>5
<1>10. DueAhead'
  BY <1>3, <1>6, <1>7, <1>8, <1>9 DEF DueAhead
<1> QED
  BY <1>1, <1>2, <1>10 DEF ChunkInv

(* A PDU is sent: it begins where the stream ended.                         *)
LEMMA ChunkSend ==
  ASSUME ChunkInv, NEW p \in Pdus \cup Opens, Send(p)
  PROVE  ChunkInv'
<1> DEFINE N == Len(pdus)
           L == Len(stream)
<1>1. /\ IInv /\ IInv' /\ TypeOK /\ WholePdus /\ N \in Nat /\ L \in Nat
      /\ DOMAIN pdus = 1 .. N /\ DOMAIN stream = 1 .. L
      /\ read \in 0 .. received /\ received \in 0 .. L
      /\ \A n \in DOMAIN stream : stream[n].part \in Nat
  <2>1. IInv' /\ TypeOK /\ WholePdus
    BY SendStep DEF ChunkInv, IInv
  <2> QED
    BY <2>1, Typed DEF ChunkInv, TypeOK, PartsOf
<1>2. /\ pdus'[N + 1] = p /\ \A i \in DOMAIN pdus : pdus'[i] = pdus[i]
      /\ Size(p) \in Nat /\ Len(stream') = L + Size(p) /\ DOMAIN stream' = 1 .. L + Size(p)
      /\ \A n \in DOMAIN stream : stream'[n] = stream[n] /\ stream[n].pdu \in 1 .. N
      /\ \A n \in DOMAIN stream' \ DOMAIN stream : stream'[n] = [pdu |-> N + 1, part |-> n - L]
  BY <1>1, Sent
<1>3. UNCHANGED <<received, read, session_id, closing, answers, failed, due>>
  BY DEF Send
<1>4. Size(p) >= 2 /\ Size(p) = Header + Body(p)
  BY BodyNat, SMT DEF Size, Header
<1>5. ASSUME NEW k \in 1 .. Size(p), NEW n, n = L + k
      PROVE  n \in DOMAIN stream' \ DOMAIN stream /\ stream'[n] = [pdu |-> N + 1, part |-> k]
  <2>1. n \in DOMAIN stream' \ DOMAIN stream /\ n - L = k
    <3> HIDE DEF L
    <3> QED
      BY <1>1, <1>2, <1>4, <1>5, SMT
  <2>2. stream'[n] = [pdu |-> N + 1, part |-> n - L]
    BY <1>1, <2>1, Sent
  <2> HIDE DEF N, L
  <2> QED
    BY <2>1, <2>2
<1> HIDE DEF N, L
<1>6. ASSUME NEW n \in DOMAIN stream', stream'[n].part = 1, NEW i, i = stream'[n].pdu
      PROVE  /\ n + Size(pdus'[i]) - 1 <= Len(stream')
             /\ \A k \in 1 .. Size(pdus'[i]) : stream'[n + k - 1] = [pdu |-> i, part |-> k]
             /\ n + Size(pdus'[i]) <= Len(stream') => stream'[n + Size(pdus'[i])].part = 1
  <2> DEFINE size == Size(pdus'[i])
  <2>1. CASE n \in DOMAIN stream
    <3>1. i \in DOMAIN pdus /\ stream[n].part = 1 /\ i = stream[n].pdu /\ size = Size(pdus[i])
      BY <1>1, <1>2, <1>6, <2>1
    <3>2. size \in Nat
      <4>1. pdus[i] \in Pdus \cup Opens
        BY <1>1, <3>1, ElementOfSeq DEF TypeOK, N
      <4> QED
        BY <3>1, <4>1, BodyNat
    <3>3. /\ n + size - 1 <= L
          /\ \A k \in 1 .. size : stream[n + k - 1] = [pdu |-> i, part |-> k]
          /\ n + size <= L => stream[n + size].part = 1
      BY <1>1, <2>1, <3>1, Zenon DEF WholePdus, L
    <3> HIDE DEF size
    <3>4. n + size - 1 <= Len(stream')
      BY <1>1, <1>2, <2>1, <3>2, <3>3, SMT
    <3>5. ASSUME NEW k \in 1 .. size
          PROVE  stream'[n + k - 1] = [pdu |-> i, part |-> k]
      <4>1. n + k - 1 \in DOMAIN stream
        BY <1>1, <2>1, <3>2, <3>3, SMT
      <4> QED
        BY <1>2, <3>3, <4>1
    <3>6. ASSUME n + size <= Len(stream')
          PROVE  stream'[n + size].part = 1
      <4>1. CASE n + size <= L
        <5>1. n + size \in DOMAIN stream
          BY <1>1, <2>1, <3>2, <4>1, SMT
        <5> QED
          BY <1>2, <3>3, <4>1, <5>1
      <4>2. CASE ~(n + size <= L)
        <5>1. n + size = L + 1 /\ 1 \in 1 .. Size(p)
          <6>1. n + size = L + 1
            BY <1>1, <2>1, <3>2, <3>3, <4>2, SMT
          <6> QED
            BY <1>2, <1>4, <6>1, SMT
        <5>2. stream'[L + 1] = [pdu |-> N + 1, part |-> 1]
          BY <1>5, <5>1
        <5> QED
          BY <5>1, <5>2
      <4> QED
        BY <4>1, <4>2
    <3> QED
      BY <3>4, <3>5, <3>6 DEF size
  <2>2. CASE n \notin DOMAIN stream
    <3>1. stream'[n] = [pdu |-> N + 1, part |-> n - L]
      BY <1>2, <2>2
    <3>2. n - L = 1 /\ i = N + 1
      BY <1>6, <3>1
    <3>3. n = L + 1 /\ size = Size(p)
      BY <1>1, <1>2, <3>2, SMT
    <3> HIDE DEF size
    <3>4. n + size - 1 <= Len(stream') /\ ~(n + size <= Len(stream'))
      BY <1>1, <1>2, <3>3, SMT
    <3>5. ASSUME NEW k \in 1 .. size
          PROVE  stream'[n + k - 1] = [pdu |-> i, part |-> k]
      <4>1. n + k - 1 = L + k
        BY <1>1, <1>2, <3>3, SMT
      <4> QED
        BY <1>5, <3>2, <3>3, <4>1
    <3> QED
      BY <3>4, <3>5 DEF size
  <2> QED
    BY <2>1, <2>2
<1>7. WholePdus'
  BY <1>6, Zenon DEF WholePdus
<1>8. OpenFirst'
  <2>1. CASE pdus = <<>>
    <3>1. N = 0 /\ Len(pdus') = N + 1
      BY <2>1, SMT DEF Send, N
    <3> QED
      BY <3>1, SMT DEF OpenFirst
  <2>2. CASE pdus # <<>>
    BY <1>3, <2>2, StreamAssumption DEF Send, OpenFirst
  <2> QED
    BY <2>1, <2>2
<1>9. due \subseteq DOMAIN pdus
  BY <1>1 DEF TypeOK
<1>10. \A i \in due : Handled(i) => Handled(i)'
  BY <1>2, <1>3, <1>9 DEF Handled, Answered
<1>11. ASSUME NEW i \in due, Ahead(i), stream[read + 1].part = 1
       PROVE  Ahead(i)' /\ stream'[read + 1].part = 1
  <2> PICK n \in DOMAIN stream : /\ n > read /\ n + Size(pdus[i]) - 1 <= received
                                 /\ stream[n] = [pdu |-> i, part |-> 1]
    BY <1>11 DEF Ahead
  <2>1. n \in DOMAIN stream' /\ stream'[n] = stream[n] /\ pdus'[i] = pdus[i]
    BY <1>1, <1>2, <1>9, SMT
  <2>2. Ahead(i)'
    BY <1>3, <2>1 DEF Ahead
  <2>3. read + 1 \in DOMAIN stream
    BY <1>1, SMT
  <2> QED
    BY <1>2, <1>11, <2>2, <2>3
<1>12. ASSUME NEW i \in due, NEW n \in DOMAIN stream', n > read, stream'[n].part = 1, stream'[n].pdu <= i
       PROVE  stream'[n].pdu \in due
  <2>1. n \in DOMAIN stream
    <3>1. ~(N + 1 <= i)
      BY <1>1, <1>9, SMT
    <3>2. stream'[n].pdu # N + 1
      BY <1>12, <3>1
    <3> QED
      BY <1>2, <3>2
  <2> QED
    BY <1>2, <1>12, <2>1 DEF ChunkInv, DueAhead
<1>13. DueAhead'
  <2>1. \A i \in due : Handled(i)' \/ (Ahead(i)' /\ stream'[read + 1].part = 1)
    BY <1>10, <1>11 DEF ChunkInv, DueAhead
  <2>2. \A i \in due : pdus'[i].type # "other"
    BY <1>2, <1>9 DEF ChunkInv, DueAhead
  <2> QED
    BY <1>3, <1>12, <2>1, <2>2 DEF DueAhead
<1> QED
  BY <1>1, <1>7, <1>8, <1>13 DEF ChunkInv

LEMMA ChunkFresh ==
  /\ Init => ChunkInv
  /\ Lost => ChunkInv'
<1>1. Len(<<>>) = 0 /\ DOMAIN <<>> = {}
  BY SMT
<1>2. Init => WholePdus /\ DueAhead /\ OpenFirst
  BY <1>1, SMT DEF Init, WholePdus, DueAhead, OpenFirst
<1>3. Lost => WholePdus' /\ DueAhead' /\ OpenFirst'
  BY <1>1, SMT DEF Lost, WholePdus, DueAhead, OpenFirst
<1> QED
  BY <1>2, <1>3, FreshStep DEF ChunkInv

LEMMA ChunkStep == ChunkInv /\ [Next]_vars => ChunkInv'
<1> SUFFICES ASSUME ChunkInv, [Next]_vars
             PROVE  ChunkInv'
  OBVIOUS
<1>1. CASE UNCHANGED vars
  <2>1. IInv'
    BY StreamStep DEF ChunkInv
  <2>2. UNCHANGED <<pdus, stream, received, read, session_id, closing, answers, failed, due>>
    BY <1>1 DEF vars
  <2> QED
    BY <2>1, <2>2 DEF ChunkInv, WholePdus, DueAhead, Handled, Answered, Ahead, OpenFirst
<1>2. CASE \E p \in Pdus \cup Opens : Send(p)
  BY <1>2, ChunkSend
<1>3. CASE \E k \in 1 .. Len(stream) - received : Receive(k)
  BY <1>3, ChunkReceive
<1>4. CASE Lost
  BY <1>4, ChunkFresh
<1>5. CASE DataReceived
  BY <1>5, ChunkData
<1> QED
  BY <1>1, <1>2, <1>3, <1>4, <1>5 DEF Next

(* For any PDUs, cut into chunks anywhere: what a chunk brings whole, from  *)
(* its first part on, is answered in full or has opened the session, unless *)
(* a lookup for a PDU of the chunk raised.                                  *)
THEOREM ChunkIsHandledHolds == Spec => []ChunkIsHandled
<1>1. ChunkInv => ChunkIsHandled
  <2> SUFFICES ASSUME ChunkInv, read = received, NEW i \in due, ~Handled(i)
               PROVE  FALSE
    BY DEF ChunkIsHandled
  <2>1. read < received
    BY AtDue DEF Aligned
  <2> QED
    BY <2>1, SMT DEF ChunkInv, IInv, TypeOK
<1> QED
  BY <1>1, ChunkFresh, ChunkStep, PTL DEF Spec

=============================================================================
