----------------------------- MODULE HttpProofs -----------------------------
(***************************************************************************)
(* Theorems about both sides of HTTP: HttpSession, for every client, every *)
(* application and any size of the packages, and NetClient, for every server*)
(* and number of requests.                                                 *)
(***************************************************************************)
EXTENDS HttpSession, NetClient, Lemmas, SequenceTheorems, TLAPS

-----------------------------------------------------------------------------
(*                               The session                               *)

(* What remains of HttpTypeOK when requests are not looked at. *)
SessionTypeOK ==
    /\ script \in SCRIPTS /\ chunk \in Nat /\ keepAlive \in BOOLEAN
    /\ received \in Seq(STRING)
    /\ ses \in Sessions /\ ses.cursor + ses.required <= Len(ses.buffer)

(* on_read_socket() and the operations exclude each other, and nothing is     *)
(* read once an answer was begun.                                             *)
TurnInv ==
    /\ ~(ses.reading /\ ses.writing)
    /\ chunk > 0 => ~ses.reading /\ ~ses.writing /\ ~ses.closed
    /\ (ses.reading \/ chunk > 0) => ~ses.sending

(* Before the answer nothing is sent, and what a write has under way is what  *)
(* follows all that the client has got.                                       *)
SendInv ==
    /\ ~ses.sending => ses.buffer = <<>> /\ ses.cursor = 0 /\ ~ses.writing /\ received = <<>>
    /\ ~ses.writing => ses.required = 0
    /\ ses.writing => Len(received) = ses.cursor

IInv == SessionTypeOK /\ TurnInv /\ SendInv /\ ReceivedInOrder
-----------------------------------------------------------------------------
(* The session of a request that has just been read. *)
Unanswered(s) ==
    /\ s \in Sessions /\ ~s.reading /\ ~s.writing /\ ~s.closed /\ ~s.sending
    /\ s.buffer = <<>> /\ s.cursor = 0 /\ s.required = 0

(* The same after its handler. *)
Answered(s) ==
    /\ s \in Sessions /\ ~s.reading /\ s.writing = s.sending
    /\ s.cursor = 0 /\ s.required <= Len(s.buffer)
    /\ ~s.sending => s.buffer = <<>> /\ s.required = 0

(* A package lies within the buffer. *)
LEMMA PackageFits ==
  ASSUME NEW s \in Sessions, s.cursor <= Len(s.buffer)
  PROVE  PackageLength(s) \in Nat /\ s.cursor + PackageLength(s) <= Len(s.buffer)
<1>1. s.cursor \in Nat /\ Len(s.buffer) \in Nat /\ SEND_PACKAGE_SIZE \in Nat
  BY PackageAssumption DEF Sessions
<1>2. QED
  BY <1>1 DEF PackageLength

(* async_send_data() of an application, once or again. *)
LEMMA SendingAnswers ==
  ASSUME NEW s, Answered(s), NEW data \in Seq(STRING)
  PROVE  /\ Answered(AsyncSendData(s, data))
         /\ AsyncSendData(s, data).closed = s.closed
<1> DEFINE filled == [s EXCEPT !.buffer = @ \o data]
           begun == [filled EXCEPT !.sending = TRUE, !.cursor = 0]
<1>1. s \in Sessions
  BY DEF Answered
<1>2. s.buffer \o data \in Seq(STRING) /\ Len(s.buffer \o data) = Len(s.buffer) + Len(data)
  BY <1>1, ConcatProperties DEF Sessions
<1>3. /\ filled \in Sessions /\ filled.buffer = s.buffer \o data
      /\ filled.reading = s.reading /\ filled.writing = s.writing
      /\ filled.sending = s.sending /\ filled.cursor = s.cursor
      /\ filled.required = s.required /\ filled.closed = s.closed
  BY <1>1, <1>2 DEF Sessions
<1>4. CASE s.sending
  <2>1. s.required <= Len(filled.buffer)
    BY <1>1, <1>2, <1>3 DEF Answered, Sessions
  <2> HIDE DEF filled
  <2>2. Answered(filled)
    BY <1>3, <1>4, <2>1 DEF Answered
  <2>3. AsyncSendData(s, data) = filled
    BY <1>4 DEF AsyncSendData, filled
  <2>4. QED
    BY <1>3, <2>2, <2>3
<1>5. CASE ~s.sending
  <2>1. /\ begun \in Sessions /\ begun.cursor = 0 /\ begun.buffer = filled.buffer
        /\ ~begun.reading /\ begun.sending /\ begun.closed = s.closed
    BY <1>3 DEF Answered, Sessions
  <2>2. PackageLength(begun) \in Nat /\ PackageLength(begun) <= Len(begun.buffer)
    <3>1. Len(begun.buffer) \in Nat /\ begun.cursor <= Len(begun.buffer)
      BY <1>2, <1>3, <2>1 DEF Sessions
    <3> HIDE DEF begun
    <3>2. PackageLength(begun) \in Nat /\ begun.cursor + PackageLength(begun) <= Len(begun.buffer)
      BY <2>1, <3>1, PackageFits
    <3>3. QED
      BY <2>1, <3>1, <3>2
  <2>3. Answered(SendPackage(begun)) /\ SendPackage(begun).closed = s.closed
    BY <2>1, <2>2 DEF SendPackage, Answered, Sessions
  <2>4. AsyncSendData(s, data) = SendPackage(begun)
    BY <1>3, <1>5 DEF AsyncSendData
  <2>5. QED
    BY <2>3, <2>4
<1>6. QED
  BY <1>4, <1>5

(* close_session() keeps the operations and the buffers. *)
LEMMA ClosingAnswers ==
  ASSUME NEW s, Answered(s)
  PROVE  Answered(CloseSession(s)) /\ CloseSession(s).closed
BY DEF Answered, CloseSession, Sessions

(* response_500() and close_session(). *)
LEMMA FailingAnswers ==
  ASSUME NEW s, Answered(s)
  PROVE  Answered(Fails(s)) /\ Fails(s).closed
BY SendingAnswers, ClosingAnswers, AnswerAssumption DEF Fails

(* Whatever handler a request finds, the session is then answered, waiting for*)
(* nothing, or closed.                                                        *)
LEMMA RequestAnswers ==
  ASSUME NEW s, Unanswered(s), NEW req, NEW act \in ACTS
  PROVE  Answered(OnRequest(s, req, act))
<1>1. Answered(s)
  BY DEF Unanswered, Answered, Sessions
<1>2. \A path : Answer(path) \in Seq(STRING)
  BY AnswerAssumption DEF Answer
<1>3. \A path : Answered(AsyncSendData(s, Answer(path)))
  BY <1>1, <1>2, SendingAnswers
<1>4. \A path : Answered(Serve(s, path, act))
  <2> TAKE path
  <2>1. act \in {"answer", "silent", "close", "throw", "answer_throw"}
    BY ActsAssumption
  <2>2. QED
    BY <1>1, <1>3, <2>1, ClosingAnswers, FailingAnswers DEF Serve
<1>5. QED
  BY <1>1, <1>4, FailingAnswers DEF OnRequest
-----------------------------------------------------------------------------
(* What a write hands to the client continues what the client has got.        *)
LEMMA ReceivesPackage ==
  ASSUME IInv, NEW n \in 0 .. ses.required
  PROVE  /\ received \o Package(ses, n) \in Seq(STRING)
         /\ Len(received \o Package(ses, n)) = Len(received) + n
         /\ Len(received) + n <= Len(ses.buffer)
         /\ received \o Package(ses, n) = SubSeq(ses.buffer, 1, Len(received) + n)
<1>1. /\ ses.buffer \in Seq(STRING) /\ ses.cursor \in Nat /\ ses.required \in Nat
      /\ ses.cursor + ses.required <= Len(ses.buffer) /\ received \in Seq(STRING)
      /\ Len(received) \in Nat /\ Len(received) <= Len(ses.buffer)
      /\ received = SubSeq(ses.buffer, 1, Len(received)) /\ Len(ses.buffer) \in Nat
  BY DEF IInv, SessionTypeOK, Sessions, ReceivedInOrder
<1>2. CASE ses.writing
  <2>1. Len(received) = ses.cursor /\ ses.cursor + n <= Len(ses.buffer) /\ n \in Nat
    BY <1>1, <1>2 DEF IInv, SendInv
  <2>2. received \o Package(ses, n) = SubSeq(ses.buffer, 1, ses.cursor + n)
    <3>1. /\ 1 \in 1 .. Len(ses.buffer) + 1 /\ ses.cursor \in 1 - 1 .. Len(ses.buffer)
          /\ ses.cursor + n \in ses.cursor .. Len(ses.buffer)
      BY <1>1, <2>1
    <3>2. SubSeq(ses.buffer, 1, ses.cursor) \o SubSeq(ses.buffer, ses.cursor + 1, ses.cursor + n)
            = SubSeq(ses.buffer, 1, ses.cursor + n)
      BY <1>1, <3>1, ConcatAdjacentSubSeq
    <3>3. QED
      BY <1>1, <2>1, <3>2 DEF Package
  <2>3. /\ SubSeq(ses.buffer, 1, ses.cursor + n) \in Seq(STRING)
        /\ Len(SubSeq(ses.buffer, 1, ses.cursor + n)) = ses.cursor + n
    <3>1. \A i \in 1 .. ses.cursor + n : ses.buffer[i] \in STRING
      BY <1>1, <2>1, ElementOfSeq
    <3>2. 1 \in Int /\ ses.cursor + n \in Int /\ ses.cursor + n >= 0
      BY <1>1, <2>1
    <3>3. QED
      BY <3>1, <3>2, SubSeqProperties, Z3
  <2>4. Len(received) + n = ses.cursor + n
    BY <2>1
  <2>5. Len(received) + n <= Len(ses.buffer)
    BY <2>1
  <2>6. received \o Package(ses, n) = SubSeq(ses.buffer, 1, Len(received) + n)
    BY <2>2, <2>4
  <2>7. /\ received \o Package(ses, n) \in Seq(STRING)
        /\ Len(received \o Package(ses, n)) = ses.cursor + n
    BY <2>2, <2>3, Zenon
  <2>8. Len(received \o Package(ses, n)) = Len(received) + n
    BY <2>4, <2>7, Zenon
  <2>9. QED
    BY <2>5, <2>6, <2>7, <2>8, Zenon
<1>3. CASE ~ses.writing
  <2>1. n = 0
    BY <1>3 DEF IInv, SendInv
  <2>2. Package(ses, n) = <<>>
    BY <1>1, <2>1, SubSeqEmpty DEF Package
  <2>3. received \o Package(ses, n) = received
    BY <1>1, <2>2, ConcatEmptySeq
  <2>4. Len(received) + n = Len(received)
    BY <1>1, <2>1
  <2>5. QED
    BY <1>1, <2>3, <2>4, Zenon
<1>4. QED
  BY <1>2, <1>3

(* The client's steps. *)
LEMMA ClientStep == IInv /\ (ClientSends \/ ClientLeaves \/ Gone \/ UNCHANGED vars) => IInv'
BY DEF ClientSends, ClientLeaves, Gone, vars, IInv, SessionTypeOK, TurnInv, SendInv,
   ReceivedInOrder

(* The steps of on_read_socket() up to the request. *)
LEMMA ReadStep == IInv /\ ((\E n \in 1 .. Len(script) : HandleRead(n)) \/ PushOctet) => IInv'
<1> USE DEF IInv, SessionTypeOK, TurnInv, SendInv, ReceivedInOrder
<1>1. ASSUME IInv, NEW n \in 1 .. Len(script), HandleRead(n) PROVE IInv'
  <2>1. n \in Nat
    BY <1>1, ScriptsAssumption
  <2>2. QED
    BY <1>1, <2>1 DEF HandleRead, clientVars, Sessions
<1>2. ASSUME IInv, PushOctet PROVE IInv'
  <2>1. /\ chunk > 0 /\ chunk' = chunk - 1 /\ UNCHANGED <<script, keepAlive, received>>
        /\ ses' = IF chunk = 1 THEN [ses EXCEPT !.reading = TRUE] ELSE ses
    BY <1>2 DEF PushOctet, OnAfterRead, OpenAsyncRead, clientVars
  <2>2. CASE chunk = 1
    <3>1. /\ ses' \in Sessions /\ ses'.reading /\ ses'.writing = ses.writing
          /\ ses'.required = ses.required /\ ses'.cursor = ses.cursor
          /\ ses'.buffer = ses.buffer /\ ses'.sending = ses.sending
      BY <1>2, <2>1, <2>2 DEF Sessions
    <3>2. QED
      BY <1>2, <2>1, <2>2, <3>1
  <2>3. CASE chunk # 1
    BY <1>2, <2>1, <2>3
  <2>4. QED
    BY <2>2, <2>3
<1>3. QED
  BY <1>1, <1>2

(* The request and its handler. *)
LEMMA RequestStep == IInv /\ PushLastOctet => IInv' /\ Answered(ses')
<1> SUFFICES ASSUME IInv, PushLastOctet PROVE IInv' /\ Answered(ses')
  OBVIOUS
<1>1. /\ chunk > 0 /\ chunk' = 0 /\ UNCHANGED <<script, keepAlive, received>>
      /\ \E req : \E act \in ACTS : ses' = OnRequest(ses, req, act)
  BY DEF PushLastOctet, OnAfterRead, clientVars
<1>2. Unanswered(ses) /\ received = <<>>
  BY <1>1 DEF IInv, SessionTypeOK, TurnInv, SendInv, Unanswered
<1>3. Answered(ses')
  BY <1>1, <1>2, RequestAnswers
<1>4. SessionTypeOK'
  BY <1>1, <1>3 DEF IInv, SessionTypeOK, Answered, Sessions
<1>5. TurnInv'
  BY <1>1, <1>3 DEF TurnInv, Answered
<1>6. SendInv'
  BY <1>1, <1>2, <1>3 DEF SendInv, Answered
<1>7. ReceivedInOrder'
  BY <1>1, <1>2, <1>3, SubSeqEmpty DEF ReceivedInOrder, Answered, Sessions
<1>8. QED
  BY <1>3, <1>4, <1>5, <1>6, <1>7 DEF IInv

(* The ways in which a session loses its operations. *)
LEMMA CloseStep == IInv /\ (ReadFails \/ WriteFails \/ HandleClosed \/ ServerCloses) => IInv'
<1> SUFFICES ASSUME IInv, ReadFails \/ WriteFails \/ HandleClosed \/ ServerCloses PROVE IInv'
  OBVIOUS
<1>1. /\ ses.cursor \in Nat /\ Len(ses.buffer) \in Nat /\ ses.cursor <= Len(ses.buffer)
      /\ 0 \in 0 .. ses.required /\ ses \in Sessions
  BY DEF IInv, SessionTypeOK, Sessions
<1>2. PICK n \in 0 .. ses.required : received' = received \o Package(ses, n)
  <2>1. CASE ReadFails \/ ServerCloses
    <3>1. Package(ses, 0) = <<>>
      BY <1>1, SubSeqEmpty DEF Package
    <3>2. received' = received \o Package(ses, 0)
      BY <2>1, <3>1, ConcatEmptySeq DEF ReadFails, ServerCloses, IInv, SessionTypeOK
    <3>3. QED
      BY <1>1, <3>2
  <2>2. QED
    BY <2>1 DEF WriteFails, HandleClosed
<1>3. chunk = 0 /\ UNCHANGED <<script, keepAlive, chunk>>
  BY DEF IInv, SessionTypeOK, TurnInv, ReadFails, WriteFails, HandleClosed, ServerCloses, clientVars
<1>4. ses' = [ses EXCEPT !.reading = FALSE, !.writing = FALSE, !.required = 0, !.closed = TRUE]
  <2>1. CASE ReadFails
    <3>1. ~ses.writing /\ ses.required = 0
      BY <2>1 DEF ReadFails, IInv, TurnInv, SendInv
    <3>2. QED
      BY <1>1, <2>1, <3>1 DEF ReadFails, CloseSession, Sessions
  <2>2. CASE WriteFails
    <3>1. ~ses.reading
      BY <2>2 DEF WriteFails, IInv, TurnInv
    <3>2. QED
      BY <1>1, <2>2, <3>1 DEF WriteFails, CloseSession, Sessions
  <2>3. CASE HandleClosed
    BY <1>1, <2>3 DEF HandleClosed, Sessions
  <2>4. CASE ServerCloses
    BY <1>1, <2>4 DEF ServerCloses, CloseSession, Sessions
  <2>5. QED
    BY <2>1, <2>2, <2>3, <2>4
<1>5. /\ ses' \in Sessions /\ ~ses'.reading /\ ~ses'.writing /\ ses'.required = 0
      /\ ses'.buffer = ses.buffer /\ ses'.cursor = ses.cursor /\ ses'.sending = ses.sending
  BY <1>1, <1>4 DEF Sessions
<1>6. SessionTypeOK'
  BY <1>1, <1>2, <1>3, <1>5, ReceivesPackage DEF IInv, SessionTypeOK
<1>7. ReceivedInOrder'
  BY <1>2, <1>5, ReceivesPackage DEF ReceivedInOrder
<1>8. ASSUME ~ses.sending PROVE received' = <<>>
  <2>1. n = 0 /\ received = <<>>
    BY <1>8 DEF IInv, SendInv
  <2>2. Package(ses, 0) = <<>>
    BY <1>1, SubSeqEmpty DEF Package
  <2>3. QED
    BY <1>2, <2>1, <2>2, ConcatEmptySeq DEF IInv, SessionTypeOK
<1>9. TurnInv'
  BY <1>3, <1>5 DEF TurnInv
<1>10. SendInv'
  BY <1>5, <1>8 DEF IInv, SendInv
<1>11. QED
  BY <1>6, <1>7, <1>9, <1>10 DEF IInv

(* A package has been taken by the network. *)
LEMMA WriteStep == IInv /\ HandleWrite => IInv'
<1> SUFFICES ASSUME IInv, HandleWrite PROVE IInv'
  OBVIOUS
<1> DEFINE done == [ses EXCEPT !.writing = FALSE, !.required = 0, !.cursor = Advanced(ses)]
<1>1. /\ ses \in Sessions /\ ses.writing /\ ~ses.reading /\ chunk = 0 /\ ses.sending
      /\ Len(received) = ses.cursor /\ ses.cursor \in Nat /\ ses.required \in Nat
      /\ ses.cursor + ses.required <= Len(ses.buffer) /\ Len(ses.buffer) \in Nat
      /\ ses.required \in 0 .. ses.required /\ script \in SCRIPTS /\ keepAlive \in BOOLEAN
  BY DEF HandleWrite, IInv, SessionTypeOK, TurnInv, SendInv, Sessions
<1>2. /\ received' = received \o Package(ses, ses.required)
      /\ UNCHANGED <<script, chunk, keepAlive>>
      /\ ses' = IF done.cursor < Len(done.buffer) THEN SendPackage(done) ELSE OnAfterSend(done)
  BY DEF HandleWrite, clientVars
<1>3. /\ done \in Sessions /\ ~done.reading /\ ~done.writing /\ done.required = 0
      /\ done.sending /\ done.buffer = ses.buffer /\ done.cursor = ses.cursor + ses.required
  <2>1. Advanced(ses) = ses.cursor + ses.required /\ Advanced(ses) \in Nat
    BY <1>1 DEF Advanced
  <2>2. QED
    BY <1>1, <2>1 DEF Sessions
<1>4. /\ received' \in Seq(STRING) /\ Len(received') = done.cursor
      /\ Len(received') <= Len(ses.buffer)
      /\ received' = SubSeq(ses.buffer, 1, Len(received'))
  <2>1. Len(received') = Len(received) + ses.required
    BY <1>1, <1>2, ReceivesPackage
  <2>2. QED
    BY <1>1, <1>2, <1>3, <2>1, ReceivesPackage
<1> HIDE DEF done
<1>5. /\ ses' \in Sessions /\ ~ses'.reading /\ ses'.sending /\ ses'.buffer = ses.buffer
      /\ ses'.cursor = done.cursor /\ ses'.cursor + ses'.required <= Len(ses'.buffer)
      /\ ~ses'.writing => ses'.required = 0
  <2>1. CASE done.cursor < Len(done.buffer)
    <3>1. PackageLength(done) \in Nat /\ done.cursor + PackageLength(done) <= Len(done.buffer)
      BY <1>1, <1>3, <2>1, PackageFits
    <3>2. ses' = [done EXCEPT !.writing = TRUE, !.required = PackageLength(done)]
      BY <1>2, <2>1 DEF SendPackage
    <3>3. QED
      BY <1>3, <3>1, <3>2 DEF Sessions
  <2>2. CASE ~(done.cursor < Len(done.buffer))
    <3>1. ses' \in {done, [done EXCEPT !.closed = TRUE]}
      BY <1>2, <2>2 DEF OnAfterSend, CloseSession
    <3>2. done.cursor + 0 <= Len(done.buffer)
      BY <1>1, <1>3
    <3>3. QED
      BY <1>3, <3>1, <3>2 DEF Sessions
  <2>3. QED
    BY <2>1, <2>2
<1>6. SessionTypeOK'
  BY <1>1, <1>2, <1>4, <1>5 DEF SessionTypeOK
<1>7. TurnInv'
  BY <1>1, <1>2, <1>5 DEF TurnInv
<1>8. SendInv'
  BY <1>4, <1>5 DEF SendInv
<1>9. ReceivedInOrder'
  BY <1>4, <1>5 DEF ReceivedInOrder
<1>10. QED
  BY <1>6, <1>7, <1>8, <1>9 DEF IInv

(* A session that has just been made keeps the invariant. *)
LEMMA InitInv == Init => IInv
<1> SUFFICES ASSUME Init PROVE IInv
  OBVIOUS
<1>1. /\ script \in SCRIPTS /\ chunk = 0 /\ keepAlive \in BOOLEAN /\ received = <<>>
      /\ ses = [reading |-> TRUE, writing |-> FALSE, required |-> 0, sending |-> FALSE,
                buffer |-> <<>>, cursor |-> 0, closed |-> FALSE]
  BY DEF Init
<1>2. SessionTypeOK
  BY <1>1 DEF SessionTypeOK, Sessions
<1>3. ReceivedInOrder
  BY <1>1, SubSeqEmpty DEF ReceivedInOrder
<1>4. QED
  BY <1>1, <1>2, <1>3 DEF IInv, TurnInv, SendInv

(* Every step of session, client and application keeps it. *)
LEMMA NextInv == IInv /\ [Next]_vars => IInv'
BY ClientStep, ReadStep, RequestStep, CloseStep, WriteStep DEF Next, Handlers

(* It holds in every state. *)
LEMMA AlwaysIInv == Spec => []IInv
BY InitInv, NextInv, PTL DEF Spec
-----------------------------------------------------------------------------
(* What a client has got is the beginning of the answer, whatever it does and *)
(* wherever SEND_PACKAGE_SIZE cuts the answer: asio_write_handler() and       *)
(* send_package() neither repeat nor skip an octet.                           *)
THEOREM AnswerInOrder == Spec => []ReceivedInOrder
<1>1. IInv => ReceivedInOrder
  BY DEF IInv
<1>2. QED
  BY <1>1, AlwaysIInv, PTL

(* A session reads or writes, never both.                                     *)
THEOREM OneOperationAtATime == Spec => []OneOperation
<1>1. IInv => OneOperation
  BY DEF IInv, TurnInv, OneOperation
<1>2. QED
  BY <1>1, AlwaysIInv, PTL

(* on_after_send() comes after the last octet of the answer.                  *)
THEOREM ClosesAfterAnswer == Spec => ClosedAfterAnswer
<1>1. ASSUME IInv, HandleWrite, ses'.closed PROVE received' = ses.buffer
  <2> DEFINE done == [ses EXCEPT !.writing = FALSE, !.required = 0, !.cursor = Advanced(ses)]
  <2>1. /\ ses \in Sessions /\ ~ses.closed /\ Len(received) = ses.cursor
        /\ ses.required \in 0 .. ses.required
        /\ ses.buffer \in Seq(STRING) /\ ses.cursor \in Nat /\ ses.required \in Nat
        /\ Len(ses.buffer) \in Nat /\ ses.cursor + ses.required <= Len(ses.buffer)
    BY <1>1 DEF HandleWrite, IInv, SessionTypeOK, SendInv, Sessions
  <2>2. done \in Sessions /\ ~done.closed /\ done.buffer = ses.buffer
        /\ done.cursor = ses.cursor + ses.required
    <3>1. Advanced(ses) = ses.cursor + ses.required /\ Advanced(ses) \in Nat
      BY <2>1 DEF Advanced
    <3>2. QED
      BY <2>1, <3>1 DEF Sessions
  <2>3. ~(done.cursor < Len(done.buffer))
    <3>1. ses' = IF done.cursor < Len(done.buffer) THEN SendPackage(done) ELSE OnAfterSend(done)
      BY <1>1 DEF HandleWrite
    <3> HIDE DEF done
    <3>2. ~SendPackage(done).closed
      BY <2>2 DEF SendPackage, Sessions
    <3>3. QED
      BY <1>1, <3>1, <3>2
  <2>4. Len(received) + ses.required = Len(ses.buffer)
    BY <2>1, <2>2, <2>3
  <2>5. received' = SubSeq(ses.buffer, 1, Len(ses.buffer))
    BY <1>1, <2>1, <2>4, ReceivesPackage DEF HandleWrite
  <2>6. QED
    BY <2>1, <2>5, SubSeqFull
<1>2. IInv /\ [Next]_vars => [HandleWrite /\ ses'.closed => received' = ses.buffer]_vars
  BY <1>1
<1>3. QED
  BY <1>2, AlwaysIInv, PTL DEF Spec, ClosedAfterAnswer

(* HttpSession takes the turns that TcpServer gives its sessions, for every   *)
(* client and every handler an application may write.                         *)
THEOREM RefinesTurns == Spec => ImplementsTurns
<1> DEFINE opBar == IF ses.reading \/ chunk > 0 THEN "read"
                    ELSE IF ses.writing THEN "write" ELSE "none"
<1>1. Init => Turns!Init
  BY DEF Init, Turns!Init
<1>2. IInv /\ [Next]_vars => [Turns!Next]_<<opBar, ses.closed>>
  <2> SUFFICES ASSUME IInv, [Next]_vars PROVE [Turns!Next]_<<opBar, ses.closed>>
    OBVIOUS
  <2> USE DEF Turns!Next, clientVars
  <2>1. ses \in Sessions /\ chunk \in Nat
    BY DEF IInv, SessionTypeOK
  <2>2. CASE ClientSends \/ ClientLeaves \/ Gone \/ UNCHANGED vars
    BY <2>2 DEF ClientSends, ClientLeaves, Gone, vars
  <2>3. CASE \E n \in 1 .. Len(script) : HandleRead(n)
    <3>1. chunk' > 0 /\ ses.reading /\ ses'.closed = ses.closed
      BY <2>1, <2>3, ScriptsAssumption DEF HandleRead, IInv, SessionTypeOK, Sessions
    <3>2. QED
      BY <3>1
  <2>4. CASE PushOctet
    <3>1. /\ chunk > 0 /\ chunk' = chunk - 1
          /\ ses' = IF chunk = 1 THEN [ses EXCEPT !.reading = TRUE] ELSE ses
      BY <2>4 DEF PushOctet, OnAfterRead, OpenAsyncRead
    <3>2. (ses'.reading \/ chunk' > 0) /\ ses'.closed = ses.closed
      BY <2>1, <3>1 DEF Sessions
    <3>3. QED
      BY <3>1, <3>2
  <2>5. CASE PushLastOctet
    <3>1. Answered(ses') /\ chunk > 0 /\ chunk' = 0 /\ ~ses.closed
      BY <2>5, RequestStep DEF PushLastOctet, IInv, TurnInv
    <3>2. ses' \in Sessions /\ ~ses'.reading
      BY <3>1 DEF Answered
    <3>3. Turns!Read
      BY <2>1, <3>1, <3>2 DEF Turns!Read, Sessions
    <3>4. QED
      BY <3>3
  <2>6. CASE ReadFails
    <3>1. /\ ses.reading /\ ~ses.closed /\ ~ses.writing /\ chunk = 0 /\ chunk' = 0
          /\ ~ses'.reading /\ ~ses'.writing /\ ses'.closed
      BY <2>1, <2>6 DEF ReadFails, CloseSession, IInv, TurnInv, Sessions
    <3>2. Turns!Read
      BY <3>1 DEF Turns!Read
    <3>3. QED
      BY <3>2
  <2>7. CASE HandleWrite
    <3>1. /\ ses.writing /\ ses.closed = FALSE /\ ~ses.reading /\ chunk = 0 /\ chunk' = 0
      BY <2>1, <2>7 DEF HandleWrite, IInv, TurnInv, Sessions
    <3>2. ~ses'.reading /\ ses'.closed \in BOOLEAN /\ (ses'.closed => ~ses'.writing)
      <4> DEFINE done == [ses EXCEPT !.writing = FALSE, !.required = 0, !.cursor = Advanced(ses)]
      <4>1. ~done.reading /\ ~done.writing /\ done.closed = FALSE /\ DOMAIN done = DOMAIN ses
        BY <2>1, <3>1 DEF Sessions
      <4>2. ses' = IF done.cursor < Len(done.buffer) THEN SendPackage(done) ELSE OnAfterSend(done)
        BY <2>7 DEF HandleWrite
      <4> HIDE DEF done
      <4>3. DOMAIN done = {"reading", "writing", "required", "sending", "buffer", "cursor", "closed"}
        BY <2>1, <4>1 DEF Sessions
      <4>4. /\ SendPackage(done).reading = done.reading /\ SendPackage(done).closed = done.closed
            /\ CloseSession(done).reading = done.reading /\ CloseSession(done).closed = TRUE
            /\ CloseSession(done).writing = done.writing
        BY <4>3 DEF SendPackage, CloseSession
      <4>5. QED
        BY <4>1, <4>2, <4>4 DEF OnAfterSend
    <3>3. opBar = "write" /\ opBar' = IF ses'.writing THEN "write" ELSE "none"
      BY <3>1, <3>2
    <3>4. CASE ses'.closed = TRUE
      BY <3>1, <3>2, <3>3, <3>4 DEF Turns!Write
    <3>5. CASE ses'.closed = FALSE
      BY <3>1, <3>3, <3>5 DEF Turns!Write
    <3>6. QED
      BY <3>2, <3>4, <3>5
  <2>8. CASE WriteFails
    <3>1. /\ ses.writing /\ ~ses.closed /\ ~ses.reading /\ chunk = 0 /\ chunk' = 0
          /\ ~ses'.reading /\ ~ses'.writing /\ ses'.closed
      BY <2>1, <2>8 DEF WriteFails, CloseSession, IInv, TurnInv, Sessions
    <3>2. Turns!Write
      BY <3>1 DEF Turns!Write
    <3>3. QED
      BY <3>2
  <2>9. CASE HandleClosed
    <3>1. ses.closed /\ (ses.reading \/ ses.writing) /\ chunk = 0 /\ chunk' = 0
      BY <2>1, <2>9 DEF HandleClosed, IInv, TurnInv
    <3>2. ~ses'.reading /\ ~ses'.writing /\ ses'.closed = ses.closed
      BY <2>1, <2>9 DEF HandleClosed, Sessions
    <3>3. Turns!Aborted
      BY <3>1, <3>2 DEF Turns!Aborted
    <3>4. QED
      BY <3>3
  <2>10. CASE ServerCloses
    <3>1. /\ ~ses.closed /\ chunk = 0 /\ chunk' = 0
          /\ ~ses'.reading /\ ~ses'.writing /\ ses'.closed
      BY <2>1, <2>10 DEF ServerCloses, CloseSession, Sessions
    <3>2. Turns!ServerCloses
      BY <3>1 DEF Turns!ServerCloses
    <3>3. QED
      BY <3>2
  <2>11. QED
    BY <2>2, <2>3, <2>4, <2>5, <2>6, <2>7, <2>8, <2>9, <2>10 DEF Next, Handlers
<1>3. QED
  BY <1>1, <1>2, AlwaysIInv, PTL DEF Spec, ImplementsTurns, Turns!Spec
-----------------------------------------------------------------------------
(*                     The request that was delivered                        *)

(* The octets of `line' are those of the stream's line that octet n belongs   *)
(* to, up to n, in their order.                                               *)
LineSoFar(s, n, line) ==
    \E pos \in [1 .. Len(line) -> Int] :
        /\ \A k \in 1 .. Len(line) : line[k] = s[pos[k]]
        /\ \A k, l \in 1 .. Len(line) : k < l => pos[k] < pos[l]
        /\ LineTo(s, n + 1) = {pos[k] : k \in 1 .. Len(line)}

NoRequest(s, n) == \A e \in 1 .. n : s[e] = LF => ~IsRequest(s, e)

FirstRequest(s, r) == s[r] = LF /\ IsRequest(s, r) /\ NoRequest(s, r - 1)

InHeader(s, r, n) == \A e \in r + 1 .. n : s[e] = LF => LineTo(s, e) # {}

FieldsTo(s, r, n) == {e \in r + 1 .. n : s[e] = LF /\ IsField(s, e)}

LengthIs(s, r, n, length) ==
    \/ FieldsTo(s, r, n) = {} /\ length = 0
    \/ \E e \in FieldsTo(s, r, n) : /\ \A f \in FieldsTo(s, r, n) : f <= e
                                    /\ length = CONTENT_LENGTH[FirstOctet(s, e)]

RequestName(s, r) == IF FirstOctet(s, r) \in REQUEST_LINES THEN FirstOctet(s, r) ELSE Garbled

(* The header of the first request ends at octet h. *)
HeaderIs(s, r, h) ==
    /\ r \in Nat \ {0} /\ h \in Nat /\ r < h
    /\ FirstRequest(s, r) /\ InHeader(s, r, h - 1) /\ s[h] = LF /\ LineTo(s, h) = {}

(* What the splitter knows after n octets of a stream. *)
SplitterAt(s, n, sp) ==
    /\ sp \in Splitters
    /\ sp.state # "read_content" => LineSoFar(s, n, sp.line)
    /\ sp.state = "wait_header" => NoRequest(s, n)
    /\ sp.state = "parse_header" =>
            /\ sp.content = <<>>
            /\ \E r \in 1 .. n : /\ FirstRequest(s, r) /\ InHeader(s, r, n)
                                 /\ sp.request = RequestName(s, r)
                                 /\ LengthIs(s, r, n, sp.length)
    /\ sp.state = "read_content" =>
            /\ Len(sp.content) < sp.length
            /\ \E r, h \in 1 .. n : /\ HeaderIs(s, r, h)
                                    /\ sp.request = RequestName(s, r)
                                    /\ LengthIs(s, r, h, sp.length)
                                    /\ sp.content = SubSeq(s, h + 1, n)

(* The first request of a stream ends at octet n. *)
Complete(s, n, sp) ==
    \E r, h \in 1 .. n : /\ HeaderIs(s, r, h)
                         /\ sp.request = RequestName(s, r)
                         /\ LengthIs(s, r, h, sp.length)
                         /\ sp.length = n - h
                         /\ sp.content = SubSeq(s, h + 1, n)
-----------------------------------------------------------------------------
(* The least of a set of numbers. *)
LEMMA LeastIs ==
  ASSUME NEW T \in SUBSET Nat, NEW t \in T, \A u \in T : t <= u
  PROVE  Least(T) = t
<1>1. \E i \in T : \A j \in T : i <= j
  OBVIOUS
<1>2. Least(T) \in T /\ \A j \in T : Least(T) <= j
  BY <1>1, Zenon DEF Least
<1>3. Least(T) \in Nat /\ t \in Nat /\ Least(T) <= t /\ t <= Least(T)
  BY <1>2
<1>4. QED
  BY <1>3

(* One octet more. *)
LEMMA LineBegins ==
  ASSUME NEW s, NEW n \in Nat, n = 0 \/ s[n] = LF
  PROVE  LineSoFar(s, n, <<>>)
<1>1. LineTo(s, n + 1) = {}
  BY DEF LineTo
<1>2. QED
  <2> DEFINE pos == [k \in 1 .. Len(<<>>) |-> 0]
  <2>1. pos \in [1 .. Len(<<>>) -> Int] /\ 1 .. Len(<<>>) = {}
    OBVIOUS
  <2> HIDE DEF pos
  <2>2. QED
    BY <1>1, <2>1 DEF LineSoFar

(* The positions of the line that is being read, one octet further. *)
LEMMA LineToNext ==
  ASSUME NEW s, NEW n \in Nat
  PROVE  /\ LineTo(s, n + 1) = {i \in 1 .. n : s[i] # CR /\ \A k \in i .. n : s[k] # LF}
         /\ LineTo(s, n + 1 + 1) =
                {i \in 1 .. n + 1 : s[i] # CR /\ \A k \in i .. n + 1 : s[k] # LF}
<1>1. (n + 1) - 1 = n /\ (n + 1 + 1) - 1 = n + 1
  OBVIOUS
<1>2. QED
  BY <1>1 DEF LineTo

(* CR is not a part of the line. *)
LEMMA LineKeeps ==
  ASSUME NEW s, NEW n \in Nat, NEW line, LineSoFar(s, n, line), s[n + 1] = CR
  PROVE  LineSoFar(s, n + 1, line)
<1>1. CR # LF
  BY OctetsAssumption
<1>2. LineTo(s, n + 1 + 1) = LineTo(s, n + 1)
  <2> DEFINE P(i) == s[i] # CR /\ \A k \in i .. n : s[k] # LF
             Q(i) == s[i] # CR /\ \A k \in i .. n + 1 : s[k] # LF
  <2>1. \A i \in 1 .. n + 1 : Q(i) <=> (i \in 1 .. n /\ P(i))
    BY <1>1
  <2>2. LineTo(s, n + 1) = {i \in 1 .. n : P(i)} /\ LineTo(s, n + 1 + 1) = {i \in 1 .. n + 1 : Q(i)}
    BY LineToNext
  <2>3. 1 .. n \subseteq 1 .. n + 1
    OBVIOUS
  <2> HIDE DEF P, Q
  <2>4. QED
    BY <2>1, <2>2, <2>3
<1>3. QED
  BY <1>2 DEF LineSoFar

(* Every other octet within a line is. *)
LEMMA LineGrows ==
  ASSUME NEW s, NEW n \in Nat, NEW line \in Seq(OCTETS), LineSoFar(s, n, line),
         s[n + 1] \notin {CR, LF}
  PROVE  LineSoFar(s, n + 1, Append(line, s[n + 1]))
<1>1. LineTo(s, n + 1 + 1) = LineTo(s, n + 1) \cup {n + 1}
  BY DEF LineTo
<1>2. PICK pos \in [1 .. Len(line) -> Int] :
        /\ \A k \in 1 .. Len(line) : line[k] = s[pos[k]]
        /\ \A k, l \in 1 .. Len(line) : k < l => pos[k] < pos[l]
        /\ LineTo(s, n + 1) = {pos[k] : k \in 1 .. Len(line)}
  BY DEF LineSoFar
<1> DEFINE longer == Append(line, s[n + 1])
           new == [k \in 1 .. Len(longer) |-> IF k = Len(longer) THEN n + 1 ELSE pos[k]]
<1>3. /\ Len(longer) = Len(line) + 1 /\ Len(line) \in Nat /\ longer[Len(longer)] = s[n + 1]
      /\ \A k \in 1 .. Len(line) : longer[k] = line[k]
  OBVIOUS
<1> HIDE DEF longer
<1>4. new \in [1 .. Len(longer) -> Int]
  BY <1>3
<1>5. \A k \in 1 .. Len(longer) : longer[k] = s[new[k]]
  BY <1>2, <1>3
<1>6. \A k, l \in 1 .. Len(longer) : k < l => new[k] < new[l]
  <2>1. \A k \in 1 .. Len(line) : pos[k] < n + 1
    BY <1>2 DEF LineTo
  <2> TAKE k, l \in 1 .. Len(longer)
  <2>2. CASE l = Len(longer)
    BY <1>3, <2>1, <2>2
  <2>3. CASE l # Len(longer)
    <3>1. l \in 1 .. Len(line) /\ (k < l => k \in 1 .. Len(line))
      BY <1>3, <2>3
    <3>2. QED
      BY <1>2, <1>3, <3>1
  <2>4. QED
    BY <2>2, <2>3
<1>7. LineTo(s, n + 1 + 1) = {new[k] : k \in 1 .. Len(longer)}
  BY <1>1, <1>2, <1>3
<1>8. QED
  BY <1>4, <1>5, <1>6, <1>7 DEF LineSoFar, longer

(* What a whole line says, as the splitter sees it. *)
LEMMA LineRead ==
  ASSUME NEW s, NEW n \in Nat, NEW line \in Seq(OCTETS), LineSoFar(s, n, line)
  PROVE  /\ LineTo(s, n + 1) = {} <=> line = <<>>
         /\ line # <<>> => FirstOctet(s, n + 1) = line[1]
         /\ IsRequest(s, n + 1) <=> RequestAt(line) # {}
<1>1. PICK pos \in [1 .. Len(line) -> Int] :
        /\ \A k \in 1 .. Len(line) : line[k] = s[pos[k]]
        /\ \A k, l \in 1 .. Len(line) : k < l => pos[k] < pos[l]
        /\ LineTo(s, n + 1) = {pos[k] : k \in 1 .. Len(line)}
  BY DEF LineSoFar
<1>2. Len(line) \in Nat /\ (line # <<>> <=> Len(line) >= 1) /\ DOMAIN line = 1 .. Len(line)
  BY EmptySeq, LenProperties
<1>3. LineTo(s, n + 1) = {} <=> line = <<>>
  <2>1. CASE line = <<>>
    BY <1>1, <1>2, <2>1
  <2>2. CASE line # <<>>
    <3>1. pos[1] \in LineTo(s, n + 1)
      BY <1>1, <1>2, <2>2
    <3>2. QED
      BY <2>2, <3>1
  <2>3. QED
    BY <2>1, <2>2
<1>4. ASSUME line # <<>>
      PROVE  FirstOctet(s, n + 1) = line[1]
  <2>1. LineTo(s, n + 1) \in SUBSET Nat
    BY DEF LineTo
  <2>2. pos[1] \in LineTo(s, n + 1) /\ \A u \in LineTo(s, n + 1) : pos[1] <= u
    BY <1>1, <1>2, <1>4
  <2>3. Least(LineTo(s, n + 1)) = pos[1]
    BY <2>1, <2>2, LeastIs
  <2>4. QED
    BY <1>1, <1>2, <1>4, <2>3 DEF FirstOctet
<1>5. IsRequest(s, n + 1) <=> RequestAt(line) # {}
  <2>1. \A k, l \in 1 .. Len(line) : pos[k] < pos[l] <=> k < l
    BY <1>1
  <2>2. ASSUME NEW k \in RequestAt(line)
        PROVE  IsRequest(s, n + 1)
    <3>1. k \in 1 .. Len(line) /\ line[k] \in REQUEST_LINES /\ \A j \in 1 .. k - 1 : line[j] \in PLAIN
      BY <1>2 DEF RequestAt
    <3>2. pos[k] \in LineTo(s, n + 1) /\ s[pos[k]] \in REQUEST_LINES
      BY <1>1, <3>1
    <3>3. \A l \in 1 .. Len(line) : pos[l] < pos[k] => s[pos[l]] \in PLAIN
      BY <1>1, <1>2, <2>1, <3>1
    <3>4. \A j \in LineTo(s, n + 1) : j < pos[k] => s[j] \in PLAIN
      BY <1>1, <3>3
    <3>5. QED
      BY <3>2, <3>4 DEF IsRequest
  <2>3. ASSUME IsRequest(s, n + 1)
        PROVE  RequestAt(line) # {}
    <3>1. PICK i \in LineTo(s, n + 1) :
              s[i] \in REQUEST_LINES /\ \A j \in LineTo(s, n + 1) : j < i => s[j] \in PLAIN
      BY <2>3 DEF IsRequest
    <3>2. PICK k \in 1 .. Len(line) : i = pos[k]
      BY <1>1
    <3>3. \A l \in 1 .. k - 1 : line[l] \in PLAIN
      BY <1>1, <1>2, <3>1, <3>2
    <3>4. k \in RequestAt(line)
      BY <1>1, <1>2, <3>1, <3>2, <3>3 DEF RequestAt
    <3>5. QED
      BY <3>4
  <2>4. QED
    BY <2>2, <2>3
<1>6. QED
  BY <1>3, <1>4, <1>5
-----------------------------------------------------------------------------
(* process_line_buffer() at the end of a line, in both states. *)
LEMMA RequestRead ==
  ASSUME NEW s \in Seq(OCTETS), NEW n \in Nat, n < Len(s), NEW sp, SplitterAt(s, n, sp),
         sp.state = "wait_header", s[n + 1] = LF
  PROVE  SplitterAt(s, n + 1, ProcessLine(sp)) /\ ProcessLine(sp).state # "read_content"
<1>1. /\ sp \in Splitters /\ sp.line \in Seq(OCTETS) /\ LineSoFar(s, n, sp.line) /\ NoRequest(s, n)
  BY DEF SplitterAt, Splitters
<1>2. /\ LineTo(s, n + 1) = {} <=> sp.line = <<>>
      /\ sp.line # <<>> => FirstOctet(s, n + 1) = sp.line[1]
      /\ IsRequest(s, n + 1) <=> RequestAt(sp.line) # {}
  BY <1>1, LineRead
<1>3. LineSoFar(s, n + 1, <<>>)
  BY LineBegins
<1>3a. sp \in Splitters /\ <<>> \in Seq(OCTETS)
  BY <1>1
<1>4. CASE RequestAt(sp.line) = {}
  <2>1. ProcessLine(sp) = [sp EXCEPT !.line = <<>>]
    BY <1>4 DEF ProcessLine, StartsRequest
  <2>2. /\ ProcessLine(sp) \in Splitters /\ ProcessLine(sp).line = <<>>
        /\ ProcessLine(sp).state = "wait_header"
    BY <1>3a, <2>1 DEF Splitters
  <2>3. NoRequest(s, n + 1)
    BY <1>1, <1>2, <1>4 DEF NoRequest
  <2>4. QED
    BY <1>3, <2>2, <2>3 DEF SplitterAt
<1>5. CASE RequestAt(sp.line) # {}
  <2> DEFINE name == IF 1 \in RequestAt(sp.line) THEN sp.line[1] ELSE Garbled
             next == [[sp EXCEPT !.state = "parse_header", !.length = 0, !.content = <<>>,
                                 !.request = name] EXCEPT !.line = <<>>]
  <2>1. ProcessLine(sp) = next
    BY <1>5 DEF ProcessLine, StartsRequest
  <2>2. sp.line # <<>> /\ DOMAIN sp.line = 1 .. Len(sp.line) /\ 1 \in DOMAIN sp.line
    <3>1. RequestAt(sp.line) \subseteq DOMAIN sp.line
      BY DEF RequestAt
    <3>2. QED
      BY <1>1, <1>5, <3>1
  <2>3. 1 \in RequestAt(sp.line) <=> sp.line[1] \in REQUEST_LINES
    BY <2>2 DEF RequestAt
  <2>4. name = RequestName(s, n + 1) /\ name \in REQUEST_LINES \cup {Garbled}
    BY <1>2, <2>2, <2>3 DEF RequestName
  <2> HIDE DEF name
  <2>5. /\ next \in Splitters /\ next.line = <<>> /\ next.state = "parse_header"
        /\ next.length = 0 /\ next.content = <<>> /\ next.request = name
    <3>1. name \in REQUEST_LINES \cup {Garbled}
      BY <2>4
    <3>2. QED
      BY <1>3a, <3>1 DEF Splitters
  <2>6. FirstRequest(s, n + 1) /\ InHeader(s, n + 1, n + 1)
    <3>1. (n + 1) - 1 = n
      OBVIOUS
    <3>2. QED
      BY <1>1, <1>2, <1>5, <3>1 DEF FirstRequest, InHeader
  <2>7. LengthIs(s, n + 1, n + 1, 0)
    BY DEF LengthIs, FieldsTo
  <2> HIDE DEF next
  <2>8. QED
    BY <1>3, <2>1, <2>4, <2>5, <2>6, <2>7 DEF SplitterAt
<1>6. QED
  BY <1>4, <1>5

(* A line that is not empty is a field of the header. *)
LEMMA FieldRead ==
  ASSUME NEW s \in Seq(OCTETS), NEW n \in Nat, n < Len(s), NEW sp, SplitterAt(s, n, sp),
         sp.state = "parse_header", s[n + 1] = LF, sp.line # <<>>
  PROVE  SplitterAt(s, n + 1, ProcessLine(sp)) /\ ProcessLine(sp).state # "read_content"
<1>1. /\ sp \in Splitters /\ sp.line \in Seq(OCTETS) /\ LineSoFar(s, n, sp.line) /\ sp.content = <<>>
  BY DEF SplitterAt, Splitters
<1>2. PICK r \in 1 .. n : /\ FirstRequest(s, r) /\ InHeader(s, r, n)
                          /\ sp.request = RequestName(s, r) /\ LengthIs(s, r, n, sp.length)
  BY DEF SplitterAt
<1>3. LineTo(s, n + 1) # {} /\ FirstOctet(s, n + 1) = sp.line[1]
  BY <1>1, LineRead
<1>4. LineSoFar(s, n + 1, <<>>)
  BY LineBegins
<1>5. InHeader(s, r, n + 1)
  BY <1>2, <1>3 DEF InHeader
<1>6. IsField(s, n + 1) <=> sp.line[1] \in LengthFields
  BY <1>3 DEF IsField
<1>7. CASE sp.line[1] \notin LengthFields
  <2>1. ProcessLine(sp) = [sp EXCEPT !.line = <<>>]
    BY <1>7 DEF ProcessLine, ReadsField
  <2>2. /\ ProcessLine(sp) \in Splitters /\ ProcessLine(sp).line = <<>>
        /\ ProcessLine(sp).state = "parse_header" /\ ProcessLine(sp).request = sp.request
        /\ ProcessLine(sp).content = <<>> /\ ProcessLine(sp).length = sp.length
    BY <1>1, <2>1 DEF Splitters
  <2>3. FieldsTo(s, r, n + 1) = FieldsTo(s, r, n)
    BY <1>6, <1>7 DEF FieldsTo
  <2>4. LengthIs(s, r, n + 1, sp.length)
    BY <1>2, <2>3 DEF LengthIs
  <2>5. r \in 1 .. n + 1
    OBVIOUS
  <2>6. QED
    BY <1>2, <1>4, <1>5, <2>2, <2>4, <2>5 DEF SplitterAt
<1>8. CASE sp.line[1] \in LengthFields
  <2> DEFINE length == CONTENT_LENGTH[sp.line[1]]
             next == [[sp EXCEPT !.length = length] EXCEPT !.line = <<>>]
  <2>1. ProcessLine(sp) = next
    BY <1>8 DEF ProcessLine, ReadsField
  <2>2. length \in Nat /\ length = CONTENT_LENGTH[FirstOctet(s, n + 1)]
    BY <1>3, <1>8, OctetsAssumption
  <2> HIDE DEF length
  <2>3. /\ next \in Splitters /\ next.line = <<>> /\ next.state = "parse_header"
        /\ next.length = length /\ next.content = <<>> /\ next.request = sp.request
    BY <1>1, <2>2 DEF Splitters
  <2>4. n + 1 \in FieldsTo(s, r, n + 1) /\ \A f \in FieldsTo(s, r, n + 1) : f <= n + 1
    BY <1>6, <1>8 DEF FieldsTo
  <2>5. LengthIs(s, r, n + 1, length)
    BY <2>2, <2>4 DEF LengthIs
  <2>6. r \in 1 .. n + 1
    OBVIOUS
  <2> HIDE DEF next
  <2>7. QED
    BY <1>2, <1>4, <1>5, <2>1, <2>3, <2>5, <2>6 DEF SplitterAt
<1>9. QED
  BY <1>7, <1>8

(* The empty line. *)
LEMMA HeaderRead ==
  ASSUME NEW s \in Seq(OCTETS), NEW n \in Nat, n < Len(s), NEW sp, SplitterAt(s, n, sp),
         sp.state = "parse_header", s[n + 1] = LF, sp.line = <<>>
  PROVE  /\ ProcessLine(sp) \in Splitters /\ ProcessLine(sp).state = "read_content"
         /\ ProcessLine(sp).content = <<>>
         /\ \E r \in 1 .. n : /\ HeaderIs(s, r, n + 1)
                              /\ ProcessLine(sp).request = RequestName(s, r)
                              /\ LengthIs(s, r, n + 1, ProcessLine(sp).length)
<1>1. /\ sp \in Splitters /\ LineSoFar(s, n, sp.line) /\ sp.content = <<>> /\ sp.line \in Seq(OCTETS)
  BY DEF SplitterAt, Splitters
<1>2. PICK r \in 1 .. n : /\ FirstRequest(s, r) /\ InHeader(s, r, n)
                          /\ sp.request = RequestName(s, r) /\ LengthIs(s, r, n, sp.length)
  BY DEF SplitterAt
<1>3. LineTo(s, n + 1) = {}
  BY <1>1, LineRead
<1>4. ProcessLine(sp) = [[sp EXCEPT !.state = "read_content"] EXCEPT !.line = <<>>]
  BY DEF ProcessLine, ReadsField
<1>5. /\ ProcessLine(sp) \in Splitters /\ ProcessLine(sp).state = "read_content"
      /\ ProcessLine(sp).content = <<>> /\ ProcessLine(sp).request = sp.request
      /\ ProcessLine(sp).length = sp.length
  BY <1>1, <1>4 DEF Splitters
<1>6. HeaderIs(s, r, n + 1)
  <2>1. (n + 1) - 1 = n
    OBVIOUS
  <2>2. QED
    BY <1>2, <1>3, <2>1 DEF HeaderIs
<1>7. FieldsTo(s, r, n + 1) = FieldsTo(s, r, n)
  BY <1>3 DEF FieldsTo, IsField
<1>8. LengthIs(s, r, n + 1, sp.length)
  BY <1>2, <1>7 DEF LengthIs
<1>9. QED
  BY <1>2, <1>5, <1>6, <1>8

(* An octet within a line changes nothing in the lines before. *)
LEMMA WithinLine ==
  ASSUME NEW s, NEW n \in Nat, s[n + 1] # LF
  PROVE  /\ NoRequest(s, n) => NoRequest(s, n + 1)
         /\ \A r \in 1 .. n : /\ InHeader(s, r, n) => InHeader(s, r, n + 1)
                              /\ FieldsTo(s, r, n + 1) = FieldsTo(s, r, n)
<1>1. NoRequest(s, n) => NoRequest(s, n + 1)
  BY DEF NoRequest
<1>2. ASSUME NEW r \in 1 .. n
      PROVE  /\ InHeader(s, r, n) => InHeader(s, r, n + 1)
             /\ FieldsTo(s, r, n + 1) = FieldsTo(s, r, n)
  <2>1. InHeader(s, r, n) => InHeader(s, r, n + 1)
    BY DEF InHeader
  <2>2. \A e : e \in FieldsTo(s, r, n + 1) <=> e \in FieldsTo(s, r, n)
    BY DEF FieldsTo
  <2>3. QED
    BY <2>1, <2>2
<1>3. QED
  BY <1>1, <1>2

(* push_char() of an octet within a line, ... *)
LEMMA InLinePushed ==
  ASSUME NEW s \in Seq(OCTETS), NEW n \in Nat, n < Len(s), NEW sp, SplitterAt(s, n, sp),
         sp.state # "read_content", s[n + 1] # LF
  PROVE  /\ Consumes(sp, s[n + 1]).state # "read_content"
         /\ SplitterAt(s, n + 1, Consumes(sp, s[n + 1]))
<1>1. /\ sp \in Splitters /\ sp.line \in Seq(OCTETS) /\ LineSoFar(s, n, sp.line)
      /\ s[n + 1] \in OCTETS
  BY DEF SplitterAt, Splitters
<1> DEFINE line == IF s[n + 1] = CR THEN sp.line ELSE Append(sp.line, s[n + 1])
           next == Consumes(sp, s[n + 1])
<1>2. LineSoFar(s, n + 1, line) /\ line \in Seq(OCTETS)
  BY <1>1, LineKeeps, LineGrows
<1>3. next = [sp EXCEPT !.line = line]
  <2>1. CASE s[n + 1] = CR
    BY <1>1, <2>1, OctetsAssumption DEF Consumes, Splitters
  <2>2. CASE s[n + 1] # CR
    BY <2>2 DEF Consumes
  <2>3. QED
    BY <2>1, <2>2
<1> HIDE DEF line, next
<1>4. /\ next \in Splitters /\ next.line = line /\ next.state = sp.state
      /\ next.request = sp.request /\ next.length = sp.length /\ next.content = sp.content
  BY <1>1, <1>2, <1>3 DEF Splitters
<1>5. sp.state = "wait_header" => NoRequest(s, n + 1)
  BY WithinLine DEF SplitterAt
<1>6. ASSUME sp.state = "parse_header"
      PROVE  /\ sp.content = <<>>
             /\ \E r \in 1 .. n + 1 : /\ FirstRequest(s, r) /\ InHeader(s, r, n + 1)
                                      /\ sp.request = RequestName(s, r)
                                      /\ LengthIs(s, r, n + 1, sp.length)
  <2>1. PICK r \in 1 .. n : /\ FirstRequest(s, r) /\ InHeader(s, r, n)
                            /\ sp.request = RequestName(s, r) /\ LengthIs(s, r, n, sp.length)
    BY <1>6 DEF SplitterAt
  <2>2. InHeader(s, r, n + 1) /\ FieldsTo(s, r, n + 1) = FieldsTo(s, r, n)
    BY <2>1, WithinLine
  <2>3. LengthIs(s, r, n + 1, sp.length)
    BY <2>1, <2>2 DEF LengthIs
  <2>4. r \in 1 .. n + 1
    OBVIOUS
  <2>5. QED
    BY <1>6, <2>1, <2>2, <2>3, <2>4 DEF SplitterAt
<1>7. SplitterAt(s, n + 1, next)
  BY <1>2, <1>4, <1>5, <1>6 DEF SplitterAt
<1>8. QED
  BY <1>4, <1>7 DEF next

(* ... of one of a body ... *)
LEMMA InBodyPushed ==
  ASSUME NEW s \in Seq(OCTETS), NEW n \in Nat, n < Len(s), NEW sp, SplitterAt(s, n, sp),
         sp.state = "read_content"
  PROVE  LET next == Consumes(sp, s[n + 1])
         IN  /\ next \in Splitters /\ next.state = "read_content" /\ Len(next.content) <= next.length
             /\ \E r, h \in 1 .. n : /\ HeaderIs(s, r, h)
                                     /\ next.request = RequestName(s, r)
                                     /\ LengthIs(s, r, h, next.length)
                                     /\ next.content = SubSeq(s, h + 1, n + 1)
                                     /\ Len(next.content) = n + 1 - h
<1> DEFINE content == Append(sp.content, s[n + 1])
           next == Consumes(sp, s[n + 1])
<1>1. /\ sp \in Splitters /\ sp.content \in Seq(OCTETS) /\ s[n + 1] \in OCTETS
      /\ sp.length \in Nat /\ Len(sp.content) \in Nat /\ Len(sp.content) < sp.length
  BY DEF SplitterAt, Splitters
<1>2. PICK r, h \in 1 .. n : /\ HeaderIs(s, r, h) /\ sp.request = RequestName(s, r)
                             /\ LengthIs(s, r, h, sp.length)
                             /\ sp.content = SubSeq(s, h + 1, n)
  BY DEF SplitterAt
<1>3. content \in Seq(OCTETS) /\ Len(content) = Len(sp.content) + 1
  BY <1>1, AppendProperties
<1>4. content = SubSeq(s, h + 1, n + 1)
  <2>1. h + 1 \in 1 .. Len(s) /\ n + 1 \in h + 1 .. Len(s) /\ (n + 1) - 1 = n
    BY LenProperties
  <2>2. SubSeq(s, h + 1, n + 1) = SubSeq(s, h + 1, n) \o <<s[n + 1]>>
    BY <2>1, SubSeqRecursiveSecond
  <2>3. QED
    BY <1>1, <1>2, <2>2, AppendIsConcat
<1>5. Len(content) = n + 1 - h
  <2>1. \A i \in h + 1 .. n + 1 : s[i] \in OCTETS
    BY LenProperties, ElementOfSeq
  <2>2. h + 1 \in Int /\ n + 1 \in Int /\ h + 1 <= n + 1 /\ (n + 1) - (h + 1) + 1 = n + 1 - h
    OBVIOUS
  <2>3. Len(SubSeq(s, h + 1, n + 1)) = (n + 1) - (h + 1) + 1
    BY <2>1, <2>2, SubSeqProperties
  <2>4. QED
    BY <1>4, <2>2, <2>3
<1>6. next = [sp EXCEPT !.content = content]
  BY DEF Consumes
<1> HIDE DEF content, next
<1>7. /\ next \in Splitters /\ next.state = "read_content" /\ next.content = content
      /\ next.request = sp.request /\ next.length = sp.length
  BY <1>1, <1>3, <1>6 DEF Splitters
<1>8. Len(next.content) <= next.length
  BY <1>1, <1>3, <1>7
<1>9. QED
  BY <1>2, <1>4, <1>5, <1>7, <1>8 DEF next

(* ... and of any: the splitter knows what it has read, and when a request is *)
(* complete it has the request.                                               *)
LEMMA OctetPushed ==
  ASSUME NEW s \in Seq(OCTETS), NEW n \in Nat, n < Len(s), NEW sp, SplitterAt(s, n, sp)
  PROVE  LET pushed == PushChar(sp, s[n + 1])
         IN  /\ ~pushed.ready => SplitterAt(s, n + 1, pushed.splitter)
             /\ pushed.ready => /\ Complete(s, n + 1, pushed.splitter)
                                /\ pushed.splitter \in Splitters
<1> DEFINE next == Consumes(sp, s[n + 1])
           ready == next.state = "read_content" /\ Len(next.content) >= next.length
           pushed == PushChar(sp, s[n + 1])
<1>1. /\ ~ready => pushed.splitter = next /\ ~pushed.ready
      /\ ready => pushed.splitter = [next EXCEPT !.state = "wait_header"] /\ pushed.ready
  BY DEF PushChar
<1>2. sp.state # "read_content" /\ s[n + 1] = LF => next = ProcessLine(sp)
  BY OctetsAssumption DEF Consumes
<1>3. /\ sp \in Splitters /\ sp.state \in {"wait_header", "parse_header", "read_content"}
      /\ 1 .. n \subseteq 1 .. n + 1 /\ n + 1 \in 1 .. n + 1
  BY DEF SplitterAt, Splitters
<1> HIDE DEF pushed
<1>4. ASSUME next.state # "read_content", SplitterAt(s, n + 1, next)
      PROVE  /\ ~pushed.ready => SplitterAt(s, n + 1, pushed.splitter)
             /\ ~pushed.ready
  BY <1>1, <1>4
<1>5. ASSUME next \in Splitters, next.state = "read_content", Len(next.content) <= next.length,
             \E r, h \in 1 .. n + 1 : /\ HeaderIs(s, r, h) /\ next.request = RequestName(s, r)
                                      /\ LengthIs(s, r, h, next.length)
                                      /\ next.content = SubSeq(s, h + 1, n + 1)
                                      /\ Len(next.content) = n + 1 - h
      PROVE  /\ ~pushed.ready => SplitterAt(s, n + 1, pushed.splitter)
             /\ pushed.ready => /\ Complete(s, n + 1, pushed.splitter)
                                /\ pushed.splitter \in Splitters
  <2>1. next.length \in Nat /\ Len(next.content) \in Nat
    BY <1>5 DEF Splitters
  <2>2. CASE ~ready
    <3>1. Len(next.content) < next.length
      BY <1>5, <2>1, <2>2
    <3> HIDE DEF next
    <3>2. SplitterAt(s, n + 1, next)
      BY <1>5, <3>1 DEF SplitterAt
    <3>3. QED
      BY <1>1, <2>2, <3>2
  <2>3. CASE ready
    <3>1. next.length = Len(next.content)
      BY <1>5, <2>1, <2>3
    <3>2. pushed.splitter = [next EXCEPT !.state = "wait_header"] /\ pushed.ready
      BY <1>1, <2>3
    <3> HIDE DEF next
    <3>3. /\ pushed.splitter \in Splitters /\ pushed.splitter.request = next.request
          /\ pushed.splitter.length = next.length /\ pushed.splitter.content = next.content
      BY <1>5, <3>2 DEF Splitters
    <3>4. Complete(s, n + 1, pushed.splitter)
      BY <1>5, <3>1, <3>3 DEF Complete
    <3>5. QED
      BY <3>2, <3>3, <3>4
  <2>4. QED
    BY <2>2, <2>3
<1>6. CASE sp.state # "read_content" /\ s[n + 1] # LF
  <2>1. next.state # "read_content" /\ SplitterAt(s, n + 1, next)
    BY <1>6, InLinePushed
  <2>2. QED
    BY <1>4, <2>1 DEF pushed
<1>7. CASE sp.state = "wait_header" /\ s[n + 1] = LF
  <2>1. next.state # "read_content" /\ SplitterAt(s, n + 1, next)
    BY <1>2, <1>7, RequestRead
  <2>2. QED
    BY <1>4, <2>1 DEF pushed
<1>8. CASE sp.state = "parse_header" /\ s[n + 1] = LF /\ sp.line # <<>>
  <2>1. next.state # "read_content" /\ SplitterAt(s, n + 1, next)
    BY <1>2, <1>8, FieldRead
  <2>2. QED
    BY <1>4, <2>1 DEF pushed
<1>9. CASE sp.state = "parse_header" /\ s[n + 1] = LF /\ sp.line = <<>>
  <2>1. next = ProcessLine(sp)
    BY <1>2, <1>9
  <2> HIDE DEF next
  <2>2. /\ next \in Splitters /\ next.state = "read_content" /\ next.content = <<>>
    BY <1>9, <2>1, HeaderRead
  <2>3. PICK r \in 1 .. n : /\ HeaderIs(s, r, n + 1) /\ next.request = RequestName(s, r)
                            /\ LengthIs(s, r, n + 1, next.length)
    BY <1>9, <2>1, HeaderRead
  <2>4. /\ SubSeq(s, (n + 1) + 1, n + 1) = <<>> /\ Len(next.content) = 0
        /\ n + 1 - (n + 1) = 0 /\ next.length \in Nat
    BY <2>2, SubSeqEmpty, EmptySeq DEF Splitters
  <2>5. \E q, h \in 1 .. n + 1 : /\ HeaderIs(s, q, h) /\ next.request = RequestName(s, q)
                                 /\ LengthIs(s, q, h, next.length)
                                 /\ next.content = SubSeq(s, h + 1, n + 1)
                                 /\ Len(next.content) = n + 1 - h
    <3>1. r \in 1 .. n + 1 /\ n + 1 \in 1 .. n + 1
      OBVIOUS
    <3>2. QED
      BY <2>2, <2>3, <2>4, <3>1
  <2>6. Len(next.content) <= next.length
    BY <2>4
  <2>7. QED
    BY <1>5, <2>2, <2>5, <2>6 DEF pushed
<1>10. CASE sp.state = "read_content"
  <2> HIDE DEF next
  <2>1. next \in Splitters /\ next.state = "read_content" /\ Len(next.content) <= next.length
    BY <1>10, InBodyPushed DEF next
  <2>2. PICK r, h \in 1 .. n : /\ HeaderIs(s, r, h)
                               /\ next.request = RequestName(s, r)
                               /\ LengthIs(s, r, h, next.length)
                               /\ next.content = SubSeq(s, h + 1, n + 1)
                               /\ Len(next.content) = n + 1 - h
    BY <1>10, InBodyPushed DEF next
  <2>3. r \in 1 .. n + 1 /\ h \in 1 .. n + 1
    OBVIOUS
  <2>4. QED
    BY <1>5, <2>1, <2>2, <2>3 DEF pushed
<1>11. QED
  BY <1>3, <1>6, <1>7, <1>8, <1>9, <1>10 DEF pushed
-----------------------------------------------------------------------------
(* A beginning of a stream has the lines of the stream. *)
LEMMA LinesOfPrefix ==
  ASSUME NEW s \in Seq(OCTETS), NEW m \in 1 .. Len(s), NEW e \in 1 .. m
  PROVE  LET t == SubSeq(s, 1, m)
         IN  /\ t \in Seq(OCTETS) /\ Len(t) = m /\ t[e] = s[e] /\ LineTo(t, e) = LineTo(s, e)
             /\ IsRequest(t, e) <=> IsRequest(s, e)
             /\ IsField(t, e) <=> IsField(s, e)
             /\ LineTo(s, e) # {} => FirstOctet(t, e) = FirstOctet(s, e)
<1> DEFINE t == SubSeq(s, 1, m)
<1>1. t \in Seq(OCTETS) /\ Len(t) = m /\ \A i \in 1 .. m : t[i] = s[i]
  <2>1. \A i \in 1 .. m : s[i] \in OCTETS
    BY LenProperties, ElementOfSeq
  <2>2. /\ t \in Seq(OCTETS) /\ Len(t) = IF 1 <= m THEN m - 1 + 1 ELSE 0
        /\ \A i \in 1 .. m - 1 + 1 : t[i] = s[1 + i - 1]
    BY <2>1, SubSeqProperties
  <2>3. Len(t) = m /\ \A i \in 1 .. m : i \in 1 .. m - 1 + 1 /\ 1 + i - 1 = i
    BY <2>2
  <2> HIDE DEF t
  <2>4. \A i \in 1 .. m : t[i] = s[i]
    BY <2>2, <2>3, Zenon
  <2>5. QED
    BY <2>2, <2>3, <2>4
<1> HIDE DEF t
<1>2. LineTo(t, e) = LineTo(s, e)
  <2>1. \A i : i \in LineTo(t, e) <=> i \in LineTo(s, e)
    BY <1>1 DEF LineTo
  <2>2. QED
    BY <2>1
<1>3. \A i \in LineTo(s, e) : t[i] = s[i]
  BY <1>1 DEF LineTo
<1>4. IsRequest(t, e) <=> IsRequest(s, e)
  BY <1>2, <1>3 DEF IsRequest
<1>5. ASSUME LineTo(s, e) # {}
      PROVE  FirstOctet(t, e) = FirstOctet(s, e)
  <2>1. LineTo(s, e) \in SUBSET Nat
    BY DEF LineTo
  <2>2. PICK i \in LineTo(s, e) : \A j \in LineTo(s, e) : i <= j
    BY <1>5, <2>1, LeastOf
  <2>3. Least(LineTo(s, e)) = i
    BY <2>1, <2>2, LeastIs
  <2>4. QED
    BY <1>2, <1>3, <2>3 DEF FirstOctet
<1>6. IsField(t, e) <=> IsField(s, e)
  BY <1>2, <1>5 DEF IsField
<1>7. QED
  BY <1>1, <1>2, <1>4, <1>5, <1>6 DEF t

(* What the splitter has is the request that the reference finds, with the    *)
(* octets read since or without them.                                         *)
LEMMA CompleteFound ==
  ASSUME NEW s \in Seq(OCTETS), NEW n \in Nat, NEW m \in n .. Len(s), NEW sp, Complete(s, n, sp)
  PROVE  LET t == SubSeq(s, 1, m)
         IN  HasRequest(t) /\ RequestOf(t).request = sp.request /\ RequestOf(t).content = sp.content
<1> DEFINE t == SubSeq(s, 1, m)
<1>1. PICK r, h \in 1 .. n : /\ HeaderIs(s, r, h) /\ sp.request = RequestName(s, r)
                             /\ LengthIs(s, r, h, sp.length) /\ sp.length = n - h
                             /\ sp.content = SubSeq(s, h + 1, n)
  BY DEF Complete
<1>2. Len(s) \in Nat /\ m \in 1 .. Len(s) /\ r \in 1 .. m /\ h \in 1 .. m /\ r < h /\ n \in 1 .. m
  BY <1>1, LenProperties DEF HeaderIs
<1>3. /\ t \in Seq(OCTETS) /\ Len(t) = m /\ DOMAIN t = 1 .. m
      /\ \A e \in 1 .. m : /\ t[e] = s[e] /\ LineTo(t, e) = LineTo(s, e)
                           /\ IsRequest(t, e) <=> IsRequest(s, e)
                           /\ IsField(t, e) <=> IsField(s, e)
                           /\ LineTo(s, e) # {} => FirstOctet(t, e) = FirstOctet(s, e)
  <2>1. t \in Seq(OCTETS) /\ Len(t) = m
    BY <1>2, LinesOfPrefix
  <2>2. QED
    BY <1>2, <2>1, LinesOfPrefix, LenProperties
<1> HIDE DEF t
<1>4. LineEnds(t) = {e \in 1 .. m : s[e] = LF}
  BY <1>3 DEF LineEnds
<1>5. /\ s[r] = LF /\ IsRequest(s, r) /\ \A e \in 1 .. r - 1 : s[e] = LF => ~IsRequest(s, e)
      /\ s[h] = LF /\ LineTo(s, h) = {}
      /\ \A e \in r + 1 .. h - 1 : s[e] = LF => LineTo(s, e) # {}
  BY <1>1 DEF HeaderIs, FirstRequest, NoRequest, InHeader
<1>6. r \in Requests(t) /\ Least(Requests(t)) = r
  <2>1. Requests(t) \in SUBSET Nat /\ r \in Requests(t)
    BY <1>2, <1>3, <1>4, <1>5 DEF Requests
  <2>2. ASSUME NEW u \in Requests(t) PROVE r <= u
    <3>1. u \in 1 .. m /\ s[u] = LF /\ IsRequest(s, u)
      BY <1>3, <1>4 DEF Requests
    <3>2. u \notin 1 .. r - 1
      BY <1>5, <3>1
    <3>3. QED
      BY <1>2, <3>1, <3>2
  <2>3. QED
    BY <2>1, <2>2, LeastIs
<1>7. h \in HeaderEnds(t) /\ Least(HeaderEnds(t)) = h
  <2>1. \A e : e \in HeaderEnds(t) <=> e \in 1 .. m /\ s[e] = LF /\ e > r /\ LineTo(s, e) = {}
    BY <1>3, <1>4, <1>6 DEF HeaderEnds
  <2>2. HeaderEnds(t) \in SUBSET Nat /\ h \in HeaderEnds(t)
    BY <1>2, <1>5, <2>1
  <2>3. ASSUME NEW u \in HeaderEnds(t) PROVE h <= u
    <3>1. u \in 1 .. m /\ s[u] = LF /\ u > r /\ LineTo(s, u) = {}
      BY <2>1
    <3>2. u \notin r + 1 .. h - 1
      BY <1>5, <3>1
    <3>3. QED
      BY <1>2, <3>1, <3>2
  <2>4. QED
    BY <2>2, <2>3, LeastIs
<1>8. Fields(t) = FieldsTo(s, r, h)
  <2>1. ~IsField(s, h)
    BY <1>5 DEF IsField
  <2>2. \A e : e \in Fields(t) <=> e \in 1 .. m /\ s[e] = LF /\ r < e /\ e < h /\ IsField(s, e)
    BY <1>3, <1>4, <1>6, <1>7 DEF Fields
  <2>3. \A e : e \in FieldsTo(s, r, h) <=> e \in r + 1 .. h /\ s[e] = LF /\ IsField(s, e)
    BY DEF FieldsTo
  <2>4. \A e : (e \in 1 .. m /\ r < e /\ e < h) <=> (e \in r + 1 .. h /\ e # h)
    BY <1>2
  <2>5. QED
    BY <2>1, <2>2, <2>3, <2>4
<1>9. BodyLength(t) = sp.length
  <2>1. CASE FieldsTo(s, r, h) = {}
    <3>1. sp.length = 0
      BY <1>1, <2>1 DEF LengthIs
    <3>2. QED
      BY <1>8, <2>1, <3>1 DEF BodyLength
  <2>2. CASE FieldsTo(s, r, h) # {}
    <3> DEFINE F == FieldsTo(s, r, h)
               last == CHOOSE e \in F : \A f \in F : f <= e
    <3>1. PICK e \in F : (\A f \in F : f <= e) /\ sp.length = CONTENT_LENGTH[FirstOctet(s, e)]
      BY <1>1, <2>2 DEF LengthIs
    <3>2. F \subseteq 1 .. m /\ \A f \in F : IsField(s, f)
      BY <1>2 DEF FieldsTo
    <3> HIDE DEF F
    <3>3. last \in F /\ \A f \in F : f <= last
      BY <3>1, Zenon
    <3> HIDE DEF last
    <3>4. last = e
      <4>1. last \in Int /\ e \in Int /\ last <= e /\ e <= last
        BY <3>1, <3>2, <3>3
      <4>2. QED
        BY <4>1
    <3>5. FirstOctet(t, e) = FirstOctet(s, e)
      BY <1>3, <3>1, <3>2 DEF IsField
    <3>6. BodyLength(t) = CONTENT_LENGTH[FirstOctet(t, last)]
      BY <1>8, <2>2 DEF BodyLength, F, last
    <3>7. QED
      BY <3>1, <3>4, <3>5, <3>6
  <2>3. QED
    BY <2>1, <2>2
<1>10. h + BodyLength(t) = n
  BY <1>1, <1>2, <1>9
<1>11. HasRequest(t)
  BY <1>2, <1>3, <1>7, <1>10 DEF HasRequest
<1>12. RequestOf(t).request = sp.request
  <2>1. FirstOctet(t, r) = FirstOctet(s, r)
    BY <1>2, <1>3, <1>5 DEF IsRequest
  <2>2. QED
    BY <1>1, <1>6, <2>1 DEF RequestOf, RequestName
<1>13. RequestOf(t).content = sp.content
  <2>1. RequestOf(t).content = SubSeq(t, h + 1, n)
    BY <1>7, <1>10 DEF RequestOf
  <2>2. CASE h = n
    BY <1>1, <1>2, <2>1, <2>2, SubSeqEmpty
  <2>3. CASE h # n
    <3>1. /\ 1 \in 1 .. Len(s) /\ h + 1 \in 1 .. m - 1 + 1 /\ n \in 1 .. m - 1 + 1
          /\ 1 + (h + 1) - 1 = h + 1 /\ 1 + n - 1 = n
      BY <1>2, <2>3
    <3>2. SubSeq(SubSeq(s, 1, m), h + 1, n) = SubSeq(s, 1 + (h + 1) - 1, 1 + n - 1)
      BY <1>2, <3>1, SubSeqOfSubSeq
    <3>3. QED
      BY <1>1, <2>1, <3>1, <3>2 DEF t
  <2>4. QED
    BY <2>2, <2>3
<1>14. QED
  BY <1>11, <1>12, <1>13 DEF t
-----------------------------------------------------------------------------

(* Until a request is complete the application was not called, and the        *)
(* splitter knows what it was given.                                          *)
SplitInv ==
    /\ script \in SCRIPTS /\ sent \in 0 .. Len(script) /\ taken \in 0 .. sent
    /\ chunk \in 0 .. sent - taken /\ splitter \in Splitters
    /\ (ses.reading \/ chunk > 0) => delivered = <<>> /\ SplitterAt(script, taken, splitter)
    /\ DeliveredAsSent

(* Steps that leave the splitter alone. *)
LEMMA SplitKept ==
  ASSUME SplitInv, UNCHANGED <<script, taken, splitter, delivered>>,
         sent' \in sent .. Len(script), chunk' \in 0 .. sent' - taken,
         ses'.reading \/ chunk' > 0 => ses.reading \/ chunk > 0
  PROVE  SplitInv'
<1>1. Len(script) \in Nat
  BY ScriptsAssumption DEF SplitInv
<1>2. DeliveredAsSent'
  BY DEF SplitInv, DeliveredAsSent
<1>3. script' \in SCRIPTS /\ sent' \in 0 .. Len(script') /\ taken' \in 0 .. sent'
      /\ chunk' \in 0 .. sent' - taken' /\ splitter' \in Splitters
  <2>1. sent \in 0 .. Len(script) /\ taken \in 0 .. sent /\ script \in SCRIPTS /\ splitter \in Splitters
    BY DEF SplitInv
  <2>2. sent' \in 0 .. Len(script) /\ taken \in 0 .. sent'
    BY <1>1, <2>1
  <2>3. QED
    BY <2>1, <2>2
<1>4. ses'.reading \/ chunk' > 0 => delivered' = <<>> /\ SplitterAt(script', taken', splitter')
  BY DEF SplitInv
<1>5. QED
  BY <1>2, <1>3, <1>4 DEF SplitInv

(* push() of one octet keeps what the splitter has understood. *)
LEMMA SplitPushes ==
  ASSUME IInv, SplitInv, PushOctet
  PROVE  SplitInv'
<1> DEFINE pushed == PushChar(splitter, script[taken + 1])
<1>1. /\ chunk > 0 /\ ~pushed.ready /\ splitter' = pushed.splitter
      /\ taken' = taken + 1 /\ chunk' = chunk - 1
      /\ UNCHANGED <<script, sent, delivered>>
  BY DEF PushOctet, clientVars
<1>2. /\ script \in Seq(OCTETS) /\ taken \in Nat /\ taken < Len(script)
      /\ delivered = <<>> /\ SplitterAt(script, taken, splitter)
  BY <1>1, ScriptsAssumption DEF SplitInv
<1> HIDE DEF pushed
<1>3. SplitterAt(script', taken', splitter')
  BY <1>1, <1>2, OctetPushed DEF pushed
<1>4. splitter' \in Splitters
  BY <1>3 DEF SplitterAt
<1>5. DeliveredAsSent'
  BY <1>1, <1>2 DEF DeliveredAsSent
<1>6. script' \in SCRIPTS /\ sent' \in 0 .. Len(script') /\ taken' \in 0 .. sent'
      /\ chunk' \in 0 .. sent' - taken'
  BY <1>1 DEF SplitInv
<1>7. QED
  BY <1>1, <1>2, <1>3, <1>4, <1>5, <1>6 DEF SplitInv

(* The request that completes is the first one of what was read.              *)
LEMMA SplitDelivers ==
  ASSUME IInv, SplitInv, PushLastOctet
  PROVE  SplitInv'
<1> DEFINE pushed == PushChar(splitter, script[taken + 1])
<1>1. /\ chunk > 0 /\ pushed.ready /\ taken' = taken + chunk /\ chunk' = 0
      /\ splitter' \in {pushed.splitter, NewSplitter}
      /\ UNCHANGED <<script, sent>>
  BY DEF PushLastOctet, clientVars
<1>2. PICK act \in ACTS : delivered' = delivered \o Delivery(pushed.splitter, act)
  BY DEF PushLastOctet
<1>3. /\ script \in Seq(OCTETS) /\ taken \in Nat /\ taken < Len(script)
      /\ taken + chunk \in taken + 1 .. Len(script) /\ taken + 1 \in Nat
      /\ delivered = <<>> /\ SplitterAt(script, taken, splitter)
  BY <1>1, ScriptsAssumption DEF SplitInv
<1> HIDE DEF pushed
<1>4. Complete(script, taken + 1, pushed.splitter) /\ pushed.splitter \in Splitters
  BY <1>1, <1>3, OctetPushed DEF pushed
<1>5. LET t == SubSeq(script, 1, taken + chunk)
      IN  /\ HasRequest(t) /\ RequestOf(t).request = pushed.splitter.request
          /\ RequestOf(t).content = pushed.splitter.content
  BY <1>3, <1>4, CompleteFound
<1>6. delivered' = Delivery(pushed.splitter, act)
  <2>1. \A call : <<>> \o <<call>> = <<call>> /\ <<>> \o <<>> = <<>>
    <3> TAKE call
    <3>1. <<call>> \in Seq({call}) /\ <<>> \in Seq({call})
      OBVIOUS
    <3>2. QED
      BY <3>1, ConcatEmptySeq
  <2>2. QED
    BY <1>2, <1>3, <2>1 DEF Delivery
<1>7. DeliveredAsSent'
  <2>1. CASE delivered' = <<>>
    BY <2>1 DEF DeliveredAsSent
  <2>2. CASE delivered' # <<>>
    <3>1. /\ Len(delivered') = 1 /\ delivered'[1].request = pushed.splitter.request
          /\ delivered'[1].content = pushed.splitter.content
      BY <1>6, <2>2 DEF Delivery
    <3>2. SubSeq(script', 1, taken') = SubSeq(script, 1, taken + chunk)
      BY <1>1
    <3>3. QED
      BY <1>5, <3>1, <3>2 DEF DeliveredAsSent
  <2>3. QED
    BY <2>1, <2>2
<1>8. ~ses'.reading
  BY RequestStep DEF Answered
<1>9. NewSplitter \in Splitters
  <2>1. <<>> \in Seq(OCTETS)
    BY EmptySeq
  <2>2. QED
    BY <2>1 DEF NewSplitter, Splitters
<1>10. script' \in SCRIPTS /\ sent' \in 0 .. Len(script') /\ taken' \in 0 .. sent'
       /\ chunk' \in 0 .. sent' - taken'
  BY <1>1 DEF SplitInv
<1>11. QED
  BY <1>1, <1>4, <1>7, <1>8, <1>9, <1>10 DEF SplitInv

(* A new splitter has seen nothing. *)
LEMMA InitSplit == Init => SplitInv
<1> SUFFICES ASSUME Init PROVE SplitInv
  OBVIOUS
<1>1. /\ script \in SCRIPTS /\ sent = 0 /\ taken = 0 /\ chunk = 0 /\ delivered = <<>>
      /\ splitter = NewSplitter /\ Len(script) \in Nat
  BY ScriptsAssumption DEF Init
<1>2. NewSplitter \in Splitters
  <2>1. <<>> \in Seq(OCTETS)
    BY EmptySeq
  <2>2. QED
    BY <2>1 DEF NewSplitter, Splitters
<1>3. SplitterAt(script, 0, NewSplitter)
  <2>1. LineSoFar(script, 0, <<>>)
    BY LineBegins
  <2>2. NewSplitter.state = "wait_header" /\ NewSplitter.line = <<>> /\ NoRequest(script, 0)
    BY DEF NewSplitter, NoRequest
  <2>3. QED
    BY <1>2, <2>1, <2>2 DEF SplitterAt
<1>4. QED
  BY <1>1, <1>2, <1>3 DEF SplitInv, DeliveredAsSent

(* What fits in a buffer still fits when the end has moved on. *)
LEMMA MoreRoom ==
  ASSUME NEW length \in Nat, NEW a \in 0 .. length, NEW b \in a .. length, NEW c \in 0 .. a,
         NEW d \in 0 .. a - c
  PROVE  d \in 0 .. b - c
OBVIOUS

(* No other step touches what the splitter has read. *)
LEMMA NextSplit == IInv /\ SplitInv /\ [Next]_vars => SplitInv'
<1> SUFFICES ASSUME IInv, SplitInv, [Next]_vars PROVE SplitInv'
  OBVIOUS
<1>1. /\ sent \in 0 .. Len(script) /\ Len(script) \in Nat /\ taken \in 0 .. sent
      /\ chunk \in 0 .. sent - taken /\ ses \in Sessions
  BY ScriptsAssumption DEF SplitInv, IInv, SessionTypeOK
<1>2. CASE ClientSends \/ ClientLeaves \/ Gone \/ UNCHANGED vars
  <2>1. UNCHANGED <<script, taken, chunk, splitter, ses, delivered>> /\ sent' \in sent .. Len(script)
    BY <1>1, <1>2 DEF ClientSends, ClientLeaves, Gone, vars
  <2>2. chunk' = chunk /\ ses' = ses
    BY <2>1
  <2>3. chunk \in 0 .. sent' - taken
    BY <1>1, <2>1, MoreRoom, Zenon
  <2>4. QED
    BY <2>1, <2>2, <2>3, SplitKept
<1>3. CASE \E n \in 1 .. Len(script) : HandleRead(n)
  BY <1>1, <1>3, SplitKept DEF HandleRead, clientVars
<1>4. CASE PushOctet
  BY <1>4, SplitPushes
<1>5. CASE PushLastOctet
  BY <1>5, SplitDelivers
<1>6. CASE HandleWrite
  <2>1. ses.writing /\ ~ses.reading /\ chunk = 0
    BY <1>1, <1>6 DEF HandleWrite, IInv, TurnInv
  <2>2. ~ses'.reading
    <3> DEFINE done == [ses EXCEPT !.writing = FALSE, !.required = 0, !.cursor = Advanced(ses)]
    <3>1. ~done.reading /\ DOMAIN done = DOMAIN ses
      BY <1>1, <2>1 DEF Sessions
    <3>2. ses' = IF done.cursor < Len(done.buffer) THEN SendPackage(done) ELSE OnAfterSend(done)
      BY <1>6 DEF HandleWrite
    <3> HIDE DEF done
    <3>3. DOMAIN done = {"reading", "writing", "required", "sending", "buffer", "cursor", "closed"}
      BY <1>1, <3>1 DEF Sessions
    <3>4. SendPackage(done).reading = done.reading /\ CloseSession(done).reading = done.reading
      BY <3>3 DEF SendPackage, CloseSession
    <3>5. QED
      BY <3>1, <3>2, <3>4 DEF OnAfterSend
  <2>3. UNCHANGED <<script, sent, taken, chunk, splitter, delivered>>
    BY <1>6 DEF HandleWrite, clientVars
  <2>4. QED
    BY <1>1, <2>1, <2>2, <2>3, SplitKept
<1>7. CASE ReadFails \/ WriteFails \/ HandleClosed \/ ServerCloses
  <2>1. UNCHANGED <<script, sent, taken, chunk, splitter, delivered>>
    BY <1>7 DEF ReadFails, WriteFails, HandleClosed, ServerCloses, clientVars
  <2>2. ses'.reading => ses.reading
    BY <1>1, <1>7 DEF ReadFails, WriteFails, HandleClosed, ServerCloses, CloseSession, Sessions
  <2>3. QED
    BY <1>1, <2>1, <2>2, SplitKept
<1>8. QED
  BY <1>2, <1>3, <1>4, <1>5, <1>6, <1>7 DEF Next, Handlers

(* The splitter is in every state where the text read so far puts it. *)
LEMMA AlwaysSplitInv == Spec => []SplitInv
BY InitSplit, NextSplit, AlwaysIInv, PTL DEF Spec

(* What on_read_socket() gives the application is the first request of what   *)
(* the client has sent, its method and exactly its body: push_char() agrees   *)
(* with a reading of the whole stream that knows nothing of states, for every *)
(* stream, every cut into reads, and any junk before the request.             *)
THEOREM RequestsDeliveredAsSent == Spec => []DeliveredAsSent
<1>1. SplitInv => DeliveredAsSent
  BY DEF SplitInv
<1>2. QED
  BY <1>1, AlwaysSplitInv, PTL

(* The type invariant, with the place of the first request. *)
DueInv == due \in Nat /\ left \in BOOLEAN

(* The end of the request is a position, or zero when there is none. *)
LEMMA CompleteAtIsNat ==
  ASSUME NEW s \in Seq(OCTETS)
  PROVE  CompleteAt(s) \in Nat
<1> DEFINE T == {n \in 1 .. Len(s) : HasRequest(SubSeq(s, 1, n))}
<1>1. Len(s) \in Nat /\ SubSeq(s, 1, Len(s)) = s
  BY SubSeqFull
<1>2. CASE HasRequest(s) /\ Handled(RequestOf(s).request)
  <2>1. Len(s) # 0
    BY <1>1, <1>2 DEF HasRequest, HeaderEnds, LineEnds
  <2>2. Len(s) \in T /\ T \in SUBSET Nat
    <3>1. HasRequest(SubSeq(s, 1, Len(s)))
      BY <1>1, <1>2
    <3>2. Len(s) \in 1 .. Len(s)
      BY <1>1, <2>1
    <3>3. QED
      BY <3>1, <3>2
  <2>3. CompleteAt(s) = Least(T)
    BY <1>2 DEF CompleteAt
  <2> HIDE DEF T
  <2>4. PICK n \in T : \A k \in T : n <= k
    BY <2>2, LeastOf
  <2>5. Least(T) = n
    BY <2>2, <2>4, LeastIs
  <2>6. QED
    BY <2>2, <2>3, <2>4, <2>5
<1>3. CASE ~(HasRequest(s) /\ Handled(RequestOf(s).request))
  BY <1>1, <1>3 DEF CompleteAt
<1>4. QED
  BY <1>2, <1>3

(* Every variable of a session and its client keeps to its set.               *)
THEOREM HttpTypes == Spec => []HttpTypeOK
<1>1. Init => DueInv
  BY ScriptsAssumption, CompleteAtIsNat DEF Init, DueInv
<1>2. DueInv /\ [Next]_vars => DueInv'
  BY DEF DueInv, Next, vars, clientVars, ClientSends, ClientLeaves, Handlers, HandleRead,
     PushOctet, PushLastOctet, ReadFails, HandleWrite, WriteFails, HandleClosed, ServerCloses, Gone
<1>3. IInv /\ SplitInv /\ DueInv => HttpTypeOK
  BY DEF IInv, SessionTypeOK, SplitInv, DueInv, HttpTypeOK
<1>4. QED
  BY <1>1, <1>2, <1>3, AlwaysIInv, AlwaysSplitInv, PTL DEF Spec

-----------------------------------------------------------------------------
(*                                The client                               *)

Blocks == {"text", "nul"}

ClientRequests == [kind : KINDS, of : SERVED, go : BOOLEAN, data : Seq(Blocks),
             delivered : Nat, code : Nat]

(* A request has so far what its own answer begins with. *)
Consistent(r) ==
    /\ r.delivered <= Len(r.of.blocks)
    /\ r.code \in {0, r.of.code}
    /\ r.kind # "file" => r.data = SubSeq(r.of.blocks, 1, r.delivered)

ReqInv == request = <<>> \/ \E r \in ClientRequests : request = <<r>> /\ Consistent(r)

(* The flag, once up, stays up until the request has ended: nothing goes on. *)
StopInv ==
    request # <<>> /\ begun_stopped =>
        curl_stop_flag /\ ~request[1].go /\ request[1].code = 0 /\ request[1].delivered = 0

(* What is kept is the start of the answer, up to where a C string ends. *)
IsKept(kept, r) ==
    /\ Len(kept) <= r.delivered
    /\ kept = SubSeq(r.of.blocks, 1, Len(kept))
    /\ ~Contains(kept, "nul")
    /\ Len(kept) < r.delivered => r.of.blocks[Len(kept) + 1] = "nul"

AnswerInv ==
    /\ answered # <<>> => IsKept(received_data, answered[1])
    /\ served # <<>> => last_response_http_code \in {0, served[1].of.code}

ClientIInv == ReqInv /\ StopInv /\ AnswerInv
-----------------------------------------------------------------------------
(* A C string ends before the first block that ends one. *)
LEMMA CStringIsKept ==
  ASSUME NEW s \in Seq(Blocks)
  PROVE  /\ CString(s) \in Seq(Blocks) /\ Len(CString(s)) <= Len(s)
         /\ CString(s) = SubSeq(s, 1, Len(CString(s)))
         /\ ~Contains(CString(s), "nul")
         /\ Len(CString(s)) < Len(s) => s[Len(CString(s)) + 1] = "nul"
<1> DEFINE ends == {i \in DOMAIN s : s[i] = "nul"}
<1>1. Len(s) \in Nat /\ DOMAIN s = 1 .. Len(s) /\ \A i \in 1 .. Len(s) : s[i] \in Blocks
  BY LenProperties, ElementOfSeq
<1>2. CASE ends = {}
  <2>1. CString(s) = s
    BY <1>2 DEF CString
  <2>2. SubSeq(s, 1, Len(s)) = s
    BY SubSeqFull
  <2>3. QED
    BY <1>1, <1>2, <2>1, <2>2 DEF Contains
<1>3. CASE ends # {}
  <2> DEFINE least == CHOOSE i \in ends : \A j \in ends : i <= j
  <2>1. least \in ends /\ \A j \in ends : least <= j
    <3>1. ends \in SUBSET Nat
      BY <1>1
    <3>2. \E i \in ends : \A j \in ends : i <= j
      BY <1>3, <3>1, LeastOf
    <3>3. QED
      BY <3>2
  <2>2. CString(s) = SubSeq(s, 1, least - 1)
    BY <1>3 DEF CString
  <2>3. least \in 1 .. Len(s) /\ s[least] = "nul"
    BY <1>1, <2>1
  <2>4. \A j \in 1 .. least - 1 : s[j] # "nul"
    <3> TAKE j \in 1 .. least - 1
    <3>1. j \in DOMAIN s /\ ~(least <= j)
      BY <1>1, <2>3
    <3>2. QED
      BY <2>1, <3>1
  <2> HIDE DEF least, ends
  <2>5. /\ SubSeq(s, 1, least - 1) \in Seq(Blocks)
        /\ Len(SubSeq(s, 1, least - 1)) = least - 1
        /\ \A i \in 1 .. least - 1 : SubSeq(s, 1, least - 1)[i] = s[i]
    <3>1. 1 \in Int /\ least - 1 \in Int /\ \A i \in 1 .. least - 1 : s[i] \in Blocks
      BY <1>1, <2>3
    <3>2. /\ SubSeq(s, 1, least - 1) \in Seq(Blocks)
          /\ Len(SubSeq(s, 1, least - 1)) = IF 1 <= least - 1 THEN (least - 1) - 1 + 1 ELSE 0
          /\ \A i \in 1 .. (least - 1) - 1 + 1 : SubSeq(s, 1, least - 1)[i] = s[1 + i - 1]
      BY <3>1, SubSeqProperties
    <3>3. (least - 1) - 1 + 1 = least - 1 /\ \A i \in 1 .. least - 1 : 1 + i - 1 = i
      BY <2>3
    <3>4. Len(SubSeq(s, 1, least - 1)) = least - 1
      BY <2>3, <3>2
    <3>5. QED
      BY <3>2, <3>3, <3>4
  <2>6. ~Contains(CString(s), "nul")
    BY <2>2, <2>4, <2>5 DEF Contains
  <2>7. Len(CString(s)) <= Len(s) /\ Len(CString(s)) + 1 = least
    BY <1>1, <2>2, <2>3, <2>5
  <2>8. QED
    BY <2>2, <2>3, <2>5, <2>6, <2>7
<1>4. QED
  BY <1>2, <1>3

(* The start of a start. *)
LEMMA StartOfStart ==
  ASSUME NEW s \in Seq(Blocks), NEW d \in Nat, d <= Len(s)
  PROVE  /\ SubSeq(s, 1, d) \in Seq(Blocks) /\ Len(SubSeq(s, 1, d)) = d
         /\ \A i \in 1 .. d : SubSeq(s, 1, d)[i] = s[i]
<1>1. Len(s) \in Nat /\ DOMAIN s = 1 .. Len(s) /\ \A i \in 1 .. Len(s) : s[i] \in Blocks
  BY LenProperties, ElementOfSeq
<1>2. 1 \in Int /\ d \in Int /\ \A i \in 1 .. d : s[i] \in Blocks
  BY <1>1
<1>3. /\ SubSeq(s, 1, d) \in Seq(Blocks)
      /\ Len(SubSeq(s, 1, d)) = IF 1 <= d THEN d - 1 + 1 ELSE 0
      /\ \A i \in 1 .. d - 1 + 1 : SubSeq(s, 1, d)[i] = s[1 + i - 1]
  BY <1>2, SubSeqProperties
<1>4. d - 1 + 1 = d /\ \A i \in 1 .. d : 1 + i - 1 = i
  OBVIOUS
<1>5. Len(SubSeq(s, 1, d)) = d
  BY <1>3
<1>6. QED
  BY <1>3, <1>4, <1>5
-----------------------------------------------------------------------------
(* Every request is new. *)
LEMMA BeginStep ==
  ASSUME ClientIInv, NEW kind \in KINDS, NEW of \in SERVED, BeginRequest(kind, of)
  PROVE  ClientIInv'
<1> DEFINE r == [kind |-> kind, of |-> of, go |-> FALSE, data |-> <<>>, delivered |-> 0, code |-> 0]
<1>1. of.blocks \in Seq(Blocks) /\ of.code \in Nat
  BY ClientAssumption DEF Blocks
<1>2. /\ request' = <<r>> /\ begun_stopped' = curl_stop_flag
      /\ UNCHANGED <<received_data, last_response_http_code, curl_stop_flag, served, answered>>
  BY DEF BeginRequest, SameObject
<1>3. r \in ClientRequests
  <2>1. <<>> \in Seq(Blocks)
    BY EmptySeq
  <2>2. QED
    BY <2>1 DEF ClientRequests
<1>4. Consistent(r)
  <2>1. SubSeq(of.blocks, 1, 0) = <<>> /\ Len(of.blocks) \in Nat
    BY <1>1, SubSeqEmpty, LenProperties
  <2>2. QED
    BY <2>1 DEF Consistent
<1>5. ReqInv' /\ StopInv'
  BY <1>2, <1>3, <1>4 DEF ReqInv, StopInv
<1>6. AnswerInv'
  BY <1>2 DEF ClientIInv, AnswerInv
<1>7. QED
  BY <1>5, <1>6 DEF ClientIInv

(* A transfer is let go on, or not: not while the flag is up. *)
LEMMA ProgressStep ==
  ASSUME ClientIInv, Progress
  PROVE  ClientIInv'
<1>1. PICK r \in ClientRequests : request = <<r>> /\ Consistent(r)
  BY DEF Progress, ClientIInv, ReqInv
<1>2. PICK timeout \in BOOLEAN : request' = <<[request[1] EXCEPT !.go = ~(NeedStop \/ timeout)]>>
  BY DEF Progress
<1> DEFINE n == [r EXCEPT !.go = ~(NeedStop \/ timeout)]
<1>3. /\ request' = <<n>> /\ n \in ClientRequests /\ Consistent(n)
      /\ n.code = r.code /\ n.delivered = r.delivered /\ (curl_stop_flag => ~n.go)
  BY <1>1, <1>2 DEF ClientRequests, Consistent, NeedStop
<1>4. UNCHANGED <<received_data, last_response_http_code, curl_stop_flag, begun_stopped, served, answered>>
  BY DEF Progress, SameObject, SameHistory
<1> HIDE DEF n
<1>5. ReqInv'
  BY <1>3 DEF ReqInv
<1>6. StopInv'
  BY <1>1, <1>3, <1>4 DEF ClientIInv, StopInv
<1>7. AnswerInv'
  BY <1>4 DEF ClientIInv, AnswerInv
<1>8. QED
  BY <1>5, <1>6, <1>7 DEF ClientIInv

(* The status line: only of a transfer that was let go on. *)
LEMMA RespondStep ==
  ASSUME ClientIInv, Respond
  PROVE  ClientIInv'
<1>1. PICK r \in ClientRequests : request = <<r>> /\ Consistent(r)
  BY DEF Respond, ClientIInv, ReqInv
<1> DEFINE n == [r EXCEPT !.code = r.of.code]
<1>2. request' = <<n>> /\ r.go
  BY <1>1 DEF Respond
<1>3. n \in ClientRequests /\ Consistent(n)
  <2>1. r.of.code \in Nat
    BY ClientAssumption DEF ClientRequests
  <2>2. QED
    BY <1>1, <2>1 DEF ClientRequests, Consistent
<1>4. UNCHANGED <<received_data, last_response_http_code, curl_stop_flag, begun_stopped, served, answered>>
  BY DEF Respond, SameObject, SameHistory
<1> HIDE DEF n
<1>5. ReqInv'
  BY <1>2, <1>3 DEF ReqInv
<1>6. ~begun_stopped
  BY <1>1, <1>2 DEF ClientIInv, StopInv
<1>7. StopInv' /\ AnswerInv'
  BY <1>4, <1>6 DEF ClientIInv, StopInv, AnswerInv
<1>8. QED
  BY <1>5, <1>7 DEF ClientIInv

(* write_callback(): the next block goes behind those before it. *)
LEMMA ClientWriteStep ==
  ASSUME ClientIInv, WriteCallback
  PROVE  ClientIInv'
<1>1. PICK r \in ClientRequests : request = <<r>> /\ Consistent(r)
  BY DEF WriteCallback, ClientIInv, ReqInv
<1> DEFINE d == r.delivered + 1
           data == IF r.kind = "file" THEN r.data ELSE Append(r.data, r.of.blocks[d])
           n == [r EXCEPT !.delivered = d, !.data = data]
<1>2. request' = <<n>> /\ r.go /\ r.delivered < Len(r.of.blocks)
  BY <1>1 DEF WriteCallback
<1>3. /\ r.of.blocks \in Seq(Blocks) /\ r.delivered \in Nat /\ d \in Nat /\ d <= Len(r.of.blocks)
      /\ Len(r.of.blocks) \in Nat /\ r.of.blocks[d] \in Blocks
  <2>1. r.of.blocks \in Seq(Blocks) /\ r.delivered \in Nat
    BY ClientAssumption DEF ClientRequests, Blocks
  <2>2. Len(r.of.blocks) \in Nat
    BY <2>1, LenProperties
  <2>3. d \in 1 .. Len(r.of.blocks)
    BY <1>2, <2>1, <2>2
  <2>4. QED
    BY <2>1, <2>2, <2>3, ElementOfSeq
<1>4. r.kind # "file" => Append(r.data, r.of.blocks[d]) = SubSeq(r.of.blocks, 1, d)
  <2> SUFFICES ASSUME r.kind # "file"
               PROVE  Append(r.data, r.of.blocks[d]) = SubSeq(r.of.blocks, 1, d)
    OBVIOUS
  <2>1. r.data = SubSeq(r.of.blocks, 1, r.delivered)
    BY <1>1 DEF Consistent
  <2>2. 1 \in Int /\ d - 1 = r.delivered
    BY <1>3
  <2>3. 1 \in 1 .. Len(r.of.blocks) /\ d \in 1 .. Len(r.of.blocks)
    BY <1>3
  <2> HIDE DEF d
  <2>4. SubSeq(r.of.blocks, 1, d) = SubSeq(r.of.blocks, 1, d - 1) \o <<r.of.blocks[d]>>
    BY <1>3, <2>3, SubSeqRecursiveSecond
  <2>5. Append(r.data, r.of.blocks[d]) = r.data \o <<r.of.blocks[d]>>
    <3>1. r.data \in Seq(Blocks)
      BY DEF ClientRequests
    <3>2. QED
      BY <1>3, <3>1, AppendIsConcat
  <2>6. QED
    BY <2>1, <2>2, <2>4, <2>5
<1>5. r.data \in Seq(Blocks) /\ data \in Seq(Blocks)
  <2>1. r.data \in Seq(Blocks)
    BY DEF ClientRequests
  <2>2. QED
    BY <1>3, <2>1, AppendProperties
<1> HIDE DEF d, data
<1>6. n \in ClientRequests
  BY <1>3, <1>5 DEF ClientRequests
<1>7. n.delivered = d /\ n.of = r.of /\ n.code = r.code /\ n.kind = r.kind /\ n.data = data
  BY <1>6 DEF ClientRequests
<1> HIDE DEF n
<1>8. Consistent(n)
  BY <1>1, <1>3, <1>4, <1>7 DEF Consistent, data
<1>9. UNCHANGED <<received_data, last_response_http_code, curl_stop_flag, begun_stopped, served, answered>>
  BY DEF WriteCallback, SameObject, SameHistory
<1>10. ReqInv'
  BY <1>2, <1>6, <1>8 DEF ReqInv
<1>11. ~begun_stopped
  BY <1>1, <1>2 DEF ClientIInv, StopInv
<1>12. StopInv' /\ AnswerInv'
  BY <1>9, <1>11 DEF ClientIInv, StopInv, AnswerInv
<1>13. QED
  BY <1>10, <1>12 DEF ClientIInv

(* The answer is kept, however much of it came. *)
LEMMA EndStep ==
  ASSUME ClientIInv, EndRequest
  PROVE  ClientIInv'
<1>1. PICK r \in ClientRequests : request = <<r>> /\ Consistent(r)
  BY DEF EndRequest, ClientIInv, ReqInv
<1>2. /\ received_data' = KeptData(r.kind, r.data) /\ last_response_http_code' = r.code
      /\ answered' = IF r.kind = "file" THEN answered ELSE <<r>>
      /\ request' = <<>> /\ served' = <<r>>
  BY <1>1 DEF EndRequest
<1>3. ReqInv' /\ StopInv'
  BY <1>2 DEF ReqInv, StopInv
<1>4. last_response_http_code' \in {0, served'[1].of.code}
  BY <1>1, <1>2 DEF Consistent
<1>5. CASE r.kind = "file"
  <2>1. UNCHANGED <<received_data, answered>>
    BY <1>2, <1>5 DEF KeptData
  <2>2. AnswerInv'
    BY <1>4, <2>1 DEF ClientIInv, AnswerInv, IsKept
  <2>3. QED
    BY <1>3, <2>2 DEF ClientIInv
<1>6. CASE r.kind # "file"
  <2>1. received_data' = CString(r.data) /\ answered'[1] = r
    BY <1>2, <1>6 DEF KeptData
  <2>2. r.of.blocks \in Seq(Blocks) /\ r.delivered \in Nat /\ r.delivered <= Len(r.of.blocks)
    BY <1>1, ClientAssumption DEF ClientRequests, Blocks, Consistent
  <2>3. /\ r.data \in Seq(Blocks) /\ Len(r.data) = r.delivered
        /\ \A i \in 1 .. r.delivered : r.data[i] = r.of.blocks[i]
    <3>1. r.data = SubSeq(r.of.blocks, 1, r.delivered)
      BY <1>1, <1>6 DEF Consistent
    <3>2. QED
      BY <2>2, <3>1, StartOfStart
  <2> DEFINE kept == CString(r.data)
  <2>4. /\ kept \in Seq(Blocks) /\ Len(kept) <= r.delivered /\ Len(kept) \in Nat
        /\ kept = SubSeq(r.data, 1, Len(kept)) /\ ~Contains(kept, "nul")
        /\ Len(kept) < r.delivered => r.data[Len(kept) + 1] = "nul"
    BY <2>3, CStringIsKept, LenProperties
  <2> HIDE DEF kept
  <2>5. kept = SubSeq(r.of.blocks, 1, Len(kept))
    <3> DEFINE k == Len(kept)
    <3>1. k \in Nat /\ k <= Len(r.data) /\ k <= Len(r.of.blocks)
      BY <2>2, <2>3, <2>4, LenProperties
    <3>2. /\ Len(SubSeq(r.of.blocks, 1, k)) = k /\ SubSeq(r.of.blocks, 1, k) \in Seq(Blocks)
          /\ \A i \in 1 .. k : SubSeq(r.of.blocks, 1, k)[i] = r.of.blocks[i]
      BY <2>2, <3>1, StartOfStart
    <3>3. \A i \in 1 .. k : SubSeq(r.data, 1, k)[i] = r.data[i]
      BY <2>3, <3>1, StartOfStart
    <3>4. \A i \in 1 .. k : kept[i] = SubSeq(r.of.blocks, 1, k)[i]
      <4> TAKE i \in 1 .. k
      <4>1. i \in 1 .. r.delivered
        BY <2>2, <2>4, <3>1
      <4>2. kept[i] = r.data[i]
        BY <2>4, <3>3, Zenon
      <4>3. QED
        BY <2>3, <3>2, <4>1, <4>2
    <3> HIDE DEF k
    <3>5. QED
      BY <2>4, <3>2, <3>4, SeqEqual DEF k
  <2>6. Len(kept) < r.delivered => r.of.blocks[Len(kept) + 1] = "nul"
    BY <2>2, <2>3, <2>4
  <2>7. IsKept(kept, r)
    BY <2>4, <2>5, <2>6 DEF IsKept
  <2>8. QED
    BY <1>3, <1>4, <2>1, <2>7 DEF ClientIInv, AnswerInv, kept
<1>7. QED
  BY <1>3, <1>5, <1>6 DEF ClientIInv
-----------------------------------------------------------------------------
(* What a request leaves behind belongs to it, and a request that begins after *)
(* stop_curl() gets nothing: for every server and number of requests, although *)
(* reading the code may clear the flag.                                        *)
THEOREM AnswersAreNotMixed == ClientSpec => []AnswerIsOfItsRequest
<1>1. ClientInit => ClientIInv
  BY Zenon DEF ClientInit, ClientIInv, ReqInv, StopInv, AnswerInv
<1>2. ClientIInv /\ [ClientNext]_netClientVars => ClientIInv'
  <2> SUFFICES ASSUME ClientIInv, [ClientNext]_netClientVars PROVE ClientIInv'
    OBVIOUS
  <2>1. CASE StopCurl
    BY <2>1 DEF StopCurl, SameHistory, ClientIInv, ReqInv, StopInv, AnswerInv
  <2>2. CASE UNCHANGED netClientVars
    BY <2>2 DEF netClientVars, ClientIInv, ReqInv, StopInv, AnswerInv
  <2>3. QED
    BY <2>1, <2>2, BeginStep, ProgressStep, RespondStep, ClientWriteStep, EndStep DEF ClientNext
<1>3. ClientIInv => AnswerIsOfItsRequest
  BY DEF ClientIInv, StopInv, AnswerInv, IsKept, AnswerIsOfItsRequest
<1>4. QED
  BY <1>1, <1>2, <1>3, PTL DEF ClientSpec
=============================================================================
