---------------------------- MODULE TcpServerProofs ----------------------------
(***************************************************************************)
(* Theorems about TcpServer for any set of session objects.                *)
(***************************************************************************)
EXTENDS TcpServer, TLAPS

(* The program counters keep their types. *)
LEMMA PcStep == PcTypeOK /\ [Next]_vars => PcTypeOK'
<1> SUFFICES ASSUME PcTypeOK, [Next]_vars PROVE PcTypeOK'
  OBVIOUS
<1> USE DEF PcTypeOK, WorkerPcs, threadVars
<1>1. CASE Owner
  BY <1>1 DEF Owner, RunAsync, Run, Starts, Returns, JoinBegins, Reset, ResetGuard,
     ShutdownBegins, ShutdownEnds
<1>2. CASE StopBegins \/ StopContinues
  BY <1>2 DEF StopBegins, StopContinues, StopSeesService, StopTestsService,
     StopCallsService, StopSetsFullStop
<1>3. CASE MainLoop
  BY <1>3 DEF MainLoop, LoopHead, InitService, InitListens, InitThrows, RunEnds,
     CloseServer, LoopAgain
<1>4. CASE Handlers
  BY <1>4 DEF Handlers, HandleAccept, HandleAcceptThrows, HandleRead,
     HandleReadThrows, HandleWrite, HandleClosed, Continues
<1>5. CASE Reactor
  BY <1>5 DEF Reactor, AcceptCompletes, OperationCompletes
<1>6. CASE Gone \/ UNCHANGED vars
  BY <1>6 DEF Gone, vars
<1>7. QED
  BY <1>1, <1>2, <1>3, <1>4, <1>5, <1>6 DEF Next

(* The io_service and the accept operation keep their types. *)
LEMMA ServiceStep == ServiceTypeOK /\ [Next]_vars => ServiceTypeOK'
<1> SUFFICES ASSUME ServiceTypeOK, [Next]_vars PROVE ServiceTypeOK'
  OBVIOUS
<1> USE DEF ServiceTypeOK
<1>1. CASE Owner
  BY <1>1 DEF Owner, RunAsync, Run, Starts, Returns, JoinBegins, Reset, ResetGuard,
     ShutdownBegins, ShutdownEnds
<1>2. CASE StopBegins \/ StopContinues
  BY <1>2 DEF StopBegins, StopContinues, StopSeesService, StopTestsService,
     StopCallsService, StopSetsFullStop
<1>3. CASE MainLoop
  BY <1>3 DEF MainLoop, LoopHead, InitService, InitListens, InitThrows, RunEnds,
     CloseServer, LoopAgain
<1>4. CASE Handlers
  BY <1>4 DEF Handlers, HandleAccept, HandleAcceptThrows, HandleRead,
     HandleReadThrows, HandleWrite, HandleClosed, Continues, AcceptAgain
<1>5. CASE Reactor
  BY <1>5 DEF Reactor, AcceptCompletes, OperationCompletes
<1>6. CASE Gone \/ UNCHANGED vars
  BY <1>6 DEF Gone, vars
<1>7. QED
  BY <1>1, <1>2, <1>3, <1>4, <1>5, <1>6 DEF Next

(* The flags remain Boolean. *)
LEMMA FlagStep == FlagTypeOK /\ [Next]_vars => FlagTypeOK'
<1> SUFFICES ASSUME FlagTypeOK, [Next]_vars PROVE FlagTypeOK'
  OBVIOUS
<1> USE DEF FlagTypeOK, threadVars
<1>1. CASE Owner
  <2>1. CASE RunAsync \/ Run
    BY <2>1 DEF RunAsync, Run, Starts
  <2>2. CASE Returns \/ JoinBegins
    BY <2>2 DEF Returns, JoinBegins
  <2>3. CASE Reset
    BY <2>3 DEF Reset
  <2>4. CASE ShutdownBegins \/ ShutdownEnds
    BY <2>4 DEF ShutdownBegins, ShutdownEnds
  <2>5. QED
    BY <1>1, <2>1, <2>2, <2>3, <2>4 DEF Owner
<1>2. CASE StopBegins \/ StopContinues
  BY <1>2 DEF StopBegins, StopContinues, StopSeesService, StopTestsService,
     StopCallsService, StopSetsFullStop
<1>3. CASE MainLoop
  <2>1. CASE LoopHead
    BY <2>1 DEF LoopHead, StopSeenAtHead
  <2>2. CASE InitService \/ InitListens \/ InitThrows
    BY <2>2 DEF InitService, InitListens, InitThrows
  <2>3. CASE RunEnds \/ CloseServer
    BY <2>3 DEF RunEnds, CloseServer
  <2>4. CASE LoopAgain
    BY <2>4 DEF LoopAgain
  <2>5. QED
    BY <1>3, <2>1, <2>2, <2>3, <2>4 DEF MainLoop
<1>4. CASE Handlers
  BY <1>4 DEF Handlers, HandleAccept, HandleAcceptThrows, HandleRead,
     HandleReadThrows, HandleWrite, HandleClosed, Continues
<1>5. CASE Reactor
  BY <1>5 DEF Reactor, AcceptCompletes, OperationCompletes
<1>6. CASE Gone \/ UNCHANGED vars
  BY <1>6 DEF Gone, vars
<1>7. QED
  BY <1>1, <1>2, <1>3, <1>4, <1>5, <1>6 DEF Next

(* The sessions and their operations keep their types. *)
LEMMA SessionStep == SessionTypeOK /\ AcceptInv /\ [Next]_vars => SessionTypeOK'
<1> SUFFICES ASSUME SessionTypeOK, AcceptInv, [Next]_vars PROVE SessionTypeOK'
  OBVIOUS
<1> USE DEF SessionTypeOK, sessionVars
<1>1. CASE Owner
  BY <1>1 DEF Owner, RunAsync, Run, Starts, Returns, JoinBegins, Reset, ResetGuard,
     ShutdownBegins, ShutdownEnds
<1>2. CASE StopBegins \/ StopContinues
  BY <1>2 DEF StopBegins, StopContinues, StopSeesService, StopTestsService,
     StopCallsService, StopSetsFullStop
<1>3. CASE MainLoop
  <2>1. CASE LoopHead \/ InitService \/ InitThrows \/ RunEnds \/ LoopAgain
    BY <2>1 DEF LoopHead, InitService, InitThrows, RunEnds, LoopAgain
  <2>2. CASE InitListens
    BY <2>2 DEF InitListens, Created
  <2>3. CASE CloseServer
    BY <2>3 DEF CloseServer, SessionsAfterClose
  <2>4. QED
    BY <1>3, <2>1, <2>2, <2>3 DEF MainLoop
<1>4. CASE Handlers
  <2>1. CASE HandleAccept
    BY <2>1 DEF HandleAccept, Created, Accepted, Running, At, AcceptInv
  <2>2. CASE HandleAcceptThrows
    BY <2>2 DEF HandleAcceptThrows, Accepted, Running, At, AcceptInv
  <2>3. ASSUME NEW s \in SESSIONS,
               HandleRead(s) \/ HandleReadThrows(s) \/ HandleWrite(s) \/ HandleClosed(s)
        PROVE  SessionTypeOK'
    BY <2>3 DEF HandleRead, HandleReadThrows, HandleWrite, HandleClosed, Continues
  <2>4. QED
    BY <1>4, <2>1, <2>2, <2>3 DEF Handlers
<1>5. CASE Reactor
  BY <1>5 DEF Reactor, AcceptCompletes, OperationCompletes
<1>6. CASE Gone \/ UNCHANGED vars
  BY <1>6 DEF Gone, vars
<1>7. QED
  BY <1>1, <1>2, <1>3, <1>4, <1>5, <1>6 DEF Next

(* A worker exists exactly while something waits for it. *)
LEMMA OwnerStep == OwnerInv /\ [Next]_vars => OwnerInv'
<1> SUFFICES ASSUME OwnerInv, [Next]_vars PROVE OwnerInv'
  OBVIOUS
<1> USE DEF OwnerInv, threadVars, At
<1>1. CASE Owner
  <2>1. CASE RunAsync \/ Run
    BY <2>1 DEF RunAsync, Run, Starts
  <2>2. CASE Returns
    BY <2>2 DEF Returns
  <2>3. CASE JoinBegins
    BY <2>3 DEF JoinBegins
  <2>4. CASE Reset
    BY <2>4 DEF Reset, ResetGuard
  <2>5. CASE ShutdownBegins \/ ShutdownEnds
    BY <2>5 DEF ShutdownBegins, ShutdownEnds
  <2>6. QED
    BY <1>1, <2>1, <2>2, <2>3, <2>4, <2>5 DEF Owner
<1>2. CASE StopBegins \/ StopContinues
  BY <1>2 DEF StopBegins, StopContinues, StopSeesService, StopTestsService,
     StopCallsService, StopSetsFullStop
<1>3. CASE MainLoop
  <2>1. CASE LoopHead
    BY <2>1 DEF LoopHead
  <2>2. CASE InitService \/ InitListens \/ InitThrows \/ RunEnds \/ CloseServer
    BY <2>2 DEF InitService, InitListens, InitThrows, RunEnds, CloseServer
  <2>3. CASE LoopAgain
    BY <2>3 DEF LoopAgain
  <2>4. QED
    BY <1>3, <2>1, <2>2, <2>3 DEF MainLoop
<1>4. CASE Handlers \/ Reactor
  BY <1>4 DEF Handlers, HandleAccept, HandleAcceptThrows, HandleRead,
     HandleReadThrows, HandleWrite, HandleClosed, Continues, Reactor,
     AcceptCompletes, OperationCompletes, Running
<1>5. CASE Gone \/ UNCHANGED vars
  BY <1>5 DEF Gone, vars
<1>6. QED
  BY <1>1, <1>2, <1>3, <1>4, <1>5 DEF Next

(* Sessions exist only between init() and close_server(). *)
LEMMA ClosedStep == OwnerInv /\ ClosedInv /\ [Next]_vars => ClosedInv'
<1> SUFFICES ASSUME OwnerInv, ClosedInv, [Next]_vars PROVE ClosedInv'
  OBVIOUS
<1> USE DEF ClosedInv, threadVars, sessionVars, At
<1>1. CASE Owner
  BY <1>1 DEF Owner, RunAsync, Run, Starts, Returns, JoinBegins, Reset, ResetGuard,
     ShutdownBegins, ShutdownEnds, OwnerInv
<1>2. CASE StopBegins \/ StopContinues
  BY <1>2 DEF StopBegins, StopContinues, StopSeesService, StopTestsService,
     StopCallsService, StopSetsFullStop
<1>3. CASE MainLoop
  BY <1>3 DEF MainLoop, LoopHead, InitService, InitListens, InitThrows, RunEnds,
     CloseServer, LoopAgain, SessionsAfterClose
<1>4. CASE Handlers \/ Reactor
  BY <1>4 DEF Handlers, HandleAccept, HandleAcceptThrows, HandleRead,
     HandleReadThrows, HandleWrite, HandleClosed, Continues, Reactor,
     AcceptCompletes, OperationCompletes, Running
<1>5. CASE Gone \/ UNCHANGED vars
  BY <1>5 DEF Gone, vars
<1>6. QED
  BY <1>1, <1>2, <1>3, <1>4, <1>5 DEF Next

(* An accept is under way for a session that is fresh. *)
LEMMA AcceptStep ==
    TypeOK /\ OwnerInv /\ ClosedInv /\ AcceptInv /\ [Next]_vars => AcceptInv'
<1> SUFFICES ASSUME TypeOK, OwnerInv, ClosedInv, AcceptInv, [Next]_vars
             PROVE  AcceptInv'
  OBVIOUS
<1> USE DEF AcceptInv, threadVars, sessionVars, At
<1>1. CASE Owner
  BY <1>1 DEF Owner, RunAsync, Run, Starts, Returns, JoinBegins, Reset, ResetGuard,
     ShutdownBegins, ShutdownEnds, OwnerInv
<1>2. CASE StopBegins \/ StopContinues
  BY <1>2 DEF StopBegins, StopContinues, StopSeesService, StopTestsService,
     StopCallsService, StopSetsFullStop
<1>3. CASE MainLoop
  <2>1. CASE InitListens
    BY <2>1 DEF InitListens, Created, ClosedInv
  <2>2. CASE LoopHead \/ InitService \/ InitThrows \/ RunEnds \/ CloseServer \/ LoopAgain
    BY <2>2 DEF LoopHead, InitService, InitThrows, RunEnds, CloseServer, LoopAgain
  <2>3. QED
    BY <1>3, <2>1, <2>2 DEF MainLoop
<1>4. CASE Handlers
  <2>1. CASE HandleAccept
    <3>1. PICK s \in Created(sessions' \cup {newSession}) :
             /\ newSession' = s
             /\ closed' = (IF accept = "ok" THEN closed ELSE closed \cup {newSession}) \ {s}
      BY <2>1 DEF HandleAccept
    <3>2. s \in SESSIONS /\ s \notin sessions' /\ s # newSession /\ await[s] = "none"
      BY <3>1 DEF Created
    <3>3. await'[s] = "none" /\ accept' = "pending"
      BY <2>1, <3>2 DEF HandleAccept, AcceptAgain, TypeOK, SessionTypeOK
    <3>4. QED
      BY <3>1, <3>2, <3>3
  <2>2. CASE HandleAcceptThrows
    BY <2>2 DEF HandleAcceptThrows
  <2>3. ASSUME NEW s \in SESSIONS, HandleRead(s) \/ HandleReadThrows(s) \/ HandleWrite(s)
        PROVE  AcceptInv'
    <3>1. s # newSession /\ wpc = "run"
      BY <2>3 DEF HandleRead, HandleReadThrows, HandleWrite, Dispatched, Running
    <3>2. QED
      BY <2>3, <3>1 DEF HandleRead, HandleReadThrows, HandleWrite, Continues, TypeOK, SessionTypeOK
  <2>4. ASSUME NEW s \in SESSIONS, HandleClosed(s)
        PROVE  AcceptInv'
    BY <2>4 DEF HandleClosed, Continues, TypeOK, SessionTypeOK
  <2>5. QED
    BY <1>4, <2>1, <2>2, <2>3, <2>4 DEF Handlers
<1>5. CASE Reactor
  BY <1>5 DEF Reactor, AcceptCompletes, OperationCompletes
<1>6. CASE Gone \/ UNCHANGED vars
  BY <1>6 DEF Gone, vars
<1>7. QED
  BY <1>1, <1>2, <1>3, <1>4, <1>5, <1>6 DEF Next

(* The invariant holds initially. *)
LEMMA InvInit == Init => IInv
<1>1. Init => TypeOK
  BY DEF Init, TypeOK, PcTypeOK, WorkerPcs, FlagTypeOK, ServiceTypeOK, SessionTypeOK
<1>2. Init => OwnerInv /\ ClosedInv /\ AcceptInv
  BY DEF Init, OwnerInv, ClosedInv, AcceptInv
<1>3. QED
  BY <1>1, <1>2 DEF IInv

(* Every step preserves the invariant. *)
LEMMA InvStep == IInv /\ [Next]_vars => IInv'
  BY PcStep, FlagStep, ServiceStep, SessionStep, OwnerStep, ClosedStep, AcceptStep
  DEF IInv, TypeOK

(* Every behaviour satisfies the invariant. *)
LEMMA Invariance == Spec => []IInv
  BY InvInit, InvStep, PTL DEF Spec
-----------------------------------------------------------------------------
(* No flag, program counter, session or operation ever leaves its type.       *)
THEOREM ServerTypeCorrect == Spec => []TypeOK
<1>1. IInv => TypeOK
  BY DEF IInv
<1>2. QED
  BY <1>1, Invariance, PTL

(* asio_accept_handler() always begins the next accept, for a session that    *)
(* was not closed, whatever became of the last one.                           *)
THEOREM AlwaysAccepting == Spec => []ServerKeepsAccepting
<1>1. IInv => ServerKeepsAccepting
  BY NoneAssumption DEF IInv, AcceptInv, ServerKeepsAccepting, At
<1>2. QED
  BY <1>1, Invariance, PTL

(* The session that waits for a client never has one already.                 *)
THEOREM OneClient == Spec => []OneClientPerSession
<1>1. IInv => OneClientPerSession
  BY DEF IInv, AcceptInv, OneClientPerSession, At
<1>2. QED
  BY <1>1, Invariance, PTL

(* Whichever way io_service::run() is left, close_server() has closed and     *)
(* dropped every session before the next init() or the worker's end.          *)
THEOREM NoSessionsWhenClosed == Spec => []ClosedServerHasNoSessions
<1>1. IInv => ClosedServerHasNoSessions
  BY DEF IInv, ClosedInv, ClosedServerHasNoSessions, At
<1>2. QED
  BY <1>1, Invariance, PTL

(* run() and run_async() never meet the worker of an earlier run, and is_run()*)
(* never outlives the worker.                                                 *)
THEOREM ServerIsClean == Spec => []CleanMeansNoWorker
<1>1. IInv => CleanMeansNoWorker
  BY DEF IInv, OwnerInv, CleanMeansNoWorker
<1>2. QED
  BY <1>1, Invariance, PTL

(* Accepting a client drops every session that had been closed before.        *)
THEOREM ClosedAreRemoved == Spec => ClosedSessionsAreRemoved
<1>1. IInv /\ HandleAccept => sessions' \cap closed = {}
  BY DEF IInv, AcceptInv, HandleAccept, Accepted
<1>2. QED
  BY <1>1, Invariance, PTL DEF Spec, ClosedSessionsAreRemoved
============================================================================
