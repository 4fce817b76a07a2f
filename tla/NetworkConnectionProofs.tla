----------------------- MODULE NetworkConnectionProofs -----------------------
(***************************************************************************)
(* Theorems about NetworkConnection for every set of configurations and of *)
(* hook behaviours, and whether stop() is called by a thread or from a     *)
(* signal handler.                                                         *)
(***************************************************************************)
EXTENDS NetworkConnection, TLAPS

(* The names of program points and errors, for proofs that keep the sets of *)
(* names folded.                                                            *)
LEMMA WorkerNames ==
    /\ "absent" \in WorkerPcs /\ "loop" \in WorkerPcs /\ "open" \in WorkerPcs
    /\ "lock" \in WorkerPcs /\ "setup" \in WorkerPcs /\ "post" \in WorkerPcs
    /\ "before" \in WorkerPcs /\ "run" \in WorkerPcs /\ "new" \in WorkerPcs
    /\ "read" \in WorkerPcs /\ "sent" \in WorkerPcs /\ "timer" \in WorkerPcs
    /\ "close" \in WorkerPcs /\ "end" \in WorkerPcs /\ "cleanup" \in WorkerPcs
    /\ "cleaning" \in WorkerPcs /\ "again" \in WorkerPcs /\ "exit" \in WorkerPcs
    /\ "threw" \in WorkerPcs /\ "report" \in WorkerPcs /\ "finished" \in WorkerPcs
  BY DEF WorkerPcs, SessionPcs, HookPcs

(* The points of the code a caller can be at. *)
LEMMA CallerNames ==
    /\ "out" \in OwnerPcs /\ "inRun" \in OwnerPcs /\ "joining" \in OwnerPcs
    /\ "closing" \in OwnerPcs /\ "shutJoin" \in OwnerPcs /\ "gone" \in OwnerPcs
    /\ "out" \in StopPcs /\ "err" \in StopPcs /\ "full" \in StopPcs
    /\ "lock" \in StopPcs /\ "sock" \in StopPcs /\ "io" \in StopPcs
  BY DEF OwnerPcs, StopPcs

(* The statuses that are errors. *)
LEMMA ErrorNames ==
    /\ Errors \subseteq ErrorStatus
    /\ "OK" \in ErrorStatus /\ "IDLE" \in ErrorStatus
    /\ "IO_ERROR" \in Errors /\ "CONNECT_ERROR" \in Errors
    /\ "CONNECT_ABORT" \in Errors /\ "CONNECT_TIMEOUT" \in Errors
    /\ "SIGNAL_ERROR" \in Errors /\ "APP_ERROR" \in Errors
  BY DEF ErrorStatus, Errors

(* set_error_status() and reset_error_status() keep the types of the two fields. *)
LEMMA SetErrorTyped ==
    ASSUME ErrTypeOK, NEW s \in Errors, SetError(s)
    PROVE  ErrTypeOK'
  BY ErrorNames DEF ErrTypeOK, SetError, errVars

(* No error handler records APP_ERROR, the one status that gives way. *)
LEMMA HandlersError ==
    \A op \in SocketOps, ec \in Codes : ErrorOf(op, ec) \notin {"APP_ERROR", "none"}
<1> SUFFICES ASSUME NEW op \in SocketOps, NEW ec \in Codes
             PROVE  ErrorOf(op, ec) \notin {"APP_ERROR", "none"}
  OBVIOUS
<1>1. CASE op = "estab"
  BY <1>1 DEF ErrorOf
<1>2. CASE op # "estab" /\ ec = "reset"
  BY <1>2 DEF ErrorOf
<1>3. CASE op # "estab" /\ ec # "reset"
  BY <1>3 DEF ErrorOf
<1>4. QED
  BY <1>1, <1>2, <1>3

(* A failed operation sets a status that is an error. *)
LEMMA ErrorOfTyped == \A op \in Ops, ec \in Codes : ErrorOf(op, ec) \in Errors
  BY ErrorNames DEF ErrorOf

(* What the steps put in io, sock, pend and ready is of the right type. *)
LEMMA OpsTyped ==
    ASSUME ResTypeOK
    PROVE  /\ IdleStarted \subseteq Ops
           /\ IdleAborted \subseteq Completions
           /\ \A ops \in SUBSET Ops :
                 /\ StartedOn(ops) \subseteq Ops
                 /\ FailedOn(ops) \subseteq Completions
                 /\ {Done(op, "aborted") : op \in ops} \subseteq Completions
           /\ \A op \in Ops, ec \in Codes : Done(op, ec) \in Completions
           /\ SocketOps \subseteq Ops
           /\ {"timer", "idle", "signal"} \subseteq Ops
<1>1. \A op \in Ops, ec \in Codes : Done(op, ec) \in Completions
  BY DEF Done, Completions
<1>2. "aborted" \in Codes /\ "fail" \in Codes
  BY DEF Codes
<1>3. SocketOps \subseteq Ops /\ {"timer", "idle", "signal"} \subseteq Ops
  BY DEF Ops
<1>4. IdleStarted \subseteq Ops
  BY <1>3 DEF IdleStarted
<1>5. IdleAborted \subseteq Completions
  BY <1>1, <1>2, <1>4 DEF IdleAborted
<1>6. \A ops \in SUBSET Ops :
          /\ StartedOn(ops) \subseteq Ops
          /\ FailedOn(ops) \subseteq Completions
          /\ {Done(op, "aborted") : op \in ops} \subseteq Completions
  BY <1>1, <1>2 DEF StartedOn, FailedOn
<1>7. QED
  BY <1>1, <1>3, <1>4, <1>5, <1>6

(* close_session() keeps the types of what it closes. *)
LEMMA CloseSessionTyped ==
    ASSUME ResTypeOK, CloseSession
    PROVE  ResTypeOK' /\ sessionStop' \in BOOLEAN
  BY DEF ResTypeOK, CloseSession, StoppedService, Queued

(* Every step keeps the program counters at points of the code. *)
LEMMA PcStep == ASSUME PcTypeOK, [Next]_vars PROVE PcTypeOK'
<1> USE WorkerNames, CallerNames DEF PcTypeOK, ownerVars
<1>1. CASE OwnerCalls
  BY <1>1 DEF OwnerCalls, RunAsync, Run, JoinBegins, Reset, ShutdownBegins
<1>2. CASE OwnerContinues
  BY <1>2 DEF OwnerContinues, RunReturns, JoinReturns, ShutdownCloses,
     ShutdownEnds
<1>3. CASE StopBegins \/ StopContinues
  BY <1>3 DEF StopBegins, StopContinues, StopResetsError, StopSetsFullStop,
     StopLocks, StopClosesSocket, StopStopsService
<1>4. CASE MainLoop
  BY <1>4 DEF MainLoop, LoopHead, OpenLog, LockForSetup, Setup,
     PostConnectionTask, IoRunReturns, LockForCleanup, Cleanup, LoopAgain,
     WorkerExits, WorkerReports, AfterIoRun
<1>5. CASE Handlers
  BY <1>5 DEF Handlers, HandlerReturns, HandleFailure, HandleEstablished,
     HandleRead, HandleWritten, HandleTimer, HandleIdle, HandleSignal
<1>6. CASE HookReturns
  BY <1>6 DEF HookReturns, OnBeforeReturns, OnNewReturns, OnReadReturns,
     OnSentReturns, OnTimerReturns, OnCloseReturns, OnSessionEndReturns
<1>7. CASE HookBodies
  BY <1>7 DEF HookBodies, HookThrows, HookUpdatesLive, HookSends,
     HookSendFails, HookSendsAsync, HookRestartsTimer, HookClosesSession,
     HookStopsWork, HookAsksNewAccept
<1>8. CASE Reactor
  BY <1>8 DEF Reactor, Completes
<1>9. CASE Gone \/ UNCHANGED vars
  BY <1>9 DEF Gone, vars
<1>10. QED
  BY <1>1, <1>2, <1>3, <1>4, <1>5, <1>6, <1>7, <1>8, <1>9 DEF Next

(* Every step keeps the mutex and the flags that start and stop in their types. *)
LEMMA ControlStep == ASSUME ControlTypeOK, [Next]_vars PROVE ControlTypeOK'
<1> USE DEF ControlTypeOK, ownerVars, stopVars
<1>1. CASE OwnerCalls
  BY <1>1 DEF OwnerCalls, RunAsync, Run, JoinBegins, Reset, ShutdownBegins
<1>2. CASE OwnerContinues
  BY <1>2 DEF OwnerContinues, RunReturns, JoinReturns, ShutdownCloses,
     ShutdownEnds, CloseSession
<1>3. CASE StopBegins \/ StopContinues
  BY <1>3 DEF StopBegins, StopContinues, StopResetsError, StopSetsFullStop,
     StopLocks, StopClosesSocket, StopStopsService
<1>4. CASE MainLoop
  BY <1>4 DEF MainLoop, LoopHead, OpenLog, LockForSetup, Setup,
     PostConnectionTask, IoRunReturns, LockForCleanup, Cleanup, LoopAgain,
     WorkerExits, WorkerReports, LockAfterBreak
<1>5. CASE Handlers
  BY <1>5, ZenonT(60) DEF Handlers, HandlerReturns, HandleFailure, HandleEstablished,
     HandleRead, HandleWritten, HandleTimer, HandleIdle, HandleSignal,
     CloseSession
<1>6. CASE HookReturns
  BY <1>6 DEF HookReturns, OnBeforeReturns, OnNewReturns, OnReadReturns,
     OnSentReturns, OnTimerReturns, OnCloseReturns, OnSessionEndReturns
<1>7. CASE HookBodies
  BY <1>7 DEF HookBodies, HookThrows, HookUpdatesLive, HookSends,
     HookSendFails, HookSendsAsync, HookRestartsTimer, HookClosesSession,
     HookStopsWork, HookAsksNewAccept, CloseSession
<1>8. CASE Reactor
  BY <1>8 DEF Reactor, Completes
<1>9. CASE Gone \/ UNCHANGED vars
  BY <1>9 DEF Gone, vars
<1>10. QED
  BY <1>1, <1>2, <1>3, <1>4, <1>5, <1>6, <1>7, <1>8, <1>9 DEF Next

(* Every step keeps the flags of the run and the session in their types. *)
LEMMA RunStep == ASSUME RunTypeOK, [Next]_vars PROVE RunTypeOK'
<1> USE DEF RunTypeOK, runVars
<1>1. CASE OwnerCalls
  BY <1>1 DEF OwnerCalls, RunAsync, Run, JoinBegins, Reset, ShutdownBegins
<1>2. CASE OwnerContinues
  BY <1>2 DEF OwnerContinues, RunReturns, JoinReturns, ShutdownCloses,
     ShutdownEnds
<1>3. CASE StopBegins \/ StopContinues
  BY <1>3 DEF StopBegins, StopContinues, StopResetsError, StopSetsFullStop,
     StopLocks, StopClosesSocket, StopStopsService
<1>4. CASE MainLoop
  BY <1>4 DEF MainLoop, LoopHead, OpenLog, LockForSetup, Setup,
     PostConnectionTask, IoRunReturns, LockForCleanup, Cleanup, LoopAgain,
     WorkerExits, WorkerReports, Quiet
<1>5. CASE Handlers
  BY <1>5, ZenonT(60) DEF Handlers, HandlerReturns, HandleFailure, HandleEstablished,
     HandleRead, HandleWritten, HandleTimer, HandleIdle, HandleSignal
<1>6. CASE HookReturns
  BY <1>6 DEF HookReturns, OnBeforeReturns, OnNewReturns, OnReadReturns,
     OnSentReturns, OnTimerReturns, OnCloseReturns, OnSessionEndReturns
<1>7. CASE HookBodies
  BY <1>7 DEF HookBodies, HookThrows, HookUpdatesLive, HookSends,
     HookSendFails, HookSendsAsync, HookRestartsTimer, HookClosesSession,
     HookStopsWork, HookAsksNewAccept
<1>8. CASE Reactor
  BY <1>8 DEF Reactor, Completes
<1>9. CASE Gone \/ UNCHANGED vars
  BY <1>9 DEF Gone, vars
<1>10. QED
  BY <1>1, <1>2, <1>3, <1>4, <1>5, <1>6, <1>7, <1>8, <1>9 DEF Next

(* Every step records and reports one of the errors of the header. *)
LEMMA ErrStep == ASSUME ErrTypeOK, [Next]_vars PROVE ErrTypeOK'
<1> USE ErrorNames DEF ErrTypeOK, errVars, SetError, ResetError
<1>1. CASE OwnerCalls
  BY <1>1 DEF OwnerCalls, RunAsync, Run, JoinBegins, Reset, ShutdownBegins
<1>2. CASE OwnerContinues
  BY <1>2 DEF OwnerContinues, RunReturns, JoinReturns, ShutdownCloses,
     ShutdownEnds
<1>3. CASE StopBegins \/ StopContinues
  BY <1>3 DEF StopBegins, StopContinues, StopResetsError, StopSetsFullStop,
     StopLocks, StopClosesSocket, StopStopsService
<1>4. CASE MainLoop
  BY <1>4 DEF MainLoop, LoopHead, OpenLog, LockForSetup, Setup,
     PostConnectionTask, IoRunReturns, LockForCleanup, Cleanup, LoopAgain,
     WorkerExits, WorkerReports
<1>5. CASE Handlers
  BY <1>5, ErrorOfTyped DEF Handlers, HandlerReturns, HandleFailure,
     HandleEstablished, HandleRead, HandleWritten, HandleTimer, HandleIdle,
     HandleSignal
<1>6. CASE HookReturns
  BY <1>6 DEF HookReturns, OnBeforeReturns, OnNewReturns, OnReadReturns,
     OnSentReturns, OnTimerReturns, OnCloseReturns, OnSessionEndReturns,
     ReadOn, AcceptAnew
<1>7. CASE HookBodies
  BY <1>7 DEF HookBodies, HookThrows, HookUpdatesLive, HookSends,
     HookSendFails, HookSendsAsync, HookRestartsTimer, HookClosesSession,
     HookStopsWork, HookAsksNewAccept
<1>8. CASE Reactor
  BY <1>8 DEF Reactor, Completes
<1>9. CASE Gone \/ UNCHANGED vars
  BY <1>9 DEF Gone, vars
<1>10. QED
  BY <1>1, <1>2, <1>3, <1>4, <1>5, <1>6, <1>7, <1>8, <1>9 DEF Next

(* Every step keeps the session's resources and operations in their types. *)
LEMMA ResStep == ASSUME ResTypeOK, [Next]_vars PROVE ResTypeOK'
<1> USE OpsTyped DEF ResTypeOK, resVars
<1>1. CASE OwnerCalls
  BY <1>1 DEF OwnerCalls, RunAsync, Run, JoinBegins, Reset, ShutdownBegins
<1>2. CASE OwnerContinues
  BY <1>2 DEF OwnerContinues, RunReturns, JoinReturns, ShutdownCloses,
     ShutdownEnds, CloseSession, StoppedService, Queued
<1>3. CASE StopBegins \/ StopContinues
  BY <1>3 DEF StopBegins, StopContinues, StopResetsError, StopSetsFullStop,
     StopLocks, StopClosesSocket, StopStopsService, StoppedService, Queued
<1>4. CASE MainLoop
  BY <1>4 DEF MainLoop, LoopHead, OpenLog, LockForSetup, Setup,
     PostConnectionTask, IoRunReturns, LockForCleanup, Cleanup, LoopAgain,
     WorkerExits, WorkerReports, SocketOfSession, SocketOps
<1>5. CASE Handlers
  BY <1>5 DEF Handlers, HandlerReturns, HandleFailure, HandleEstablished,
     HandleRead, HandleWritten, HandleTimer, HandleIdle, HandleSignal,
     CloseSession, StoppedService, Queued
<1>6. CASE HookReturns
  BY <1>6 DEF HookReturns, OnBeforeReturns, OnNewReturns, OnReadReturns,
     OnSentReturns, OnTimerReturns, OnCloseReturns, OnSessionEndReturns,
     ReadOn, BufferFor, AcceptAnew, SocketOps
<1>7. CASE HookBodies
  BY <1>7 DEF HookBodies, HookThrows, HookUpdatesLive, HookSends,
     HookSendFails, HookSendsAsync, HookRestartsTimer, HookClosesSession,
     HookStopsWork, HookAsksNewAccept, CloseSession, StoppedService, Queued,
     SocketOps
<1>8. CASE Reactor
  BY <1>8 DEF Reactor, Completes
<1>9. CASE Gone \/ UNCHANGED vars
  BY <1>9 DEF Gone, vars
<1>10. QED
  BY <1>1, <1>2, <1>3, <1>4, <1>5, <1>6, <1>7, <1>8, <1>9 DEF Next

(* The settings stay as they were when the object began to run. *)
LEMMA ConfUnchanged == ASSUME [Next]_vars PROVE conf' = conf
<1>1. CASE OwnerCalls
  BY <1>1 DEF OwnerCalls, RunAsync, Run, JoinBegins, Reset, ShutdownBegins
<1>2. CASE OwnerContinues
  BY <1>2 DEF OwnerContinues, RunReturns, JoinReturns, ShutdownCloses,
     ShutdownEnds
<1>3. CASE StopBegins \/ StopContinues
  BY <1>3 DEF StopBegins, StopContinues, StopResetsError, StopSetsFullStop,
     StopLocks, StopClosesSocket, StopStopsService
<1>4. CASE MainLoop
  BY <1>4 DEF MainLoop, LoopHead, OpenLog, LockForSetup, Setup,
     PostConnectionTask, IoRunReturns, LockForCleanup, Cleanup, LoopAgain,
     WorkerExits, WorkerReports
<1>5. CASE Handlers
  BY <1>5 DEF Handlers, HandlerReturns, HandleFailure, HandleEstablished,
     HandleRead, HandleWritten, HandleTimer, HandleIdle, HandleSignal
<1>6. CASE HookReturns
  BY <1>6 DEF HookReturns, OnBeforeReturns, OnNewReturns, OnReadReturns,
     OnSentReturns, OnTimerReturns, OnCloseReturns, OnSessionEndReturns
<1>7. CASE HookBodies
  BY <1>7 DEF HookBodies, HookThrows, HookUpdatesLive, HookSends,
     HookSendFails, HookSendsAsync, HookRestartsTimer, HookClosesSession,
     HookStopsWork, HookAsksNewAccept
<1>8. CASE Reactor
  BY <1>8 DEF Reactor, Completes
<1>9. CASE Gone \/ UNCHANGED vars
  BY <1>9 DEF Gone, vars
<1>10. QED
  BY <1>1, <1>2, <1>3, <1>4, <1>5, <1>6, <1>7, <1>8, <1>9 DEF Next

(* A new object has the types, ... *)
LEMMA TypeInit == Init => TypeOK
<1> SUFFICES ASSUME Init PROVE TypeOK
  OBVIOUS
<1>1. PcTypeOK /\ ControlTypeOK
  BY WorkerNames, CallerNames DEF Init, PcTypeOK, ControlTypeOK
<1>2. RunTypeOK /\ ErrTypeOK /\ ResTypeOK
  BY ErrorNames DEF Init, RunTypeOK, ErrTypeOK, ResTypeOK
<1>3. QED
  BY <1>1, <1>2 DEF Init, TypeOK

(* ... and every step keeps them. *)
LEMMA TypeStep == TypeOK /\ [Next]_vars => TypeOK'
<1> SUFFICES ASSUME TypeOK, [Next]_vars PROVE TypeOK'
  OBVIOUS
<1>1. (conf \in CONFIGS)'
  BY ConfUnchanged DEF TypeOK
<1>2. QED
  BY <1>1, PcStep, ControlStep, RunStep, ErrStep, ResStep DEF TypeOK

(* No variable ever leaves its type: no flag, program counter, error or      *)
(* operation outside those network-connection.hpp declares.                  *)
THEOREM TypeCorrect == Spec => []TypeOK
  BY TypeInit, TypeStep, PTL DEF Spec
-----------------------------------------------------------------------------

(* The mutex is taken and given back where MutexInv says. *)
LEMMA MutexStep ==
    ASSUME OwnerInv, MutexInv, [Next]_vars
    PROVE  MutexInv'
<1> USE DEF MutexInv, OwnerInv, At, ownerVars
<1>1. CASE OwnerCalls
  BY <1>1 DEF OwnerCalls, RunAsync, Run, JoinBegins, Reset, ShutdownBegins,
     ResetGuard
<1>2. CASE OwnerContinues
  BY <1>2 DEF OwnerContinues, RunReturns, JoinReturns, ShutdownCloses,
     ShutdownEnds, CloseSession, Joined
<1>3. CASE StopBegins \/ StopContinues
  BY <1>3 DEF StopBegins, StopContinues, StopResetsError, StopSetsFullStop,
     StopLocks, StopClosesSocket, StopStopsService
<1>4. CASE MainLoop
  BY <1>4 DEF MainLoop, LoopHead, OpenLog, LockForSetup, Setup,
     PostConnectionTask, IoRunReturns, LockForCleanup, Cleanup, LoopAgain,
     WorkerExits, WorkerReports, LockAfterBreak, AfterIoRun
<1>5. CASE Handlers
  BY <1>5 DEF Handlers, HandlerReturns, HandleFailure, HandleEstablished,
     HandleRead, HandleWritten, HandleTimer, HandleIdle, HandleSignal,
     CloseSession, Dispatched
<1>6. CASE HookReturns
  BY <1>6 DEF HookReturns, OnBeforeReturns, OnNewReturns, OnReadReturns,
     OnSentReturns, OnTimerReturns, OnCloseReturns, OnSessionEndReturns
<1>7. CASE HookBodies
  BY <1>7 DEF HookBodies, HookThrows, HookUpdatesLive, HookSends,
     HookSendFails, HookSendsAsync, HookRestartsTimer, HookClosesSession,
     HookStopsWork, HookAsksNewAccept, CloseSession, InHook, HookPcs
<1>8. CASE Reactor
  BY <1>8 DEF Reactor, Completes, At
<1>9. CASE Gone \/ UNCHANGED vars
  BY <1>9 DEF Gone, vars
<1>10. QED
  BY <1>1, <1>2, <1>3, <1>4, <1>5, <1>6, <1>7, <1>8, <1>9 DEF Next

(* The owner's side: a worker exists exactly while something waits for it. *)
LEMMA OwnerStep ==
    ASSUME OwnerInv, [Next]_vars
    PROVE  OwnerInv'
<1> USE DEF OwnerInv, ownerVars, runVars, resVars, At
<1>1. CASE OwnerCalls
  BY <1>1 DEF OwnerCalls, RunAsync, Run, JoinBegins, Reset, ShutdownBegins,
     ResetGuard
<1>2. CASE OwnerContinues
  BY <1>2 DEF OwnerContinues, RunReturns, JoinReturns, ShutdownCloses,
     ShutdownEnds, CloseSession, StoppedService, Joined
<1>3. CASE StopBegins \/ StopContinues
  BY <1>3 DEF StopBegins, StopContinues, StopResetsError, StopSetsFullStop,
     StopLocks, StopClosesSocket, StopStopsService, StoppedService
<1>4. CASE MainLoop
  BY <1>4 DEF MainLoop, LoopHead, OpenLog, LockForSetup, Setup,
     PostConnectionTask, IoRunReturns, LockForCleanup, Cleanup, LoopAgain,
     WorkerExits, WorkerReports, AfterIoRun
<1>5. CASE Handlers
  BY <1>5 DEF Handlers, HandlerReturns, HandleFailure, HandleEstablished,
     HandleRead, HandleWritten, HandleTimer, HandleIdle, HandleSignal,
     CloseSession, StoppedService, Dispatched
<1>6. CASE HookReturns
  BY <1>6 DEF HookReturns, OnBeforeReturns, OnNewReturns, OnReadReturns,
     OnSentReturns, OnTimerReturns, OnCloseReturns, OnSessionEndReturns,
     ReadOn, AcceptAnew
<1>7. CASE HookBodies
  BY <1>7 DEF HookBodies, HookThrows, HookUpdatesLive, HookSends,
     HookSendFails, HookSendsAsync, HookRestartsTimer, HookClosesSession,
     HookStopsWork, HookAsksNewAccept, CloseSession, StoppedService, InHook,
     HookPcs
<1>8. CASE Reactor
  BY <1>8 DEF Reactor, Completes
<1>9. CASE Gone \/ UNCHANGED vars
  BY <1>9 DEF Gone, vars
<1>10. QED
  BY <1>1, <1>2, <1>3, <1>4, <1>5, <1>6, <1>7, <1>8, <1>9 DEF Next

(* The io_service and the socket exist between setup and cleanup. *)
LEMMA SessionStep ==
    ASSUME OwnerInv, SessionHasResources, [Next]_vars
    PROVE  SessionHasResources'
<1> USE DEF SessionHasResources, OwnerInv, SessionPcs, HookPcs, ownerVars, resVars, At
<1>1. CASE OwnerCalls
  BY <1>1 DEF OwnerCalls, RunAsync, Run, JoinBegins, Reset, ShutdownBegins,
     ResetGuard
<1>2. CASE OwnerContinues
  BY <1>2 DEF OwnerContinues, RunReturns, JoinReturns, ShutdownCloses,
     ShutdownEnds, CloseSession, StoppedService, Joined
<1>3. CASE StopBegins \/ StopContinues
  BY <1>3 DEF StopBegins, StopContinues, StopResetsError, StopSetsFullStop,
     StopLocks, StopClosesSocket, StopStopsService, StoppedService
<1>4. CASE MainLoop
  BY <1>4 DEF MainLoop, LoopHead, OpenLog, LockForSetup, Setup,
     PostConnectionTask, IoRunReturns, LockForCleanup, Cleanup, LoopAgain,
     WorkerExits, WorkerReports, AfterIoRun, SocketOfSession
<1>5. CASE Handlers
  BY <1>5 DEF Handlers, HandlerReturns, HandleFailure, HandleEstablished,
     HandleRead, HandleWritten, HandleTimer, HandleIdle, HandleSignal,
     CloseSession, StoppedService, Dispatched
<1>6. CASE HookReturns
  BY <1>6 DEF HookReturns, OnBeforeReturns, OnNewReturns, OnReadReturns,
     OnSentReturns, OnTimerReturns, OnCloseReturns, OnSessionEndReturns,
     ReadOn, AcceptAnew
<1>7. CASE HookBodies
  BY <1>7 DEF HookBodies, HookThrows, HookUpdatesLive, HookSends,
     HookSendFails, HookSendsAsync, HookRestartsTimer, HookClosesSession,
     HookStopsWork, HookAsksNewAccept, CloseSession, StoppedService, InHook
<1>8. CASE Reactor
  BY <1>8 DEF Reactor, Completes
<1>9. CASE Gone \/ UNCHANGED vars
  BY <1>9 DEF Gone, vars
<1>10. QED
  BY <1>1, <1>2, <1>3, <1>4, <1>5, <1>6, <1>7, <1>8, <1>9 DEF Next

(* A stop is not lost. *)
LEMMA StopStep ==
    ASSUME MutexInv, StopInv, [Next]_vars
    PROVE  StopInv'
<1> USE DEF StopInv, StopIsNotLost, StopReturned, MutexInv, ownerVars, stopVars, resVars, At
<1>1. CASE OwnerCalls
  BY <1>1 DEF OwnerCalls, RunAsync, Run, JoinBegins, Reset, ShutdownBegins,
     ResetGuard
<1>2. CASE OwnerContinues
  BY <1>2 DEF OwnerContinues, RunReturns, JoinReturns, ShutdownCloses,
     ShutdownEnds, CloseSession, StoppedService, Joined
<1>3. CASE StopBegins \/ StopContinues
  BY <1>3 DEF StopBegins, StopContinues, StopResetsError, StopSetsFullStop,
     StopLocks, StopClosesSocket, StopStopsService, StoppedService
<1>4. CASE MainLoop
  BY <1>4 DEF MainLoop, LoopHead, OpenLog, LockForSetup, Setup,
     PostConnectionTask, IoRunReturns, LockForCleanup, Cleanup, LoopAgain,
     WorkerExits, WorkerReports, AfterIoRun, StopSeenUnderLock, LockAfterBreak
<1>5. CASE Handlers
  BY <1>5 DEF Handlers, HandlerReturns, HandleFailure, HandleEstablished,
     HandleRead, HandleWritten, HandleTimer, HandleIdle, HandleSignal,
     CloseSession, StoppedService, Dispatched
<1>6. CASE HookReturns
  BY <1>6 DEF HookReturns, OnBeforeReturns, OnNewReturns, OnReadReturns,
     OnSentReturns, OnTimerReturns, OnCloseReturns, OnSessionEndReturns,
     ReadOn, AcceptAnew
<1>7. CASE HookBodies
  BY <1>7 DEF HookBodies, HookThrows, HookUpdatesLive, HookSends,
     HookSendFails, HookSendsAsync, HookRestartsTimer, HookClosesSession,
     HookStopsWork, HookAsksNewAccept, CloseSession, StoppedService, InHook,
     HookPcs
<1>8. CASE Reactor
  BY <1>8 DEF Reactor, Completes
<1>9. CASE Gone \/ UNCHANGED vars
  BY <1>9 DEF Gone, vars
<1>10. QED
  BY <1>1, <1>2, <1>3, <1>4, <1>5, <1>6, <1>7, <1>8, <1>9 DEF Next

(* The hooks of a session come in pairs unless something throws. *)
LEMMA HookStep ==
    ASSUME OwnerInv, HookInv, [Next]_vars
    PROVE  HookInv'
<1> USE DEF HookInv, OwnerInv, ownerVars, runVars, At
<1>1. CASE OwnerCalls
  BY <1>1 DEF OwnerCalls, RunAsync, Run, JoinBegins, Reset, ShutdownBegins,
     ResetGuard
<1>2. CASE OwnerContinues
  BY <1>2 DEF OwnerContinues, RunReturns, JoinReturns, ShutdownCloses,
     ShutdownEnds, Joined
<1>3. CASE StopBegins \/ StopContinues
  BY <1>3 DEF StopBegins, StopContinues, StopResetsError, StopSetsFullStop,
     StopLocks, StopClosesSocket, StopStopsService
<1>4. CASE MainLoop
  BY <1>4 DEF MainLoop, LoopHead, OpenLog, LockForSetup, Setup,
     PostConnectionTask, IoRunReturns, LockForCleanup, Cleanup, LoopAgain,
     WorkerExits, WorkerReports, AfterIoRun
<1>5. CASE Handlers
  BY <1>5 DEF Handlers, HandlerReturns, HandleFailure, HandleEstablished,
     HandleRead, HandleWritten, HandleTimer, HandleIdle, HandleSignal,
     Dispatched
<1>6. CASE HookReturns
  BY <1>6 DEF HookReturns, OnBeforeReturns, OnNewReturns, OnReadReturns,
     OnSentReturns, OnTimerReturns, OnCloseReturns, OnSessionEndReturns
<1>7. CASE HookBodies
  BY <1>7 DEF HookBodies, HookThrows, HookUpdatesLive, HookSends,
     HookSendFails, HookSendsAsync, HookRestartsTimer, HookClosesSession,
     HookStopsWork, HookAsksNewAccept, InHook, HookPcs
<1>8. CASE Reactor
  BY <1>8 DEF Reactor, Completes
<1>9. CASE Gone \/ UNCHANGED vars
  BY <1>9 DEF Gone, vars
<1>10. QED
  BY <1>1, <1>2, <1>3, <1>4, <1>5, <1>6, <1>7, <1>8, <1>9 DEF Next

(* A finished worker leaves no flag up. *)
LEMMA QuietStep ==
    ASSUME OwnerInv, QuietInv, [Next]_vars
    PROVE  QuietInv'
<1> USE DEF QuietInv, OwnerInv, ownerVars, runVars, At
<1>1. CASE OwnerCalls
  BY <1>1 DEF OwnerCalls, RunAsync, Run, JoinBegins, Reset, ShutdownBegins,
     ResetGuard
<1>2. CASE OwnerContinues
  BY <1>2 DEF OwnerContinues, RunReturns, JoinReturns, ShutdownCloses,
     ShutdownEnds, Joined
<1>3. CASE StopBegins \/ StopContinues
  BY <1>3 DEF StopBegins, StopContinues, StopResetsError, StopSetsFullStop,
     StopLocks, StopClosesSocket, StopStopsService
<1>4. CASE MainLoop
  BY <1>4 DEF MainLoop, LoopHead, OpenLog, LockForSetup, Setup,
     PostConnectionTask, IoRunReturns, LockForCleanup, Cleanup, LoopAgain,
     WorkerExits, WorkerReports, AfterIoRun, Quiet
<1>5. CASE Handlers
  BY <1>5 DEF Handlers, HandlerReturns, HandleFailure, HandleEstablished,
     HandleRead, HandleWritten, HandleTimer, HandleIdle, HandleSignal,
     Dispatched
<1>6. CASE HookReturns
  BY <1>6 DEF HookReturns, OnBeforeReturns, OnNewReturns, OnReadReturns,
     OnSentReturns, OnTimerReturns, OnCloseReturns, OnSessionEndReturns
<1>7. CASE HookBodies
  BY <1>7 DEF HookBodies, HookThrows, HookUpdatesLive, HookSends,
     HookSendFails, HookSendsAsync, HookRestartsTimer, HookClosesSession,
     HookStopsWork, HookAsksNewAccept, InHook, HookPcs
<1>8. CASE Reactor
  BY <1>8 DEF Reactor, Completes
<1>9. CASE Gone \/ UNCHANGED vars
  BY <1>9 DEF Gone, vars
<1>10. QED
  BY <1>1, <1>2, <1>3, <1>4, <1>5, <1>6, <1>7, <1>8, <1>9 DEF Next

(* Where the worker and the destructor are tells what they have found. *)
LEMMA LifeStep ==
    ASSUME OwnerInv, LifeInv, [Next]_vars
    PROVE  LifeInv'
<1> USE DEF LifeInv, OwnerInv, ownerVars, runVars, resVars, stopVars, At
<1>1. CASE OwnerCalls
  BY <1>1 DEF OwnerCalls, RunAsync, Run, JoinBegins, Reset, ShutdownBegins,
     ResetGuard
<1>2. CASE OwnerContinues
  BY <1>2 DEF OwnerContinues, RunReturns, JoinReturns, ShutdownCloses,
     ShutdownEnds, CloseSession, StoppedService, Joined
<1>3. CASE StopBegins \/ StopContinues
  BY <1>3 DEF StopBegins, StopContinues, StopResetsError, StopSetsFullStop,
     StopLocks, StopClosesSocket, StopStopsService, StoppedService
<1>4. CASE MainLoop
  BY <1>4 DEF MainLoop, LoopHead, OpenLog, LockForSetup, Setup,
     PostConnectionTask, IoRunReturns, LockForCleanup, Cleanup, LoopAgain,
     WorkerExits, WorkerReports, AfterIoRun, LoopEnds, StopSeenUnderLock
<1>5. CASE Handlers
  BY <1>5 DEF Handlers, HandlerReturns, HandleFailure, HandleEstablished,
     HandleRead, HandleWritten, HandleTimer, HandleIdle, HandleSignal,
     CloseSession, StoppedService, Dispatched
<1>6. CASE HookReturns
  BY <1>6 DEF HookReturns, OnBeforeReturns, OnNewReturns, OnReadReturns,
     OnSentReturns, OnTimerReturns, OnCloseReturns, OnSessionEndReturns,
     ReadOn, AcceptAnew
<1>7. CASE HookBodies
  BY <1>7 DEF HookBodies, HookThrows, HookUpdatesLive, HookSends,
     HookSendFails, HookSendsAsync, HookRestartsTimer, HookClosesSession,
     HookStopsWork, HookAsksNewAccept, CloseSession, StoppedService, InHook,
     HookPcs
<1>8. CASE Reactor
  BY <1>8 DEF Reactor, Completes, At
<1>9. CASE Gone \/ UNCHANGED vars
  BY <1>9 DEF Gone, vars
<1>10. QED
  BY <1>1, <1>2, <1>3, <1>4, <1>5, <1>6, <1>7, <1>8, <1>9 DEF Next

(* The status is IDLE, OK or that of the recorded error. *)
LEMMA StatusStep ==
    ASSUME StatusInv, [Next]_vars
    PROVE  StatusInv'
<1> USE DEF StatusInv, ownerVars, errVars, At, SetError, ResetError
<1>1. CASE OwnerCalls
  BY <1>1 DEF OwnerCalls, RunAsync, Run, JoinBegins, Reset, ShutdownBegins,
     ResetGuard
<1>2. CASE OwnerContinues
  BY <1>2 DEF OwnerContinues, RunReturns, JoinReturns, ShutdownCloses,
     ShutdownEnds, Joined
<1>3. CASE StopBegins \/ StopContinues
  BY <1>3 DEF StopBegins, StopContinues, StopResetsError, StopSetsFullStop,
     StopLocks, StopClosesSocket, StopStopsService
<1>4. CASE MainLoop
  BY <1>4 DEF MainLoop, LoopHead, OpenLog, LockForSetup, Setup,
     PostConnectionTask, IoRunReturns, LockForCleanup, Cleanup, LoopAgain,
     WorkerExits, WorkerReports, AfterIoRun, Quiet
<1>5. CASE Handlers
  <2>1. ASSUME NEW op \in Ops, NEW ec \in Codes, HandleFailure(op, ec)
        PROVE  StatusInv'
    <3>1. ErrorOf(op, ec) \notin {"APP_ERROR", "none"} /\ wpc = "run" /\ wpc' = wpc
      BY <2>1, HandlersError DEF HandleFailure, Dispatched
    <3>2. CASE ec = "aborted"
      BY <2>1, <3>1, <3>2 DEF HandleFailure
    <3>3. CASE ec # "aborted"
      BY <2>1, <3>1, <3>3 DEF HandleFailure
    <3>4. QED
      BY <3>2, <3>3
  <2>2. CASE HandleIdle \/ HandleSignal
    BY <2>2 DEF HandleIdle, HandleSignal, Dispatched
  <2>3. CASE (\E op \in Ops, ec \in Codes : HandlerReturns(op, ec))
             \/ HandleEstablished \/ HandleRead \/ HandleWritten \/ HandleTimer
    BY <2>3 DEF HandlerReturns, HandleEstablished, HandleRead, HandleWritten,
       HandleTimer, Dispatched
  <2>4. QED
    BY <1>5, <2>1, <2>2, <2>3 DEF Handlers
<1>6. CASE HookReturns
  BY <1>6 DEF HookReturns, OnBeforeReturns, OnNewReturns, OnReadReturns,
     OnSentReturns, OnTimerReturns, OnCloseReturns, OnSessionEndReturns,
     ReadOn, AcceptAnew
<1>7. CASE HookBodies
  BY <1>7 DEF HookBodies, HookThrows, HookUpdatesLive, HookSends,
     HookSendFails, HookSendsAsync, HookRestartsTimer, HookClosesSession,
     HookStopsWork, HookAsksNewAccept, InHook, HookPcs
<1>8. CASE Reactor
  BY <1>8 DEF Reactor, Completes
<1>9. CASE Gone \/ UNCHANGED vars
  BY <1>9 DEF Gone, vars
<1>10. QED
  BY <1>1, <1>2, <1>3, <1>4, <1>5, <1>6, <1>7, <1>8, <1>9 DEF Next

(* The inductive invariant holds initially ... *)
LEMMA InvInit == Init => IInv
<1> SUFFICES ASSUME Init PROVE IInv
  OBVIOUS
<1>1. TypeOK
  BY TypeInit
<1>2. MutexInv /\ OwnerInv /\ StopInv /\ HookInv
  BY DEF Init, MutexInv, OwnerInv, StopInv, StopIsNotLost, StopReturned, HookInv
<1>3. SessionHasResources /\ QuietInv /\ StatusInv /\ LifeInv
  BY DEF Init, SessionHasResources, SessionPcs, HookPcs, QuietInv, StatusInv,
     LifeInv
<1>4. QED
  BY <1>1, <1>2, <1>3 DEF IInv

(* ... and every step keeps it. *)
LEMMA InvStep == IInv /\ [Next]_vars => IInv'
<1> SUFFICES ASSUME IInv, [Next]_vars PROVE IInv'
  OBVIOUS
<1>1. TypeOK'
  BY TypeStep DEF IInv
<1>2. MutexInv' /\ OwnerInv' /\ SessionHasResources' /\ StopInv'
  BY MutexStep, OwnerStep, SessionStep, StopStep DEF IInv
<1>3. HookInv' /\ QuietInv' /\ StatusInv' /\ LifeInv'
  BY HookStep, QuietStep, StatusStep, LifeStep DEF IInv
<1>4. QED
  BY <1>1, <1>2, <1>3 DEF IInv

(* The inductive invariant holds in every state. *)
LEMMA Invariance == Spec => []IInv
  BY InvInit, InvStep, PTL DEF Spec
-----------------------------------------------------------------------------
(* Whoever has called stop() or stop_work() and closed the session leaves no  *)
(* io_service behind in which the worker could wait: main_loop() tests        *)
(* full_stop_flag again under session_resources_mutex.                        *)
THEOREM StopNotLost == Spec => []StopIsNotLost
<1>1. IInv => StopIsNotLost
  BY DEF IInv, StopInv
<1>2. QED
  BY <1>1, Invariance, PTL

(* main_loop() and the handlers never dereference a null io_service or socket. *)
THEOREM ResourcesExist == Spec => []SessionHasResources
<1>1. IInv => SessionHasResources
  BY DEF IInv
<1>2. QED
  BY <1>1, Invariance, PTL

(* run() and run_async() accept the object only when no worker, no thread     *)
(* object and no session of an earlier run is left.                           *)
THEOREM CleanIsClean == Spec => []CleanMeansNoWorker
<1>1. IInv => CleanMeansNoWorker
  BY DEF IInv, OwnerInv, CleanMeansNoWorker
<1>2. QED
  BY <1>1, Invariance, PTL

(* A worker that has left the main loop has lowered the flags of is_run(),    *)
(* is_connected() and is_live_stream(), whichever way it left.                *)
THEOREM FinishedQuiet == Spec => []FinishedIsQuiet
<1>1. IInv => FinishedIsQuiet
  BY DEF IInv, QuietInv, FinishedIsQuiet
<1>2. QED
  BY <1>1, Invariance, PTL

(* on_session_end() follows on_before_new_connection() within main_loop() for *)
(* every session that no exception ends.                                      *)
THEOREM HooksArePaired == Spec => []HooksPaired
<1>1. IInv => HooksPaired
  BY DEF IInv, HookInv, HooksPaired
<1>2. QED
  BY <1>1, Invariance, PTL

(* set_error_status(), set_ok_status() and reset_error_status() leave a status *)
(* that belongs to the recorded message.                                       *)
THEOREM StatusMatches == Spec => []StatusMatchesMessage
<1>1. IInv => StatusMatchesMessage
  BY DEF IInv, StatusInv, StatusMatchesMessage, SessionPcs, HookPcs
<1>2. QED
  BY <1>1, Invariance, PTL
-----------------------------------------------------------------------------
(* Once a stop has returned, the io_service dispatches nothing: of the hooks  *)
(* only those that end the session are entered.                               *)
THEOREM NoDataAfterAStop == Spec => NoDataAfterStop
<1>1. ASSUME IInv, [Next]_vars
      PROVE  StopReturned /\ wpc = "run" => wpc' \notin {"new", "read", "sent", "timer"}
  <2> SUFFICES ASSUME StopReturned, wpc = "run"
               PROVE  wpc' \notin {"new", "read", "sent", "timer"}
    OBVIOUS
  <2>1. io # "live" /\ ~clean
    BY <1>1 DEF IInv, StopInv, StopIsNotLost, OwnerInv
  <2> USE <2>1 DEF ownerVars, At
  <2>2. CASE OwnerCalls
    BY <2>2 DEF OwnerCalls, RunAsync, Run, JoinBegins, Reset, ShutdownBegins
  <2>3. CASE OwnerContinues
    BY <2>3 DEF OwnerContinues, RunReturns, JoinReturns, ShutdownCloses,
       ShutdownEnds
  <2>4. CASE StopBegins \/ StopContinues
    BY <2>4 DEF StopBegins, StopContinues, StopResetsError, StopSetsFullStop,
       StopLocks, StopClosesSocket, StopStopsService
  <2>5. CASE MainLoop
    BY <2>5 DEF MainLoop, LoopHead, OpenLog, LockForSetup, Setup,
       PostConnectionTask, IoRunReturns, LockForCleanup, Cleanup, LoopAgain,
       WorkerExits, WorkerReports, AfterIoRun
  <2>6. CASE Handlers
    BY <2>6 DEF Handlers, HandlerReturns, HandleFailure, HandleEstablished,
       HandleRead, HandleWritten, HandleTimer, HandleIdle, HandleSignal,
       Dispatched
  <2>7. CASE HookReturns
    BY <2>7 DEF HookReturns, OnBeforeReturns, OnNewReturns, OnReadReturns,
       OnSentReturns, OnTimerReturns, OnCloseReturns, OnSessionEndReturns
  <2>8. CASE HookBodies
    BY <2>8 DEF HookBodies, HookThrows, HookUpdatesLive, HookSends,
       HookSendFails, HookSendsAsync, HookRestartsTimer, HookClosesSession,
       HookStopsWork, HookAsksNewAccept, InHook, HookPcs
  <2>9. CASE Reactor
    BY <2>9 DEF Reactor, Completes
  <2>10. CASE Gone \/ UNCHANGED vars
    BY <2>10 DEF Gone, vars
  <2>11. QED
    BY <1>1, <2>2, <2>3, <2>4, <2>5, <2>6, <2>7, <2>8, <2>9, <2>10 DEF Next
<1>2. QED
  BY <1>1, Invariance, PTL DEF Spec, NoDataAfterStop

(* No io_service is created for a worker that was stopped, until reset(). *)
THEOREM StopsStick == Spec => StopSticks
<1>1. ASSUME IInv, [Next]_vars
      PROVE  StopReturned /\ StopReturned' => io' \in {io, "none"}
  <2> SUFFICES ASSUME StopReturned
               PROVE  io' \in {io, "none"}
    OBVIOUS
  <2>1. io # "live" /\ wpc # "setup"
    BY <1>1 DEF IInv, StopInv, StopIsNotLost
  <2> USE <2>1 DEF resVars, At, StoppedService, CloseSession
  <2>2. CASE OwnerCalls
    BY <2>2 DEF OwnerCalls, RunAsync, Run, JoinBegins, Reset, ShutdownBegins
  <2>3. CASE OwnerContinues
    BY <2>3 DEF OwnerContinues, RunReturns, JoinReturns, ShutdownCloses,
       ShutdownEnds
  <2>4. CASE StopBegins \/ StopContinues
    BY <2>4 DEF StopBegins, StopContinues, StopResetsError, StopSetsFullStop,
       StopLocks, StopClosesSocket, StopStopsService
  <2>5. CASE MainLoop
    BY <2>5 DEF MainLoop, LoopHead, OpenLog, LockForSetup, Setup,
       PostConnectionTask, IoRunReturns, LockForCleanup, Cleanup, LoopAgain,
       WorkerExits, WorkerReports
  <2>6. CASE Handlers
    BY <2>6 DEF Handlers, HandlerReturns, HandleFailure, HandleEstablished,
       HandleRead, HandleWritten, HandleTimer, HandleIdle, HandleSignal
  <2>7. CASE HookReturns
    BY <2>7 DEF HookReturns, OnBeforeReturns, OnNewReturns, OnReadReturns,
       OnSentReturns, OnTimerReturns, OnCloseReturns, OnSessionEndReturns,
       ReadOn, AcceptAnew
  <2>8. CASE HookBodies
    BY <2>8 DEF HookBodies, HookThrows, HookUpdatesLive, HookSends,
       HookSendFails, HookSendsAsync, HookRestartsTimer, HookClosesSession,
       HookStopsWork, HookAsksNewAccept
  <2>9. CASE Reactor
    BY <2>9 DEF Reactor, Completes
  <2>10. CASE Gone \/ UNCHANGED vars
    BY <2>10 DEF Gone, vars
  <2>11. QED
    BY <1>1, <2>2, <2>3, <2>4, <2>5, <2>6, <2>7, <2>8, <2>9, <2>10 DEF Next
<1>2. QED
  BY <1>1, Invariance, PTL DEF Spec, StopSticks
-----------------------------------------------------------------------------
(* NetworkConnection starts as ConnectionLifecycle does ... *)
LEMMA LifecycleInit == Init => Lifecycle!Init
  BY DEF Init, Lifecycle!Init, lifeBar, sessionBar, StopInEffect, OverPcs,
     SessionPcs, HookPcs

(* ... the steps that change nothing it sees ... *)
LEMMA LifecycleStutters ==
    ASSUME IInv,
           \/ JoinBegins \/ JoinReturns \/ RunReturns
           \/ StopResetsError \/ StopLocks \/ StopClosesSocket
           \/ LoopHead \/ LockForSetup \/ OnBeforeReturns \/ IoRunReturns
           \/ LockForCleanup \/ LoopAgain \/ WorkerReports
           \/ OnSessionEndReturns \/ OnNewReturns \/ OnReadReturns
           \/ OnSentReturns \/ OnTimerReturns
           \/ (\E op \in Ops, ec \in Codes : HandlerReturns(op, ec))
           \/ HandleRead \/ HandleWritten \/ HandleTimer
           \/ HookUpdatesLive \/ HookSends \/ HookSendsAsync \/ HookRestartsTimer
           \/ HookAsksNewAccept \/ Reactor \/ Gone \/ UNCHANGED vars
    PROVE  UNCHANGED Lifecycle!vars
<1> USE DEF IInv, ownerVars, runVars, stopVars, resVars, At, InHook, HookPcs,
    SessionPcs, OverPcs, lifeBar, sessionBar, StopInEffect, Lifecycle!vars
<1>1. CASE JoinBegins \/ JoinReturns \/ RunReturns
  BY <1>1 DEF JoinBegins, JoinReturns, RunReturns, OwnerInv
<1>2. CASE StopResetsError \/ StopLocks \/ StopClosesSocket
  BY <1>2 DEF StopResetsError, StopLocks, StopClosesSocket
<1>3. CASE LoopHead \/ LockForSetup \/ LoopAgain \/ WorkerReports
  BY <1>3 DEF LoopHead, LockForSetup, LoopAgain, WorkerReports, StopSeenUnderLock
<1>4. CASE OnBeforeReturns \/ IoRunReturns \/ LockForCleanup \/ OnSessionEndReturns
  BY <1>4 DEF OnBeforeReturns, IoRunReturns, LockForCleanup, OnSessionEndReturns,
     AfterIoRun
<1>5. CASE OnNewReturns \/ OnReadReturns \/ OnSentReturns \/ OnTimerReturns
  BY <1>5 DEF OnNewReturns, OnReadReturns, OnSentReturns, OnTimerReturns
<1>6. CASE (\E op \in Ops, ec \in Codes : HandlerReturns(op, ec))
           \/ HandleRead \/ HandleWritten \/ HandleTimer
  BY <1>6 DEF HandlerReturns, HandleRead, HandleWritten, HandleTimer, Dispatched
<1>7. CASE HookUpdatesLive \/ HookSends \/ HookSendsAsync \/ HookRestartsTimer
           \/ HookAsksNewAccept
  BY <1>7 DEF HookUpdatesLive, HookSends, HookSendsAsync, HookRestartsTimer,
     HookAsksNewAccept
<1>8. CASE Reactor \/ Gone \/ UNCHANGED vars
  BY <1>8 DEF Reactor, Completes, Gone, vars
<1>9. QED
  BY <1>1, <1>2, <1>3, <1>4, <1>5, <1>6, <1>7, <1>8

(* ... those by which a stop takes effect, or has done so already ... *)
LEMMA LifecycleStops ==
    ASSUME IInv,
           \/ ShutdownBegins \/ ShutdownCloses \/ StopSetsFullStop
           \/ StopStopsService
           \/ (\E op \in Ops, ec \in Codes : HandleFailure(op, ec))
           \/ HandleIdle \/ HandleSignal \/ HookSendFails \/ HookClosesSession
           \/ HookStopsWork
    PROVE  Lifecycle!StopTakesEffect \/ UNCHANGED Lifecycle!vars
<1>1. fullStop \in BOOLEAN
  BY DEF IInv, TypeOK, ControlTypeOK
<1>2. /\ lifeBar' = lifeBar /\ sessionBar' = sessionBar
      /\ conf'.reconnect = conf.reconnect
  <2> USE DEF ownerVars, runVars, lifeBar, sessionBar, HookPcs, SessionPcs, OverPcs
  <2>1. CASE ShutdownBegins \/ ShutdownCloses
    BY <2>1 DEF ShutdownBegins, ShutdownCloses
  <2>2. CASE StopSetsFullStop \/ StopStopsService
    BY <2>2 DEF StopSetsFullStop, StopStopsService
  <2>3. CASE (\E op \in Ops, ec \in Codes : HandleFailure(op, ec))
             \/ HandleIdle \/ HandleSignal
    BY <2>3 DEF HandleFailure, HandleIdle, HandleSignal
  <2>4. CASE HookSendFails \/ HookClosesSession \/ HookStopsWork
    BY <2>4 DEF HookSendFails, HookClosesSession, HookStopsWork
  <2>5. QED
    BY <2>1, <2>2, <2>3, <2>4
<1>3. StopInEffect => StopInEffect'
  <2> USE DEF StopInEffect, StoppedService, CloseSession, stopVars, resVars
  <2>1. CASE ShutdownBegins \/ ShutdownCloses
    BY <2>1 DEF ShutdownBegins, ShutdownCloses
  <2>2. CASE StopSetsFullStop \/ StopStopsService
    BY <2>2 DEF StopSetsFullStop, StopStopsService
  <2>3. CASE (\E op \in Ops, ec \in Codes : HandleFailure(op, ec))
             \/ HandleIdle \/ HandleSignal
    BY <2>3 DEF HandleFailure, HandleIdle, HandleSignal
  <2>4. CASE HookSendFails \/ HookClosesSession \/ HookStopsWork
    BY <2>4 DEF HookSendFails, HookClosesSession, HookStopsWork
  <2>5. QED
    BY <2>1, <2>2, <2>3, <2>4
<1>4. CASE StopInEffect'
  BY <1>2, <1>4 DEF Lifecycle!StopTakesEffect
<1>5. CASE ~StopInEffect'
  BY <1>2, <1>3, <1>5 DEF Lifecycle!vars, StopInEffect
<1>6. QED
  BY <1>4, <1>5

(* ... and each of the others is a step of its own there. *)
LEMMA LifecycleMoves ==
    ASSUME IInv,
           \/ Run \/ RunAsync \/ Setup \/ HandleEstablished \/ OnCloseReturns
           \/ Cleanup \/ WorkerExits \/ OpenLog \/ PostConnectionTask
           \/ HookThrows \/ StopBegins \/ Reset \/ ShutdownEnds
    PROVE  Lifecycle!Next \/ UNCHANGED Lifecycle!vars
<1> USE DEF IInv, ownerVars, runVars, stopVars, resVars, At, HookPcs, SessionPcs,
    OverPcs, lifeBar, sessionBar, StopInEffect
<1>1. CASE Run \/ RunAsync
  <2>1. Lifecycle!Start
    BY <1>1 DEF Run, RunAsync, Lifecycle!Start, OwnerInv
  <2>2. QED
    BY <2>1 DEF Lifecycle!Next
<1>2. CASE Setup
  <2>1. Lifecycle!BeginSession
    BY <1>2 DEF Setup, Lifecycle!BeginSession, OwnerInv, LifeInv
  <2>2. QED
    BY <2>1 DEF Lifecycle!Next
<1>3. CASE HandleEstablished
  <2>1. Lifecycle!Connect \/ UNCHANGED Lifecycle!vars
    BY <1>3 DEF HandleEstablished, Dispatched, Lifecycle!Connect, Lifecycle!vars
  <2>2. QED
    BY <2>1 DEF Lifecycle!Next
<1>4. CASE OnCloseReturns
  <2>1. Lifecycle!Disconnect \/ UNCHANGED Lifecycle!vars
    BY <1>4 DEF OnCloseReturns, Lifecycle!Disconnect, Lifecycle!vars
  <2>2. QED
    BY <2>1 DEF Lifecycle!Next
<1>5. CASE Cleanup
  <2>1. Lifecycle!EndSession
    BY <1>5 DEF Cleanup, Lifecycle!EndSession, LifeInv
  <2>2. QED
    BY <2>1 DEF Lifecycle!Next
<1>6. CASE WorkerExits
  <2>1. Lifecycle!Finish \/ UNCHANGED Lifecycle!vars
    BY <1>6 DEF WorkerExits, Lifecycle!Finish, Lifecycle!vars, OwnerInv, LifeInv
  <2>2. QED
    BY <2>1 DEF Lifecycle!Next
<1>7. CASE OpenLog \/ PostConnectionTask \/ HookThrows
  <2>1. Lifecycle!Abort \/ UNCHANGED Lifecycle!vars
    BY <1>7 DEF OpenLog, PostConnectionTask, HookThrows, InHook, Lifecycle!Abort,
       Lifecycle!vars, OwnerInv, LifeInv
  <2>2. QED
    BY <2>1 DEF Lifecycle!Next
<1>8. CASE StopBegins
  <2>1. Lifecycle!Withdraw \/ UNCHANGED Lifecycle!vars
    BY <1>8 DEF StopBegins, Lifecycle!Withdraw, Lifecycle!vars, OwnerInv
  <2>2. QED
    BY <2>1 DEF Lifecycle!Next
<1>9. CASE Reset
  <2>1. Lifecycle!Reset
    BY <1>9 DEF Reset, ResetGuard, Lifecycle!Reset, OwnerInv
  <2>2. QED
    BY <2>1 DEF Lifecycle!Next
<1>10. CASE ShutdownEnds
  <2>1. Lifecycle!Destroy
    BY <1>10 DEF ShutdownEnds, Joined, Lifecycle!Destroy, OwnerInv, LifeInv
  <2>2. QED
    BY <2>1 DEF Lifecycle!Next
<1>11. QED
  BY <1>1, <1>2, <1>3, <1>4, <1>5, <1>6, <1>7, <1>8, <1>9, <1>10

(* Every step of the threads, handlers and hooks is one the life cycle that   *)
(* the header promises allows, or is invisible in it.                         *)
THEOREM Refinement == Spec => Lifecycle!Init /\ [][Lifecycle!Next]_(Lifecycle!vars)
<1>1. IInv /\ [Next]_vars => [Lifecycle!Next]_(Lifecycle!vars)
  <2> SUFFICES ASSUME IInv, [Next]_vars
               PROVE  Lifecycle!Next \/ UNCHANGED Lifecycle!vars
    OBVIOUS
  <2>1. CASE OwnerCalls \/ OwnerContinues
    BY <2>1, LifecycleStutters, LifecycleStops, LifecycleMoves
       DEF OwnerCalls, OwnerContinues, Lifecycle!Next
  <2>2. CASE StopBegins \/ StopContinues
    BY <2>2, LifecycleStutters, LifecycleStops, LifecycleMoves
       DEF StopContinues, Lifecycle!Next
  <2>3. CASE MainLoop
    BY <2>3, LifecycleStutters, LifecycleMoves DEF MainLoop
  <2>4. CASE Handlers
    BY <2>4, LifecycleStutters, LifecycleStops, LifecycleMoves
       DEF Handlers, Lifecycle!Next
  <2>5. CASE HookReturns
    BY <2>5, LifecycleStutters, LifecycleMoves DEF HookReturns
  <2>6. CASE HookBodies
    BY <2>6, LifecycleStutters, LifecycleStops, LifecycleMoves
       DEF HookBodies, Lifecycle!Next
  <2>7. CASE Reactor \/ Gone \/ UNCHANGED vars
    BY <2>7, LifecycleStutters
  <2>8. QED
    BY <2>1, <2>2, <2>3, <2>4, <2>5, <2>6, <2>7 DEF Next
<1>2. QED
  BY <1>1, LifecycleInit, Invariance, PTL DEF Spec
=============================================================================
