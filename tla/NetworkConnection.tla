-------------------------- MODULE NetworkConnection --------------------------
(***************************************************************************)
(* The class NetworkConnection (network/network-connection.cpp, .hpp): one *)
(* TCP connection, as a client or as a host that accepts one client, driven*)
(* by a boost::asio::io_service in a worker thread.                        *)
(*                                                                         *)
(* Three threads meet in an object:                                        *)
(*   - the owner constructs it, calls run() or run_async(), join(), reset()*)
(*     and, in the destructor, shutdown();                                 *)
(*   - the worker executes main_loop(), and in io_service::run() the       *)
(*     handlers and the hooks the derived class overrides;                 *)
(*   - any other thread calls stop().                                      *)
(* Each has a program counter: opc, wpc, cpc.  A step of a thread is a     *)
(* piece of code no other thread can tell from an atomic one.              *)
(*                                                                         *)
(* Abstracted: payload bytes and buffers, time stamps (possible_need_      *)
(* restart, the 45 s of is_live_stream), the raw log's contents and the    *)
(* list of user timers (one timer stands for all; AsioTimer's list is not  *)
(* here).  idle_flag is written wherever is_run_flag is, with the opposite *)
(* value, so isRun stands for both.                                        *)
(***************************************************************************)
EXTENDS Naturals, FiniteSets

CONSTANTS
    CONFIGS,            \* the settings an object may be given before it runs
    HOOK_ACTS,          \* what the derived class's hooks may do
    SIGNAL_STOP         \* stop() runs in a signal handler that interrupts the worker

(* host: the constructor taking only a port; reconnect, signals, idle, log:*)
(* set_reconnection_mode, set_handle_signals_mode, set_timeout(non-zero),  *)
(* set_raw_log_file(non-empty).                                            *)
Configs == [host : BOOLEAN, reconnect : BOOLEAN, signals : BOOLEAN,
            idle : BOOLEAN, log : BOOLEAN]

HookActs == {"throw", "live", "send", "asyncSend", "timer", "close", "stop",
             "newAccept", "noBuffer"}

ASSUME ConfigsAssumption == CONFIGS \subseteq Configs /\ CONFIGS # {}
ASSUME HookActsAssumption == HOOK_ACTS \subseteq HookActs
ASSUME SignalStopAssumption == SIGNAL_STOP \in BOOLEAN

VARIABLES
    conf,           \* the object's settings
    opc, wpc, cpc,  \* program counters of the owner, the worker and stop()'s caller
    lock,           \* session_resources_mutex: "free" or its holder
    thread,         \* async_thread is not null
    clean,          \* is_clean_to_run
    isRun,          \* is_run_flag
    isConnected,    \* is_connected_flag
    live,           \* live_flag
    newAccept,      \* new_accept_flag
    fullStop,       \* full_stop_flag
    sessionStop,    \* session_stop_flag
    errMsg,         \* error_message and error_flag: the error that was recorded
    errStatus,      \* error_status
    io,             \* io_service: "none" | "live" | "stopped"
    sock,           \* socket: "none" | "closed" | "open"
    pend,           \* operations the io_service waits for
    ready,          \* completed operations whose handlers are queued
    hookOpen        \* history: on_before_new_connection() has returned and
                    \* on_session_end() has not

ownerVars == <<opc, thread, clean>>
runVars == <<isRun, isConnected, live, hookOpen>>
stopVars == <<fullStop, sessionStop>>
errVars == <<errMsg, errStatus>>
resVars == <<io, sock, pend, ready>>
vars == <<conf, opc, wpc, cpc, lock, thread, clean, isRun, isConnected, live,
          newAccept, fullStop, sessionStop, errMsg, errStatus, io, sock, pend,
          ready, hookOpen>>

Errors == {"IO_ERROR", "CONNECT_ERROR", "CONNECT_ABORT", "CONNECT_TIMEOUT",
           "SIGNAL_ERROR", "APP_ERROR"}
ErrorStatus == Errors \cup {"OK", "IDLE"}

SocketOps == {"estab", "read", "write"}     \* "estab": async_accept, async_connect
Ops == SocketOps \cup {"timer", "idle", "signal"}
Codes == {"ok", "fail", "reset", "aborted"}
Completions == [op : Ops, ec : Codes]
Done(op, ec) == [op |-> op, ec |-> ec]

(* Points at which the worker is inside a hook of the derived class. *)
HookPcs == {"before", "new", "read", "sent", "timer", "close", "end"}
(* Between setup_session_resources() and cleanup_session_resources(). *)
SessionPcs == {"post", "run", "cleanup", "cleaning"} \cup HookPcs
WorkerPcs == SessionPcs \cup {"absent", "loop", "open", "lock", "setup", "again",
                              "exit", "threw", "report", "finished"}

OwnerPcs == {"out", "inRun", "joining", "closing", "shutJoin", "gone"}
StopPcs == {"out", "err", "full", "lock", "sock", "io"}

PcTypeOK == opc \in OwnerPcs /\ wpc \in WorkerPcs /\ cpc \in StopPcs

ControlTypeOK ==
    /\ lock \in {"free", "worker", "stop"}
    /\ thread \in BOOLEAN /\ clean \in BOOLEAN
    /\ fullStop \in BOOLEAN /\ sessionStop \in BOOLEAN

RunTypeOK ==
    /\ isRun \in BOOLEAN /\ isConnected \in BOOLEAN /\ live \in BOOLEAN
    /\ newAccept \in BOOLEAN /\ hookOpen \in BOOLEAN

ErrTypeOK == errMsg \in Errors \cup {"none"} /\ errStatus \in ErrorStatus

ResTypeOK ==
    /\ io \in {"none", "live", "stopped"}
    /\ sock \in {"none", "closed", "open"}
    /\ pend \subseteq Ops
    /\ ready \subseteq Completions

TypeOK ==
    /\ conf \in CONFIGS
    /\ PcTypeOK /\ ControlTypeOK /\ RunTypeOK /\ ErrTypeOK /\ ResTypeOK

(* The host's constructor leaves new_accept_flag unset, the client's leaves  *)
(* error_status unset: each may hold anything.                               *)
Init ==
    /\ conf \in CONFIGS
    /\ opc = "out" /\ wpc = "absent" /\ cpc = "out"
    /\ lock = "free"
    /\ thread = FALSE /\ clean = TRUE
    /\ isRun = FALSE /\ isConnected = FALSE /\ live = FALSE /\ hookOpen = FALSE
    /\ newAccept \in (IF conf.host THEN BOOLEAN ELSE {FALSE})
    /\ fullStop = FALSE /\ sessionStop = FALSE
    /\ errMsg = "none"
    /\ errStatus \in (IF conf.host THEN {"IDLE"} ELSE ErrorStatus)
    /\ io = "none" /\ sock = "none"
    /\ pend = {} /\ ready = {}
-----------------------------------------------------------------------------
(*                      Pieces the threads have in common                    *)

(* set_error_status(): the first error since the last reset is kept; APP_ERROR *)
(* replaces only OK and IDLE.                                                  *)
SetError(s) ==
    IF errMsg # "none" THEN UNCHANGED errVars
    ELSE /\ errMsg' = s
         /\ errStatus' = IF s # "APP_ERROR" \/ errStatus \in {"OK", "IDLE"}
                         THEN s ELSE errStatus

MutantResetError == errMsg' = "none" /\ UNCHANGED errStatus

(* reset_error_status() *)
ResetError == errMsg' = "none" /\ errStatus' = "IDLE"

MutantStoppedService == io

(* io_service::stop(), if there is one that runs.  Handlers of a stopped      *)
(* io_service are never called, so they are forgotten.                        *)
StoppedService == IF io = "live" THEN "stopped" ELSE io
Queued(ops) == IF StoppedService = "live" THEN ops ELSE {}

(* close_current_session(), for a caller that holds the mutex throughout.    *)
CloseSession ==
    /\ lock = "free"
    /\ sessionStop' = TRUE
    /\ sock' = IF sock = "open" THEN "closed" ELSE sock
    /\ io' = StoppedService
    /\ pend' = Queued(pend) /\ ready' = Queued(ready)

(* Asynchronous operations on the socket fail at once if it is not open.     *)
StartedOn(ops) == IF sock = "open" THEN ops ELSE {}
FailedOn(ops) == IF sock = "open" THEN {} ELSE {Done(op, "fail") : op \in ops}

(* restart_iddle_timer(): a wait in progress is aborted and begins again; an *)
(* expiry that is already queued stays queued.                               *)
IdleStarted == IF conf.idle THEN {"idle"} ELSE {}
IdleAborted == {Done(op, "aborted") : op \in pend \cap IdleStarted}

(* While stop() runs as a signal handler on the worker's thread, the worker  *)
(* does not move.                                                            *)
At(p) == wpc = p /\ (SIGNAL_STOP => cpc = "out")
InHook == wpc \in HookPcs /\ (SIGNAL_STOP => cpc = "out")
-----------------------------------------------------------------------------
(*                              The owner                                    *)

(* Both throw if the object is not clean.  The signal mode is not used with  *)
(* run_async(), as the header asks.                                          *)
RunAsync ==
    /\ opc = "out" /\ clean /\ ~conf.signals
    /\ clean' = FALSE /\ isRun' = TRUE
    /\ thread' = TRUE /\ wpc' = "loop"
    /\ UNCHANGED <<conf, opc, cpc, lock, isConnected, live, newAccept, stopVars,
                   errVars, resVars, hookOpen>>

Run ==
    /\ opc = "out" /\ clean
    /\ clean' = FALSE /\ isRun' = TRUE
    /\ opc' = "inRun" /\ wpc' = "loop"
    /\ UNCHANGED <<conf, cpc, lock, thread, isConnected, live, newAccept, stopVars,
                   errVars, resVars, hookOpen>>

RunReturns ==
    /\ opc = "inRun" /\ wpc = "finished"
    /\ opc' = "out" /\ wpc' = "absent"
    /\ UNCHANGED <<conf, cpc, lock, thread, clean, runVars, newAccept, stopVars,
                   errVars, resVars>>

JoinBegins ==
    /\ opc = "out" /\ thread
    /\ opc' = "joining"
    /\ UNCHANGED <<conf, wpc, cpc, lock, thread, clean, runVars, newAccept,
                   stopVars, errVars, resVars>>

JoinReturns ==
    /\ opc = "joining" /\ wpc = "finished"
    /\ opc' = "out" /\ wpc' = "absent" /\ thread' = FALSE
    /\ UNCHANGED <<conf, cpc, lock, clean, runVars, newAccept, stopVars, errVars,
                   resVars>>

MutantResetGuard == opc = "out"

(* reset() throws while the thread object exists. *)
ResetGuard == opc = "out" /\ ~thread

(* reset() and its cleanup_session_resources() take no mutex: the application *)
(* must not let them overlap a stop().                                        *)
Reset ==
    /\ ResetGuard
    /\ cpc = "out"
    /\ ResetError
    /\ fullStop' = FALSE /\ sessionStop' = FALSE
    /\ isRun' = FALSE /\ isConnected' = FALSE /\ live' = FALSE /\ hookOpen' = FALSE
    /\ io' = "none" /\ sock' = "none" /\ pend' = {} /\ ready' = {}
    /\ clean' = TRUE
    /\ UNCHANGED <<conf, opc, wpc, cpc, lock, thread, newAccept>>

MutantJoined == TRUE

Joined == thread => wpc = "finished"

(* shutdown(), called by the destructors: stop_work(), join, release. *)
ShutdownBegins ==
    /\ opc = "out" /\ cpc = "out"
    /\ opc' = "closing"
    /\ live' = FALSE /\ fullStop' = TRUE
    /\ UNCHANGED <<conf, wpc, cpc, lock, thread, clean, isRun, isConnected,
                   newAccept, sessionStop, errVars, resVars, hookOpen>>

ShutdownCloses ==
    /\ opc = "closing"
    /\ CloseSession
    /\ opc' = "shutJoin"
    /\ UNCHANGED <<conf, wpc, cpc, lock, thread, clean, runVars, newAccept,
                   fullStop, errVars>>

ShutdownEnds ==
    /\ opc = "shutJoin"
    /\ Joined
    /\ opc' = "gone" /\ wpc' = "absent" /\ thread' = FALSE
    /\ io' = "none" /\ sock' = "none" /\ pend' = {} /\ ready' = {}
    /\ UNCHANGED <<conf, cpc, lock, clean, runVars, newAccept, stopVars, errVars>>

OwnerCalls == RunAsync \/ Run \/ JoinBegins \/ Reset \/ ShutdownBegins
OwnerContinues == RunReturns \/ JoinReturns \/ ShutdownCloses \/ ShutdownEnds
-----------------------------------------------------------------------------
(*                    stop(), called by another thread                       *)

(* start_flag is cleared here too. *)
StopBegins ==
    /\ cpc = "out" /\ opc \in {"out", "inRun", "joining"}
    /\ SIGNAL_STOP => thread /\ wpc # "finished"
    /\ cpc' = "err"
    /\ clean' = FALSE
    /\ UNCHANGED <<conf, opc, wpc, lock, thread, runVars, newAccept, stopVars,
                   errVars, resVars>>

StopResetsError ==
    /\ cpc = "err"
    /\ cpc' = "full"
    /\ ResetError
    /\ UNCHANGED <<conf, wpc, lock, ownerVars, runVars, newAccept, stopVars, resVars>>

StopSetsFullStop ==
    /\ cpc = "full"
    /\ cpc' = "lock"
    /\ fullStop' = TRUE
    /\ UNCHANGED <<conf, wpc, lock, ownerVars, runVars, newAccept, sessionStop,
                   errVars, resVars>>

(* close_current_session(), step by step: the worker runs on meanwhile and   *)
(* may see the aborted operations before the io_service is stopped.          *)
StopLocks ==
    /\ cpc = "lock" /\ lock = "free"
    /\ cpc' = "sock" /\ lock' = "stop"
    /\ sessionStop' = TRUE
    /\ pend' = pend \ {"timer"}
    /\ ready' = ready \cup {Done(op, "aborted") : op \in pend \cap {"timer"}}
    /\ UNCHANGED <<conf, wpc, ownerVars, runVars, newAccept, fullStop, errVars,
                   io, sock>>

(* Closing the socket aborts its operations; async_accept is the acceptor's. *)
StopClosesSocket ==
    /\ cpc = "sock"
    /\ cpc' = "io"
    /\ IF sock = "open"
       THEN LET own == SocketOps \ (IF conf.host THEN {"estab"} ELSE {})
            IN  /\ sock' = "closed"
                /\ pend' = pend \ own
                /\ ready' = ready \cup {Done(op, "aborted") : op \in pend \cap own}
       ELSE UNCHANGED <<sock, pend, ready>>
    /\ UNCHANGED <<conf, wpc, lock, ownerVars, runVars, newAccept, stopVars,
                   errVars, io>>

StopStopsService ==
    /\ cpc = "io"
    /\ cpc' = "out" /\ lock' = "free"
    /\ io' = StoppedService
    /\ pend' = Queued(pend) /\ ready' = Queued(ready)
    /\ UNCHANGED <<conf, wpc, ownerVars, runVars, newAccept, stopVars, errVars, sock>>

StopContinues == StopResetsError \/ StopSetsFullStop \/ StopLocks
                 \/ StopClosesSocket \/ StopStopsService
-----------------------------------------------------------------------------
(*                       The worker: main_loop()                             *)

LoopHead ==
    /\ At("loop")
    /\ wpc' = IF fullStop THEN "exit" ELSE "open"
    /\ UNCHANGED <<conf, cpc, lock, ownerVars, runVars, newAccept, stopVars,
                   errVars, resVars>>

(* reset_error_status(); open_log_file() throws if the file cannot be opened. *)
OpenLog ==
    /\ At("open")
    /\ ResetError
    /\ \/ wpc' = "lock"
       \/ conf.log /\ wpc' = "threw"
    /\ UNCHANGED <<conf, cpc, lock, ownerVars, runVars, newAccept, stopVars, resVars>>

MutantStopSeenUnderLock == FALSE

(* The second look at full_stop_flag, under the mutex. *)
StopSeenUnderLock == fullStop

MutantLockAfterBreak == "worker"

LockAfterBreak == "free"

LockForSetup ==
    /\ At("lock") /\ lock = "free"
    /\ IF StopSeenUnderLock THEN wpc' = "exit" /\ lock' = LockAfterBreak
                            ELSE wpc' = "setup" /\ lock' = "worker"
    /\ UNCHANGED <<conf, cpc, ownerVars, runVars, newAccept, stopVars, errVars,
                   resVars>>

MutantSocketOfSession == IF conf.host THEN "none" ELSE "closed"

SocketOfSession == "closed"

(* setup_session_resources() *)
Setup ==
    /\ At("setup")
    /\ wpc' = "post" /\ lock' = "free"
    /\ sessionStop' = FALSE /\ isConnected' = FALSE
    /\ io' = "live" /\ sock' = SocketOfSession
    /\ pend' = IF conf.signals THEN {"signal"} ELSE {}
    /\ ready' = {}
    /\ UNCHANGED <<conf, cpc, ownerVars, isRun, live, newAccept, fullStop, errVars,
                   hookOpen>>

(* post_connection_task_to_io_service(): binding the acceptor, or reading the *)
(* remote address, may throw.                                                 *)
PostConnectionTask ==
    /\ At("post")
    /\ \/ /\ wpc' = "before"
          /\ pend' = pend \cup {"estab"}
          /\ sock' = IF conf.host THEN sock ELSE "open"
       \/ /\ wpc' = "threw"
          /\ UNCHANGED <<pend, sock>>
    /\ UNCHANGED <<conf, cpc, lock, ownerVars, runVars, newAccept, stopVars,
                   errVars, io, ready>>

OnBeforeReturns ==
    /\ At("before")
    /\ wpc' = "run" /\ hookOpen' = TRUE
    /\ UNCHANGED <<conf, cpc, lock, ownerVars, isRun, isConnected, live, newAccept,
                   stopVars, errVars, resVars>>

MutantAfterIoRun == IF isConnected THEN "close" ELSE "cleanup"

(* on_close_connection() only if there was a connection, on_session_end() always *)
AfterIoRun == IF isConnected THEN "close" ELSE "end"

(* io_service::run() returns when it is stopped or has nothing to wait for. *)
IoRunReturns ==
    /\ At("run")
    /\ io = "stopped" \/ (pend = {} /\ ready = {})
    /\ wpc' = AfterIoRun
    /\ UNCHANGED <<conf, cpc, lock, ownerVars, runVars, newAccept, stopVars,
                   errVars, resVars>>

OnCloseReturns ==
    /\ At("close")
    /\ wpc' = "end" /\ isConnected' = FALSE
    /\ UNCHANGED <<conf, cpc, lock, ownerVars, isRun, live, newAccept, stopVars,
                   errVars, resVars, hookOpen>>

OnSessionEndReturns ==
    /\ At("end")
    /\ wpc' = "cleanup" /\ hookOpen' = FALSE
    /\ UNCHANGED <<conf, cpc, lock, ownerVars, isRun, isConnected, live, newAccept,
                   stopVars, errVars, resVars>>

LockForCleanup ==
    /\ At("cleanup") /\ lock = "free"
    /\ wpc' = "cleaning" /\ lock' = "worker"
    /\ UNCHANGED <<conf, cpc, ownerVars, runVars, newAccept, stopVars, errVars,
                   resVars>>

(* cleanup_session_resources() *)
Cleanup ==
    /\ At("cleaning")
    /\ wpc' = "again" /\ lock' = "free"
    /\ sessionStop' = FALSE /\ isConnected' = FALSE /\ live' = FALSE
    /\ io' = "none" /\ sock' = "none" /\ pend' = {} /\ ready' = {}
    /\ UNCHANGED <<conf, cpc, ownerVars, isRun, newAccept, fullStop, errVars, hookOpen>>

MutantLoopEnds == TRUE

LoopEnds == ~conf.reconnect \/ fullStop

(* Then the pause of CPU_PREVENT_OVERLOAD_TIMEOUT_MS. *)
LoopAgain ==
    /\ At("again")
    /\ wpc' = IF LoopEnds THEN "exit" ELSE "loop"
    /\ UNCHANGED <<conf, cpc, lock, ownerVars, runVars, newAccept, stopVars,
                   errVars, resVars>>

MutantQuiet == isRun' = FALSE /\ UNCHANGED <<isConnected, live>>

Quiet == isRun' = FALSE /\ isConnected' = FALSE /\ live' = FALSE

(* The tail of run() and async_loop(): the normal end, and the catch blocks,  *)
(* which record the exception after the flags are down.                       *)
WorkerExits ==
    /\ At("exit") \/ At("threw")
    /\ wpc' = IF wpc = "exit" THEN "finished" ELSE "report"
    /\ Quiet
    /\ UNCHANGED <<conf, cpc, lock, ownerVars, newAccept, stopVars, errVars,
                   resVars, hookOpen>>

WorkerReports ==
    /\ At("report")
    /\ wpc' = "finished"
    /\ SetError("APP_ERROR")
    /\ UNCHANGED <<conf, cpc, lock, ownerVars, runVars, newAccept, stopVars, resVars>>

MainLoop ==
    \/ LoopHead \/ OpenLog \/ LockForSetup \/ Setup \/ PostConnectionTask
    \/ IoRunReturns \/ LockForCleanup \/ Cleanup \/ LoopAgain
    \/ WorkerExits \/ WorkerReports
-----------------------------------------------------------------------------
(*                 The worker inside io_service::run()                       *)

(* The reactor, external to the repository: an operation it waits for ends,  *)
(* the code depending on the operation.                                      *)
Results(op) == CASE op = "estab" -> {"ok", "fail"}
                 [] op \in {"read", "write"} -> {"ok", "fail", "reset"}
                 [] OTHER -> {"ok"}

Completes(op, ec) ==
    /\ At("run") /\ io = "live"
    /\ op \in pend /\ ec \in Results(op)
    /\ pend' = pend \ {op}
    /\ ready' = ready \cup {Done(op, ec)}
    /\ sock' = IF op = "estab" /\ ec = "ok" THEN "open" ELSE sock
    /\ UNCHANGED <<conf, wpc, cpc, lock, ownerVars, runVars, newAccept, stopVars,
                   errVars, io>>

Dispatched(op, ec) == At("run") /\ io = "live" /\ Done(op, ec) \in ready

(* A handler that finds nothing to do: a cancelled timer, or a success seen   *)
(* after session_stop_flag was set.                                           *)
HandlerReturns(op, ec) ==
    /\ Dispatched(op, ec)
    /\ \/ ec = "aborted" /\ op \in {"timer", "idle", "signal"}
       \/ ec = "ok" /\ op \in SocketOps /\ sessionStop
    /\ ready' = ready \ {Done(op, ec)}
    /\ UNCHANGED <<conf, wpc, cpc, lock, ownerVars, runVars, newAccept, stopVars,
                   errVars, io, sock, pend>>

(* asio_accept_handler() and asio_connect_handler(), up to the hook. *)
HandleEstablished ==
    /\ Dispatched("estab", "ok") /\ ~sessionStop
    /\ ready' = ready \ {Done("estab", "ok")}
    /\ wpc' = "new" /\ isConnected' = TRUE
    /\ UNCHANGED <<conf, cpc, lock, ownerVars, isRun, live, newAccept, stopVars,
                   errVars, io, sock, pend, hookOpen>>

HandleRead ==
    /\ Dispatched("read", "ok") /\ ~sessionStop
    /\ ready' = ready \ {Done("read", "ok")}
    /\ wpc' = "read"
    /\ UNCHANGED <<conf, cpc, lock, ownerVars, runVars, newAccept, stopVars,
                   errVars, io, sock, pend>>

HandleWritten ==
    /\ Dispatched("write", "ok") /\ ~sessionStop
    /\ ready' = (ready \ {Done("write", "ok")}) \cup IdleAborted
    /\ pend' = pend \cup IdleStarted
    /\ wpc' = "sent"
    /\ UNCHANGED <<conf, cpc, lock, ownerVars, runVars, newAccept, stopVars,
                   errVars, io, sock>>

HandleTimer ==
    /\ Dispatched("timer", "ok")
    /\ ready' = ready \ {Done("timer", "ok")}
    /\ wpc' = "timer"
    /\ UNCHANGED <<conf, cpc, lock, ownerVars, runVars, newAccept, stopVars,
                   errVars, io, sock, pend>>

MutantErrorOf(op, ec) == IF ec = "reset" THEN "RESET" ELSE "IO_ERROR"

ErrorOf(op, ec) ==
    CASE op = "estab" -> "CONNECT_ERROR"
      [] op # "estab" /\ ec = "reset" -> "CONNECT_ABORT"
      [] OTHER -> "IO_ERROR"

(* The error branches of the accept, connect, read and write handlers. *)
HandleFailure(op, ec) ==
    /\ op \in SocketOps /\ ec # "ok"
    /\ Dispatched(op, ec)
    /\ CloseSession
    /\ IF ec = "aborted" THEN UNCHANGED errVars ELSE SetError(ErrorOf(op, ec))
    /\ UNCHANGED <<conf, wpc, cpc, lock, ownerVars, runVars, newAccept, fullStop>>

(* asio_iddle_timer_handler() *)
HandleIdle ==
    /\ Dispatched("idle", "ok")
    /\ SetError("CONNECT_TIMEOUT")
    /\ CloseSession
    /\ UNCHANGED <<conf, wpc, cpc, lock, ownerVars, runVars, newAccept, fullStop>>

(* asio_signal_handler() *)
HandleSignal ==
    /\ Dispatched("signal", "ok")
    /\ SetError("SIGNAL_ERROR")
    /\ fullStop' = TRUE
    /\ CloseSession
    /\ UNCHANGED <<conf, wpc, cpc, lock, ownerVars, runVars, newAccept>>

Handlers ==
    \/ \E op \in Ops, ec \in Codes : HandlerReturns(op, ec) \/ HandleFailure(op, ec)
    \/ HandleEstablished \/ HandleRead \/ HandleWritten \/ HandleTimer
    \/ HandleIdle \/ HandleSignal
-----------------------------------------------------------------------------
(*              The rest of each handler, after its hook returned            *)

(* on_request_buffer() may refuse a buffer; then nothing is read. *)
BufferFor == IF "noBuffer" \in HOOK_ACTS THEN {{}, {"read"}} ELSE {{"read"}}

(* async_read_some_from_socket(), restart_iddle_timer(), set_ok_status() *)
ReadOn ==
    \E ops \in BufferFor :
        /\ pend' = pend \cup StartedOn(ops) \cup IdleStarted
        /\ ready' = ready \cup FailedOn(ops) \cup IdleAborted
        /\ errStatus' = "OK"
        /\ UNCHANGED <<sock, errMsg>>

OnNewReturns ==
    /\ At("new")
    /\ wpc' = "run"
    /\ ReadOn
    /\ UNCHANGED <<conf, cpc, lock, ownerVars, runVars, newAccept, stopVars, io>>

(* new_accept(): the socket is closed and given to the acceptor again. *)
AcceptAnew ==
    /\ sock' = IF sock = "open" THEN "closed" ELSE sock
    /\ pend' = (pend \ {"write"}) \cup {"estab"} \cup IdleStarted
    /\ ready' = ready \cup {Done(op, "aborted") : op \in pend \cap {"write"}}
                      \cup IdleAborted
    /\ errStatus' = "OK"
    /\ UNCHANGED errMsg

OnReadReturns ==
    /\ At("read")
    /\ wpc' = "run"
    /\ IF newAccept THEN AcceptAnew ELSE ReadOn
    /\ newAccept' = FALSE
    /\ UNCHANGED <<conf, cpc, lock, ownerVars, runVars, stopVars, io>>

OnSentReturns ==
    /\ At("sent")
    /\ wpc' = "run"
    /\ errStatus' = "OK"
    /\ UNCHANGED <<conf, cpc, lock, ownerVars, runVars, newAccept, stopVars,
                   errMsg, resVars>>

OnTimerReturns ==
    /\ At("timer")
    /\ wpc' = "run"
    /\ UNCHANGED <<conf, cpc, lock, ownerVars, runVars, newAccept, stopVars,
                   errVars, resVars>>

HookReturns ==
    \/ OnBeforeReturns \/ OnNewReturns \/ OnReadReturns \/ OnSentReturns
    \/ OnTimerReturns \/ OnCloseReturns \/ OnSessionEndReturns
-----------------------------------------------------------------------------
(*             What the derived class may do inside a hook                   *)

HookThrows ==
    /\ InHook /\ "throw" \in HOOK_ACTS
    /\ wpc' = "threw"
    /\ UNCHANGED <<conf, cpc, lock, ownerVars, runVars, newAccept, stopVars,
                   errVars, resVars>>

(* update_live_timestamp() *)
HookUpdatesLive ==
    /\ InHook /\ "live" \in HOOK_ACTS
    /\ live' = TRUE
    /\ UNCHANGED <<conf, wpc, cpc, lock, ownerVars, isRun, isConnected, newAccept,
                   stopVars, errVars, resVars, hookOpen>>

(* send_data() writes the whole buffer ... *)
HookSends ==
    /\ InHook /\ "send" \in HOOK_ACTS
    /\ sock = "open" /\ isConnected
    /\ pend' = pend \cup IdleStarted
    /\ ready' = ready \cup IdleAborted
    /\ errStatus' = "OK"
    /\ UNCHANGED <<conf, wpc, cpc, lock, ownerVars, runVars, newAccept, stopVars,
                   errMsg, io, sock>>

(* ... or fails, and the exception does not leave send_data(). *)
HookSendFails ==
    /\ InHook /\ "send" \in HOOK_ACTS
    /\ SetError("IO_ERROR")
    /\ CloseSession
    /\ UNCHANGED <<conf, wpc, cpc, lock, ownerVars, runVars, newAccept, fullStop>>

(* async_send_data(); one asynchronous write at a time, as asio requires. *)
HookSendsAsync ==
    /\ InHook /\ "asyncSend" \in HOOK_ACTS
    /\ "write" \notin pend /\ \A ec \in Codes : Done("write", ec) \notin ready
    /\ pend' = pend \cup StartedOn({"write"})
    /\ ready' = ready \cup FailedOn({"write"})
    /\ UNCHANGED <<conf, wpc, cpc, lock, ownerVars, runVars, newAccept, stopVars,
                   errVars, io, sock>>

(* restart_timer() *)
HookRestartsTimer ==
    /\ InHook /\ "timer" \in HOOK_ACTS
    /\ ready' = ready \cup {Done(op, "aborted") : op \in pend \cap {"timer"}}
    /\ pend' = pend \cup {"timer"}
    /\ UNCHANGED <<conf, wpc, cpc, lock, ownerVars, runVars, newAccept, stopVars,
                   errVars, io, sock>>

HookClosesSession ==
    /\ InHook /\ "close" \in HOOK_ACTS
    /\ CloseSession
    /\ UNCHANGED <<conf, wpc, cpc, lock, ownerVars, runVars, newAccept, fullStop,
                   errVars>>

(* stop_work() *)
HookStopsWork ==
    /\ InHook /\ "stop" \in HOOK_ACTS
    /\ fullStop' = TRUE
    /\ CloseSession
    /\ UNCHANGED <<conf, wpc, cpc, lock, ownerVars, runVars, newAccept, errVars>>

(* A host's derived class asks for the next client. *)
HookAsksNewAccept ==
    /\ InHook /\ "newAccept" \in HOOK_ACTS /\ conf.host
    /\ newAccept' = TRUE
    /\ UNCHANGED <<conf, wpc, cpc, lock, ownerVars, runVars, stopVars, errVars,
                   resVars>>

HookBodies ==
    \/ HookThrows \/ HookUpdatesLive \/ HookSends \/ HookSendFails \/ HookSendsAsync
    \/ HookRestartsTimer \/ HookClosesSession \/ HookStopsWork \/ HookAsksNewAccept
-----------------------------------------------------------------------------
(* Nothing is called on a destroyed object. *)
Gone == opc = "gone" /\ UNCHANGED vars

Reactor == \E op \in Ops, ec \in Codes : Completes(op, ec)

Next ==
    \/ OwnerCalls \/ OwnerContinues
    \/ StopBegins \/ StopContinues
    \/ MainLoop \/ Handlers \/ HookReturns \/ HookBodies
    \/ Reactor \/ Gone

(* Each thread that is inside a call goes on with it, and hooks return.  The  *)
(* network, the timers, the application's calls and the contents of hooks owe *)
(* nothing.  Calls of stop() that follow each other without end do not keep   *)
(* the worker from the mutex for ever.                                        *)
Fairness ==
    /\ WF_vars(OwnerContinues)
    /\ WF_vars(StopContinues)
    /\ WF_vars(MainLoop)
    /\ WF_vars(Handlers)
    /\ WF_vars(HookReturns)
    /\ SF_vars(LockForSetup) /\ SF_vars(LockForCleanup)

Spec == Init /\ [][Next]_vars /\ Fairness
-----------------------------------------------------------------------------
(*                          Safety properties                                *)

(* Nobody is between setting full_stop_flag and closing the session. *)
StopReturned == fullStop /\ cpc \notin {"lock", "sock", "io"} /\ opc # "closing"

(* A stop is never lost: once whoever set full_stop_flag has also closed the  *)
(* session, the worker holds no io_service it could wait in for ever.  The    *)
(* flag is tested again under the mutex because stop() may come between the   *)
(* loop's test and the creation of the io_service.                            *)
StopIsNotLost == StopReturned => io # "live"

(* Where main_loop() and the handlers dereference io_service and socket, both *)
(* exist, whatever stop() is doing.                                           *)
SessionHasResources == wpc \in SessionPcs => io # "none" /\ sock # "none"

(* is_clean_to_run is true only while there is no worker, no thread object    *)
(* that run_async() would overwrite (std::terminate), and no session left.    *)
CleanMeansNoWorker == clean => ~thread /\ wpc = "absent" /\ io = "none"

(* When the worker has left the main loop, normally or by an exception, what  *)
(* is_run(), is_connected() and is_live_stream() read is false.               *)
FinishedIsQuiet == wpc = "finished" => ~isRun /\ ~isConnected /\ ~live

(* A session that ends without an exception has had its on_session_end(),     *)
(* connected or not, before the next one begins or the run is over.           *)
HooksPaired == wpc \in {"loop", "open", "lock", "setup", "again", "exit"} => ~hookOpen

(* The status is that of the recorded error, unless a later success hid it:   *)
(* APP_ERROR never stands for an error it did not replace, and no status      *)
(* outlives the message it came with.                                         *)
StatusMatchesMessage ==
    /\ errMsg # "none" => errStatus \in {errMsg, "OK"}
    /\ errMsg = "none" /\ wpc \in SessionPcs => errStatus \in {"IDLE", "OK"}

(* After a stop has returned no handler goes on to a hook that announces a    *)
(* connection, data or a timer: of hooks not yet decided on, only             *)
(* on_close_connection() and on_session_end() follow.  (A handler that had    *)
(* tested session_stop_flag before the stop may still call its hook.)         *)
NoDataAfterStop ==
    [][StopReturned /\ wpc = "run"
         => wpc' \notin {"new", "read", "sent", "timer"}]_vars

(* What a stop has ended stays ended until reset(): no io_service is created. *)
StopSticks ==
    [][StopReturned /\ StopReturned' => io' \in {io, "none"}]_vars
-----------------------------------------------------------------------------
(*            The inductive invariant behind the safety properties           *)

(* Who holds session_resources_mutex is where it is held. *)
MutexInv ==
    /\ lock = "worker" <=> wpc \in {"setup", "cleaning"}
    /\ lock = "stop" <=> cpc \in {"sock", "io"}

(* There is a worker while the owner is in run() or holds a thread object, and *)
(* a clean object has none, no session and no open pair of hooks.              *)
OwnerInv ==
    /\ wpc = "absent" <=> ~thread /\ opc # "inRun"
    /\ opc = "inRun" => ~thread
    /\ opc = "joining" => thread
    /\ clean => wpc = "absent" /\ ~thread /\ io = "none" /\ ~hookOpen

(* While the worker is about to create the io_service, whoever has set         *)
(* full_stop_flag still has to close the session, and waits for the mutex.     *)
StopInv == StopIsNotLost /\ (wpc = "setup" => ~StopReturned)

HookInv ==
    wpc \in {"loop", "open", "lock", "setup", "post", "before", "cleanup",
             "cleaning", "again", "exit"} => ~hookOpen

QuietInv == wpc \in {"report", "finished"} => ~isRun /\ ~isConnected /\ ~live

(* From reset_error_status() at the head of a session to the worker's end the  *)
(* status is IDLE, OK or the recorded error.                                   *)
StatusInv ==
    /\ errMsg # "none" => errStatus \in {errMsg, "OK"}
    /\ errMsg = "none" /\ wpc \notin {"absent", "loop", "open", "exit", "finished"}
          => errStatus \in {"IDLE", "OK"}

(* What the refinement below needs besides: a worker outside a session has no  *)
(* io_service, one that leaves the loop was stopped or does not reconnect, a   *)
(* session is put away disconnected, the destructor has stopped the work, and  *)
(* a destroyed object has no thread.                                           *)
LifeInv ==
    /\ wpc \in {"loop", "open", "lock", "setup", "again", "exit"} => io = "none"
    /\ wpc = "exit" => fullStop \/ ~conf.reconnect
    /\ wpc \in {"end", "cleanup", "cleaning"} => ~isConnected
    /\ opc \in {"closing", "shutJoin"} => fullStop
    /\ opc = "gone" => ~thread

IInv == TypeOK /\ MutexInv /\ OwnerInv /\ SessionHasResources /\ StopInv /\ HookInv
        /\ QuietInv /\ StatusInv /\ LifeInv
-----------------------------------------------------------------------------
(*     What the header says and the code does not do (network-connection.hpp)*)

(* "Always called, as the pair of on_before_new_connection()": an exception   *)
(* from a hook leaves main_loop() past on_session_end().                      *)
SessionEndAlwaysCalled == wpc = "finished" => ~hookOpen

(* The session is broken for want of activity only if there was none since    *)
(* the timer expired: here a read and the expiry are queued together, the     *)
(* read's handler restarts the timer, the queued expiry still closes.         *)
TimeoutMeansInactivity == [][HandleIdle => "idle" \notin pend]_vars

(* stop() "may be called from a signal handler" with run_async(): if the      *)
(* signal interrupts the worker while it holds session_resources_mutex,       *)
(* stop() waits for the thread it runs on.                                    *)
StopNeverWaitsForItself == ~(SIGNAL_STOP /\ cpc = "lock" /\ lock = "worker")
-----------------------------------------------------------------------------
(*                              Liveness                                     *)

(* A requested stop ends the worker, unless reset() takes it back. *)
StopTerminates == fullStop ~> (wpc \in {"absent", "finished"} \/ ~fullStop)

(* stop() returns, and so does the destructor. *)
StopCallReturns == cpc # "out" ~> cpc = "out"
ShutdownCompletes == opc = "closing" ~> opc = "gone"

(* With automatic reconnection a session that was closed is followed by       *)
(* another, unless the work is stopped or something throws.                   *)
SessionIsReplaced ==
    (conf.reconnect /\ wpc = "run" /\ io = "stopped")
        ~> (io = "live" \/ fullStop \/ wpc = "threw")
-----------------------------------------------------------------------------
(*       Implementation of what the header promises the application          *)

(* A stop has taken effect: there is no session it would still have to end. *)
StopInEffect == fullStop /\ io # "live" /\ wpc # "setup"

OverPcs == {"absent", "threw", "report", "finished"}

lifeBar == CASE opc = "gone" -> "destroyed"
             [] opc # "gone" /\ wpc = "absent" /\ clean -> "ready"
             [] opc # "gone" /\ wpc \notin OverPcs -> "running"
             [] OTHER -> "finished"

sessionBar == CASE wpc \notin SessionPcs -> "none"
                [] wpc \in SessionPcs /\ isConnected -> "connected"
                [] OTHER -> "open"

Lifecycle == INSTANCE ConnectionLifecycle
    WITH life <- lifeBar, session <- sessionBar, stopped <- StopInEffect,
         reconnect <- conf.reconnect, RECONNECTS <- {c.reconnect : c \in CONFIGS}

(* The connection implements the life cycle of its header. *)
ImplementsLifecycle == Lifecycle!Spec
=============================================================================
