------------------------------- MODULE TcpServer -------------------------------
(***************************************************************************)
(* The class TcpServer (network/tcp-server.cpp, .hpp) with the sessions it *)
(* accepts: TcpSession as HttpSession (network/netserver.cpp) uses it, one *)
(* asynchronous operation at a time.                                       *)
(*                                                                         *)
(* The threads are those of NetworkConnection: the owner (opc), the worker *)
(* with main_loop() and the handlers (wpc), and a caller of stop() (cpc).  *)
(* Unlike NetworkConnection the server has no mutex between stop() and the *)
(* worker, and stop() tests the io_service before it sets full_stop_flag.  *)
(* In the destructor stop() is called by the owner.                        *)
(*                                                                         *)
(* Abstracted: buffers, packages and the contents of requests (Session     *)
(* holds those), time, and the reference counts that keep an io_service    *)
(* alive.  io is the pointer io_service with the state of what it points   *)
(* to; the worker writes it and stop() reads it, unsynchronised, three     *)
(* times.                                                                  *)
(***************************************************************************)
EXTENDS FiniteSets

CONSTANTS
    SESSIONS,       \* session objects; bounds how many exist at a time
    None            \* no session

ASSUME NoneAssumption == None \notin SESSIONS

VARIABLES
    opc, wpc, cpc,  \* program counters of the owner, the worker and stop()'s caller
    thread,         \* async_thread is not null
    clean,          \* is_clean_to_run
    threadRun,      \* thread_is_run
    serverRun,      \* server_is_run
    fullStop,       \* full_stop_flag
    io,             \* io_service: "none" | "live" | "stopped"
    accept,         \* the accept operation: "none" | "pending" | "ok" | "fail"
    newSession,     \* the session that waits for a client
    sessions,       \* the accepted sessions
    closed,         \* is_close_flag of each session
    await,          \* each session's operation: "none" | "read" | "write" ...
    result          \* ... and how it ended: "none" (it has not) | "ok" | "fail"

threadVars == <<opc, thread, clean>>
sessionVars == <<newSession, sessions, closed, await, result>>
vars == <<opc, wpc, cpc, thread, clean, threadRun, serverRun, fullStop, io, accept,
          newSession, sessions, closed, await, result>>

WorkerPcs == {"absent", "loop", "init", "listen", "run", "close", "again", "finished"}

PcTypeOK ==
    /\ opc \in {"out", "inRun", "joining", "shut", "gone"}
    /\ wpc \in WorkerPcs
    /\ cpc \in {"out", "seen", "test", "call", "flag", "crashed"}

FlagTypeOK ==
    /\ thread \in BOOLEAN /\ clean \in BOOLEAN
    /\ threadRun \in BOOLEAN /\ serverRun \in BOOLEAN /\ fullStop \in BOOLEAN

ServiceTypeOK ==
    /\ io \in {"none", "live", "stopped"}
    /\ accept \in {"none", "pending", "ok", "fail"}

SessionTypeOK ==
    /\ newSession \in SESSIONS \cup {None}
    /\ sessions \subseteq SESSIONS /\ closed \subseteq SESSIONS
    /\ await \in [SESSIONS -> {"none", "read", "write"}]
    /\ result \in [SESSIONS -> {"none", "ok", "fail"}]

TypeOK == PcTypeOK /\ FlagTypeOK /\ ServiceTypeOK /\ SessionTypeOK

Init ==
    /\ opc = "out" /\ wpc = "absent" /\ cpc = "out"
    /\ thread = FALSE /\ clean = TRUE
    /\ threadRun = FALSE /\ serverRun = FALSE /\ fullStop = FALSE
    /\ io = "none" /\ accept = "none"
    /\ newSession = None /\ sessions = {} /\ closed = {}
    /\ await = [s \in SESSIONS |-> "none"]
    /\ result = [s \in SESSIONS |-> "none"]

(* A null io_service that is dereferenced ends the process. *)
Alive == cpc # "crashed"
-----------------------------------------------------------------------------
(*                              The owner                                    *)

(* run_async() and run() throw if the object is not clean. *)
Starts ==
    /\ Alive /\ opc = "out" /\ clean
    /\ clean' = FALSE /\ threadRun' = TRUE
    /\ wpc' = "loop"
    /\ UNCHANGED <<cpc, serverRun, fullStop, io, accept, sessionVars>>

RunAsync == Starts /\ thread' = TRUE /\ UNCHANGED opc
Run == Starts /\ opc' = "inRun" /\ UNCHANGED thread

(* run() returns after main_loop(), join() after the thread has ended. *)
Returns ==
    /\ Alive /\ wpc = "finished"
    /\ opc \in {"inRun", "joining"}
    /\ opc' = "out" /\ wpc' = "absent" /\ thread' = FALSE
    /\ UNCHANGED <<cpc, clean, threadRun, serverRun, fullStop, io, accept, sessionVars>>

JoinBegins ==
    /\ Alive /\ opc = "out" /\ thread
    /\ opc' = "joining"
    /\ UNCHANGED <<wpc, cpc, thread, clean, threadRun, serverRun, fullStop, io,
                   accept, sessionVars>>

MutantResetGuard == opc = "out"

(* reset() throws while the thread object exists. *)
ResetGuard == opc = "out" /\ ~thread

(* reset() leaves io_service and acceptor as they are. *)
Reset ==
    /\ Alive /\ ResetGuard /\ cpc = "out"
    /\ newSession' = None /\ sessions' = {}
    /\ threadRun' = FALSE /\ serverRun' = FALSE /\ fullStop' = FALSE /\ clean' = TRUE
    /\ UNCHANGED <<opc, wpc, cpc, thread, io, accept, closed, await, result>>

(* shutdown(): stop() on the owner's own thread, ... *)
ShutdownBegins ==
    /\ Alive /\ opc = "out" /\ cpc = "out"
    /\ opc' = "shut" /\ cpc' = "seen" /\ clean' = FALSE
    /\ UNCHANGED <<wpc, thread, threadRun, serverRun, fullStop, io, accept, sessionVars>>

(* ... then join, then release. *)
ShutdownEnds ==
    /\ Alive /\ opc = "shut" /\ cpc = "out"
    /\ thread => wpc = "finished"
    /\ opc' = "gone" /\ wpc' = "absent" /\ thread' = FALSE
    /\ io' = "none" /\ accept' = "none"
    /\ newSession' = None /\ sessions' = {}
    /\ UNCHANGED <<cpc, clean, threadRun, serverRun, fullStop, closed, await, result>>

Owner == RunAsync \/ Run \/ Returns \/ JoinBegins \/ Reset \/ ShutdownBegins \/ ShutdownEnds
-----------------------------------------------------------------------------
(*                               stop()                                      *)

StopBegins ==
    /\ cpc = "out" /\ opc \in {"out", "inRun", "joining"}
    /\ cpc' = "seen"
    /\ clean' = FALSE
    /\ UNCHANGED <<opc, wpc, thread, threadRun, serverRun, fullStop, io, accept,
                   sessionVars>>

(* if (io_service && ... *)
StopSeesService ==
    /\ cpc = "seen"
    /\ cpc' = IF io = "none" THEN "flag" ELSE "test"
    /\ UNCHANGED <<wpc, threadVars, threadRun, serverRun, fullStop, io, accept,
                   sessionVars>>

(* ... !io_service->stopped()) ... *)
StopTestsService ==
    /\ cpc = "test"
    /\ cpc' = CASE io = "none" -> "crashed"
                [] io = "stopped" -> "flag"
                [] OTHER -> "call"
    /\ UNCHANGED <<wpc, threadVars, threadRun, serverRun, fullStop, io, accept,
                   sessionVars>>

(* ... io_service->stop() *)
StopCallsService ==
    /\ cpc = "call"
    /\ cpc' = IF io = "none" THEN "crashed" ELSE "flag"
    /\ io' = IF io = "none" THEN io ELSE "stopped"
    /\ UNCHANGED <<wpc, threadVars, threadRun, serverRun, fullStop, accept, sessionVars>>

StopSetsFullStop ==
    /\ cpc = "flag"
    /\ cpc' = "out"
    /\ fullStop' = TRUE
    /\ UNCHANGED <<wpc, threadVars, threadRun, serverRun, io, accept, sessionVars>>

StopContinues == StopSeesService \/ StopTestsService \/ StopCallsService
                 \/ StopSetsFullStop
-----------------------------------------------------------------------------
(*                       The worker: main_loop()                             *)

At(p) == Alive /\ wpc = p

MutantStopSeenAtHead == FALSE

StopSeenAtHead == fullStop

LoopHead ==
    /\ At("loop")
    /\ wpc' = IF StopSeenAtHead THEN "finished" ELSE "init"
    /\ threadRun' = ~StopSeenAtHead
    /\ UNCHANGED <<cpc, threadVars, serverRun, fullStop, io, accept, sessionVars>>

(* init(): a new io_service replaces the old one, ... *)
InitService ==
    /\ At("init")
    /\ wpc' = "listen"
    /\ io' = "live"
    /\ UNCHANGED <<cpc, threadVars, threadRun, serverRun, fullStop, accept, sessionVars>>

MutantCreated(remaining) == {None}
MutantCreatedOnce(remaining) == IF newSession = None THEN SESSIONS ELSE {newSession}

(* create_session(), given the sessions that remain referenced. *)
Created(remaining) ==
    {s \in SESSIONS \ remaining : await[s] = "none"}

(* ... an acceptor is bound to it and waits for the first client; binding, or *)
(* the derived class's create_session(), may throw.                           *)
InitListens ==
    /\ At("listen")
    /\ \E s \in Created({newSession}) :
          /\ newSession' = s /\ closed' = closed \ {s}
    /\ accept' = "pending" /\ serverRun' = TRUE
    /\ wpc' = "run"
    /\ UNCHANGED <<cpc, threadVars, threadRun, fullStop, io, sessions, await, result>>

InitThrows ==
    /\ At("listen")
    /\ wpc' = "close"
    /\ UNCHANGED <<cpc, threadVars, threadRun, serverRun, fullStop, io, accept,
                   sessionVars>>

(* io_service::run() returns when it is stopped; it always waits for a client.*)
RunEnds ==
    /\ At("run") /\ io = "stopped"
    /\ wpc' = "close"
    /\ UNCHANGED <<cpc, threadVars, threadRun, serverRun, fullStop, io, accept,
                   sessionVars>>

MutantSessionsAfterClose == sessions

SessionsAfterClose == {}

(* close_server() does nothing for a server that init() did not complete.  Its *)
(* io_service, stopped, calls no handler any more.                             *)
CloseServer ==
    /\ At("close")
    /\ wpc' = "again"
    /\ IF serverRun
       THEN /\ io' = "none" /\ accept' = "none"
            /\ closed' = closed \cup sessions /\ sessions' = SessionsAfterClose
            /\ await' = [s \in SESSIONS |-> "none"]
            /\ result' = [s \in SESSIONS |-> "none"]
            /\ UNCHANGED newSession
       ELSE UNCHANGED <<io, accept, sessionVars>>
    /\ serverRun' = FALSE
    /\ UNCHANGED <<cpc, threadVars, threadRun, fullStop>>

(* The end of the loop's body, and the pause before the next attempt. *)
LoopAgain ==
    /\ At("again")
    /\ wpc' = IF fullStop THEN "finished" ELSE "loop"
    /\ threadRun' = ~fullStop
    /\ UNCHANGED <<cpc, threadVars, serverRun, fullStop, io, accept, sessionVars>>

MainLoop == LoopHead \/ InitService \/ InitListens \/ InitThrows \/ RunEnds
            \/ CloseServer \/ LoopAgain
-----------------------------------------------------------------------------
(*                 The worker inside io_service::run()                       *)

Running == At("run") /\ io = "live"

(* The reactor, external to the repository. *)
AcceptCompletes ==
    /\ Running /\ accept = "pending"
    /\ accept' \in {"ok", "fail"}
    /\ UNCHANGED <<wpc, cpc, threadVars, threadRun, serverRun, fullStop, io, sessionVars>>

OperationCompletes(s) ==
    /\ Running /\ await[s] # "none" /\ result[s] = "none"
    /\ \E r \in {"ok", "fail"} : result' = [result EXCEPT ![s] = r]
    /\ UNCHANGED <<wpc, cpc, threadVars, threadRun, serverRun, fullStop, io, accept,
                   newSession, sessions, closed, await>>

MutantAccepted(s) == sessions \cup {s}

(* remove_close_sessions(), after the new client's session was added. *)
Accepted(s) == (sessions \cup {s}) \ closed

MutantAcceptAgain == "none"

AcceptAgain == "pending"

(* asio_accept_handler() *)
HandleAccept ==
    /\ Running /\ accept \in {"ok", "fail"}
    /\ IF accept = "ok"
       THEN /\ await' = [await EXCEPT ![newSession] = "read"]
            /\ sessions' = Accepted(newSession)
       ELSE /\ UNCHANGED await
            /\ sessions' = sessions \ closed
    /\ \E s \in Created(sessions' \cup {newSession}) :
          /\ newSession' = s
          /\ closed' = (IF accept = "ok" THEN closed ELSE closed \cup {newSession}) \ {s}
    /\ accept' = AcceptAgain
    /\ UNCHANGED <<wpc, cpc, threadVars, threadRun, serverRun, fullStop, io, result>>

(* create_session() throws out of the handler and of io_service::run(). *)
HandleAcceptThrows ==
    /\ Running /\ accept \in {"ok", "fail"}
    /\ IF accept = "ok"
       THEN /\ await' = [await EXCEPT ![newSession] = "read"]
            /\ sessions' = Accepted(newSession)
            /\ UNCHANGED closed
       ELSE /\ UNCHANGED await
            /\ sessions' = sessions \ closed
            /\ closed' = closed \cup {newSession}
    /\ accept' = "none"
    /\ wpc' = "close"
    /\ UNCHANGED <<cpc, threadVars, threadRun, serverRun, fullStop, io, newSession, result>>

Dispatched(s, op) == Running /\ await[s] = op /\ result[s] # "none"

(* The session's next operation, and whether the session is closed. *)
Continues(s, op, ends) ==
    /\ await' = [await EXCEPT ![s] = op]
    /\ closed' = IF ends THEN closed \cup {s} ELSE closed
    /\ UNCHANGED <<wpc, cpc, threadVars, threadRun, serverRun, fullStop, io, accept,
                   newSession, sessions>>

(* asio_read_handler() with HttpSession::on_read_socket() and on_after_read(): *)
(* reads on until the request is complete, then answers it or does not.        *)
HandleRead(s) ==
    /\ Dispatched(s, "read") /\ s \notin closed
    /\ result' = [result EXCEPT ![s] = "none"]
    /\ IF result[s] = "ok" THEN \E op \in {"read", "write", "none"} : Continues(s, op, FALSE)
                           ELSE Continues(s, "none", TRUE)

(* An exception of the request's handler: response_500() begins to send and   *)
(* close_session() aborts it, so the write's handler is queued.               *)
HandleReadThrows(s) ==
    /\ Dispatched(s, "read") /\ s \notin closed /\ result[s] = "ok"
    /\ result' = [result EXCEPT ![s] = "fail"]
    /\ Continues(s, "write", TRUE)

(* asio_write_handler(): the next package, or on_after_send(), which closes   *)
(* the session unless it is kept alive, or an error.                          *)
HandleWrite(s) ==
    /\ Dispatched(s, "write") /\ s \notin closed
    /\ result' = [result EXCEPT ![s] = "none"]
    /\ IF result[s] = "ok" THEN \/ Continues(s, "write", FALSE)
                                \/ \E ends \in BOOLEAN : Continues(s, "none", ends)
                           ELSE Continues(s, "none", TRUE)

(* The handlers of a closed session do nothing. *)
HandleClosed(s) ==
    /\ Running /\ result[s] # "none" /\ s \in closed
    /\ result' = [result EXCEPT ![s] = "none"]
    /\ Continues(s, "none", FALSE)

Handlers ==
    \/ HandleAccept \/ HandleAcceptThrows
    \/ \E s \in SESSIONS : HandleRead(s) \/ HandleReadThrows(s) \/ HandleWrite(s)
                           \/ HandleClosed(s)

Reactor == AcceptCompletes \/ \E s \in SESSIONS : OperationCompletes(s)
-----------------------------------------------------------------------------
(* Nothing is called on a destroyed object, nor after the process has ended. *)
Gone == (opc = "gone" \/ ~Alive) /\ UNCHANGED vars

Next == Owner \/ StopBegins \/ StopContinues \/ MainLoop \/ Handlers \/ Reactor \/ Gone

(* Threads inside a call go on with it; clients owe nothing. *)
Fairness ==
    /\ WF_vars(Returns) /\ WF_vars(ShutdownEnds)
    /\ WF_vars(StopContinues)
    /\ WF_vars(MainLoop)
    /\ WF_vars(Handlers)

Spec == Init /\ [][Next]_vars /\ Fairness
-----------------------------------------------------------------------------
(* While the server runs it always waits for the next client, or is about to  *)
(* handle one that came: an accept that failed, a closed session and a full   *)
(* table of sessions all lead back to an accept.                              *)
ServerKeepsAccepting ==
    At("run") => accept # "none" /\ newSession # None /\ newSession \notin closed

(* "One instance of a session serves one client" (netserver.hpp): the session *)
(* that waits for a client is none of those that have one.                    *)
OneClientPerSession == At("run") => newSession \notin sessions

(* Outside init() .. close_server() no session is left: every way out of the  *)
(* io_service, a stop or an exception, has closed and dropped them.           *)
ClosedServerHasNoSessions ==
    At("loop") \/ At("init") \/ At("listen") \/ At("again") \/ At("finished")
        => sessions = {} /\ ~serverRun

(* run() and run_async() accept the object only when the previous thread was  *)
(* joined, and is_run() is true only while there is a worker.                 *)
CleanMeansNoWorker == (clean => ~thread /\ wpc = "absent")
                      /\ (threadRun => wpc \notin {"absent", "finished"})

(* A closed session is not kept past the next client: those that were closed  *)
(* before it came are gone when it has been accepted.                         *)
ClosedSessionsAreRemoved ==
    [][HandleAccept => sessions' \cap closed = {}]_vars

(* A stop that is seen where main_loop() tests for it ends the worker.        *)
StopBetweenRunsTerminates ==
    (fullStop /\ wpc \in {"loop", "close", "again"})
        ~> (wpc \in {"absent", "finished"} \/ ~fullStop \/ ~Alive)
-----------------------------------------------------------------------------
(*            The inductive invariant behind the safety properties           *)

(* There is a worker while the owner is in run() or holds a thread object.    *)
OwnerInv ==
    /\ wpc = "absent" <=> ~thread /\ opc # "inRun"
    /\ opc = "inRun" => ~thread
    /\ opc = "joining" => thread
    /\ clean => ~thread /\ wpc = "absent"
    /\ threadRun => wpc \notin {"absent", "finished"}

(* The server has sessions only from init() to close_server().                *)
ClosedInv ==
    /\ wpc \notin {"run", "close"} => sessions = {} /\ ~serverRun
    /\ wpc = "close" /\ ~serverRun => sessions = {}
    /\ wpc = "run" => serverRun

(* The session that waits for a client has no operation, so that no handler   *)
(* of its own can close it.                                                   *)
AcceptInv ==
    wpc = "run" => /\ accept # "none"
                   /\ newSession \in SESSIONS \ (closed \cup sessions)
                   /\ await[newSession] = "none"

IInv == TypeOK /\ OwnerInv /\ ClosedInv /\ AcceptInv
-----------------------------------------------------------------------------
(*      What the headers say and the code does not do                        *)

(* After stop() the end of the work "has to be awaited by join()"             *)
(* (tcp-server.hpp): a stop() that has returned makes the worker end.         *)
StopTerminates ==
    (fullStop /\ cpc = "out") ~> (wpc \in {"absent", "finished"} \/ ~fullStop \/ ~Alive)

(* The data given to async_send_data() "must exist until the handler of its   *)
(* completion is called" (tcp-server.hpp); it is the session's send_buffer.   *)
DataOutlivesSend ==
    \A s \in SESSIONS : Running /\ await[s] = "write" => s \in sessions \cup {newSession}
=============================================================================
