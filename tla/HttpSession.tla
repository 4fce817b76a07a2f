------------------------------ MODULE HttpSession ------------------------------
(***************************************************************************)
(* One HttpSession or WebApiSession (network/netserver.cpp) with the       *)
(* buffers and operations of its TcpSession (network/tcp-server.cpp), from *)
(* the first open_async_read() on, and the client at the other end.        *)
(*                                                                         *)
(* The worker runs one handler at a time, so a completion and its handler  *)
(* are one step, but for the loop over the octets of a read.  Reads may    *)
(* cut the client's octets anywhere.  The idle timer is left out: only     *)
(* setup_session_resources() would create it, and nothing calls that, so   *)
(* reset_connection_timeout() returns at once.                             *)
(***************************************************************************)
EXTENDS HttpSplitter, UrlParser

CONSTANTS
    METHOD_OF, URL_OF,  \* of each request line
    BOUND,              \* paths that WebApiSession::bind() was given
    ANSWER,             \* what a handler returns, in octets ...
    BAD_REQUEST,        \* ... and what Http400Handler does
    SERVER_ERROR,       \* what response_500() sends
    SEND_PACKAGE_SIZE,
    SCRIPTS,            \* what clients send
    ACTS                \* what the handlers of an application do

ASSUME PackageAssumption == SEND_PACKAGE_SIZE \in Nat \ {0}

ASSUME MethodAssumption == DOMAIN METHOD_OF = REQUEST_LINES

ASSUME AnswerAssumption ==
    ANSWER \in Seq(STRING) /\ BAD_REQUEST \in Seq(STRING) /\ SERVER_ERROR \in Seq(STRING)

ASSUME ScriptsAssumption == SCRIPTS \subseteq Seq(OCTETS)

ASSUME ActsAssumption == ACTS \subseteq {"answer", "silent", "close", "throw", "answer_throw"}

VARIABLES
    script,     \* what this client will send ...
    due,        \* ... how much of it makes a request with a handler, ...
    sent,       \* ... how much of it is on its way or was read ...
    taken,      \* ... and how much http_splitter was given or has missed
    chunk,      \* octets in read_buffer that on_read_socket() has yet to push
    left,       \* the client has closed its side or is gone
    received,   \* what the client got
    keepAlive,  \* keep_alive_flag
    splitter,   \* http_splitter
    ses,        \* the rest of the session object, see Sessions
    delivered   \* what on_get(), on_post() or on_put() was called with

clientVars == <<script, due, sent, left>>
vars == <<script, due, sent, taken, chunk, left, received, keepAlive, splitter, ses, delivered>>

(* request_ready is FALSE between two handlers and a parameter in this model. *)
Sessions ==
    [reading: BOOLEAN, writing: BOOLEAN,        \* the operations asio has
     required: Nat,                             \* octets_required of the write
     sending: BOOLEAN,                          \* async_send_flag
     buffer: Seq(STRING), cursor: Nat,          \* send_buffer, send_buffer_cursor
     closed: BOOLEAN]                           \* is_close_flag; the socket is null

HttpTypeOK ==
    /\ script \in SCRIPTS /\ due \in Nat /\ sent \in 0 .. Len(script) /\ taken \in 0 .. sent
    /\ chunk \in 0 .. sent - taken /\ splitter \in Splitters
    /\ left \in BOOLEAN /\ keepAlive \in BOOLEAN
    /\ ses \in Sessions /\ ses.cursor + ses.required <= Len(ses.buffer)
    /\ received \in Seq(STRING)

Handled(request) == request # Garbled /\ METHOD_OF[request] \in {"GET", "POST", "PUT"}

(* Octets of the client's first request, if it will be complete and some      *)
(* handler is for its method; otherwise more than the client sends.           *)
CompleteAt(s) ==
    IF HasRequest(s) /\ Handled(RequestOf(s).request)
    THEN Least({n \in 1 .. Len(s) : HasRequest(SubSeq(s, 1, n))})
    ELSE Len(s) + 1

Init ==
    /\ script \in SCRIPTS /\ due = CompleteAt(script)
    /\ sent = 0 /\ taken = 0 /\ chunk = 0 /\ left = FALSE /\ received = <<>>
    /\ keepAlive \in BOOLEAN /\ splitter = NewSplitter
    /\ ses = [reading |-> TRUE, writing |-> FALSE, required |-> 0, sending |-> FALSE,
              buffer |-> <<>>, cursor |-> 0, closed |-> FALSE]
    /\ delivered = <<>>
-----------------------------------------------------------------------------
(*                     TcpSession: methods of the session                    *)

CloseSession(s) == [s EXCEPT !.closed = TRUE]

OpenAsyncRead(s) == [s EXCEPT !.reading = TRUE]

PackageLength(s) ==
    IF Len(s.buffer) - s.cursor < SEND_PACKAGE_SIZE THEN Len(s.buffer) - s.cursor
                                                    ELSE SEND_PACKAGE_SIZE

SendPackage(s) == [s EXCEPT !.writing = TRUE, !.required = PackageLength(s)]

(* async_send_data(data) appends in any case and sends once: async_send_flag  *)
(* is set here and cleared nowhere.                                           *)
AsyncSendData(s, data) ==
    LET filled == [s EXCEPT !.buffer = @ \o data]
    IN  IF s.sending THEN filled
        ELSE SendPackage([filled EXCEPT !.sending = TRUE, !.cursor = 0])
-----------------------------------------------------------------------------
(*                     HttpSession and WebApiSession                         *)

(* What parse_url() makes of each request's URL. *)
Url == [r \in REQUEST_LINES \cup {Garbled} |->
           IF r = Garbled THEN [ok |-> TRUE, path |-> <<>>] ELSE ParseUrl(URL_OF[r])]

(* What WebApiSession::accept_query() answers with: the bound handler's data, *)
(* or Http400Handler's.                                                       *)
Answer(path) == IF path \in BOUND THEN ANSWER ELSE BAD_REQUEST

(* The catch of on_read_socket(). *)
Fails(s) == CloseSession(AsyncSendData(s, SERVER_ERROR))

(* A handler of the application, by what it does with the session. *)
Serve(s, path, act) ==
    CASE act = "answer" -> AsyncSendData(s, Answer(path))
      [] act = "silent" -> s
      [] act = "close" -> CloseSession(s)
      [] act = "throw" -> Fails(s)
      [] act = "answer_throw" -> Fails(AsyncSendData(s, Answer(path)))

(* on_read_socket() with a complete request; a method without a handler gets  *)
(* no answer, a URL that cannot be parsed throws.                             *)
OnRequest(s, request, act) ==
    CASE ~Url[request].ok -> Fails(s)
      [] Url[request].ok /\ Handled(request) -> Serve(s, Url[request].path, act)
      [] OTHER -> s

Delivery(sp, act) ==
    IF Url[sp.request].ok /\ Handled(sp.request)
    THEN <<[request |-> sp.request, path |-> Url[sp.request].path, content |-> sp.content,
            act |-> act]>>
    ELSE <<>>

MutantOnAfterRead(s, ready) == OpenAsyncRead(s)

(* on_after_read(): no read after a complete request, whatever became of it. *)
OnAfterRead(s, ready) == IF ready THEN s ELSE OpenAsyncRead(s)

MutantOnAfterSend(s) == s

(* on_after_send() *)
OnAfterSend(s) == IF keepAlive THEN s ELSE CloseSession(s)
-----------------------------------------------------------------------------
(*                            The client                                     *)

ClientSends ==
    /\ ~left /\ sent < Len(script)
    /\ sent' \in sent + 1 .. Len(script)
    /\ UNCHANGED <<script, due, left, taken, chunk, received, keepAlive, splitter, ses,
                   delivered>>

ClientLeaves ==
    /\ ~left /\ left' = TRUE
    /\ UNCHANGED <<script, due, sent, taken, chunk, received, keepAlive, splitter, ses,
                   delivered>>
-----------------------------------------------------------------------------
(*                  Completions, each with its handler                       *)

(* asio_read_handler() has n octets, ... *)
HandleRead(n) ==
    /\ ses.reading /\ ~ses.closed /\ taken + n <= sent
    /\ chunk' = n
    /\ ses' = [ses EXCEPT !.reading = FALSE]
    /\ UNCHANGED <<clientVars, taken, received, keepAlive, splitter, delivered>>

(* ... on_read_socket() pushes one of them that completes no request, ...     *)
PushOctet ==
    LET pushed == PushChar(splitter, script[taken + 1])
    IN  /\ chunk > 0 /\ ~pushed.ready
        /\ splitter' = pushed.splitter
        /\ taken' = taken + 1 /\ chunk' = chunk - 1
        /\ ses' = IF chunk = 1 THEN OnAfterRead(ses, FALSE) ELSE ses
        /\ UNCHANGED <<clientVars, received, keepAlive, delivered>>

(* ... or one that does: the rest of the buffer is dropped and the splitter   *)
(* reset, unless something has thrown.                                        *)
PushLastOctet ==
    LET pushed == PushChar(splitter, script[taken + 1])
    IN  /\ chunk > 0 /\ pushed.ready
        /\ taken' = taken + chunk /\ chunk' = 0
        /\ \E act \in ACTS :
              /\ ses' = OnAfterRead(OnRequest(ses, pushed.splitter.request, act), TRUE)
              /\ delivered' = delivered \o Delivery(pushed.splitter, act)
        /\ splitter' \in {pushed.splitter, NewSplitter}
        /\ ~ses'.closed => splitter' = NewSplitter
        /\ UNCHANGED <<clientVars, received, keepAlive>>

(* The end of the client's octets, or an error, once the client has left. *)
ReadFails ==
    /\ ses.reading /\ ~ses.closed /\ left
    /\ ses' = CloseSession([ses EXCEPT !.reading = FALSE])
    /\ UNCHANGED <<clientVars, taken, chunk, received, keepAlive, splitter, delivered>>

Package(s, n) == SubSeq(s.buffer, s.cursor + 1, s.cursor + n)

MutantAdvancedShort(s) == s.cursor + 1

MutantAdvancedAll(s) == Len(s.buffer)

Advanced(s) == s.cursor + s.required

(* asio_write_handler(): the next package, or on_after_send(). *)
HandleWrite ==
    /\ ses.writing /\ ~ses.closed
    /\ received' = received \o Package(ses, ses.required)
    /\ LET done == [ses EXCEPT !.writing = FALSE, !.required = 0, !.cursor = Advanced(ses)]
       IN  ses' = IF done.cursor < Len(done.buffer) THEN SendPackage(done)
                                                    ELSE OnAfterSend(done)
    /\ UNCHANGED <<clientVars, taken, chunk, keepAlive, splitter, delivered>>

(* A write to a client that has left: part of the package may have arrived. *)
WriteFails ==
    /\ ses.writing /\ ~ses.closed /\ left
    /\ \E n \in 0 .. ses.required : received' = received \o Package(ses, n)
    /\ ses' = CloseSession([ses EXCEPT !.writing = FALSE, !.required = 0])
    /\ UNCHANGED <<clientVars, taken, chunk, keepAlive, splitter, delivered>>

(* The handlers of a closed session do nothing; what async_write() had handed *)
(* to the network before the socket was closed may still have arrived.        *)
HandleClosed ==
    /\ ses.closed /\ (ses.reading \/ ses.writing)
    /\ \E n \in 0 .. ses.required : received' = received \o Package(ses, n)
    /\ ses' = [ses EXCEPT !.reading = FALSE, !.writing = FALSE, !.required = 0]
    /\ UNCHANGED <<clientVars, taken, chunk, keepAlive, splitter, delivered>>

Handlers ==
    \/ \E n \in 1 .. Len(script) : HandleRead(n)
    \/ PushOctet \/ PushLastOctet
    \/ ReadFails \/ HandleWrite \/ WriteFails \/ HandleClosed

(* TcpServer::close_server(): the io_service is stopped, no handler runs.     *)
ServerCloses ==
    /\ ~ses.closed /\ chunk = 0
    /\ ses' = CloseSession([ses EXCEPT !.reading = FALSE, !.writing = FALSE, !.required = 0])
    /\ UNCHANGED <<clientVars, taken, chunk, received, keepAlive, splitter, delivered>>

(* A closed session whose handlers have run is destroyed. *)
Gone == ses.closed /\ ~ses.reading /\ ~ses.writing /\ UNCHANGED vars

Next == ClientSends \/ ClientLeaves \/ Handlers \/ ServerCloses \/ Gone

(* The reactor delivers what has arrived and the worker runs its handlers. *)
Spec == Init /\ [][Next]_vars /\ WF_vars(Handlers)
-----------------------------------------------------------------------------
(* An application is called once, with the request its client has sent: its  *)
(* method, its path and exactly its body, wherever the reads have cut the     *)
(* octets, and whatever junk stands before it or requests follow it.          *)
DeliveredAsSent ==
    delivered # <<>> =>
        LET request == RequestOf(SubSeq(script, 1, taken))
            call == delivered[1]
        IN  /\ Len(delivered) = 1
            /\ HasRequest(SubSeq(script, 1, taken))
            /\ call.request = request.request /\ call.content = request.content

(* What the client has got is the beginning of what was to be sent: packages  *)
(* arrive in order and none is sent twice or left out.                        *)
ReceivedInOrder ==
    Len(received) <= Len(ses.buffer) /\ received = SubSeq(ses.buffer, 1, Len(received))

(* on_after_send() closes the session after the answer and not within it.     *)
ClosedAfterAnswer ==
    [][HandleWrite /\ ses'.closed => received' = ses.buffer]_vars

(* A session has one operation at a time: TcpServer removes a session when it *)
(* is closed and relies on nothing else being under way for it.               *)
OneOperation == ~(ses.reading /\ ses.writing)

Turns == INSTANCE SessionTurns
            WITH op <- IF ses.reading \/ chunk > 0 THEN "read"
                       ELSE IF ses.writing THEN "write" ELSE "none",
                 closed <- ses.closed

(* HttpSession takes the turns that TcpServer gives a session, no others. *)
ImplementsTurns == Turns!Spec

(* "By default the session is closed after the answer to the client"          *)
(* (netserver.hpp): a complete request that some handler answers ends the     *)
(* session, however the client behaves.                                       *)
RequestEndsSession ==
    (~keepAlive /\ sent >= due)
        ~> (ses.closed \/ (delivered # <<>> /\ delivered[1].act = "silent"))
=============================================================================
