------------------------------- MODULE NetClient -------------------------------
(***************************************************************************)
(* NetClient (netclient.cpp): requests over libcurl, one at a time, that   *)
(* leave their answer and its code in the object, and stop_curl(), which   *)
(* another thread may call. libcurl is external: it delivers the answer in *)
(* blocks and asks now and then whether to go on.                          *)
(***************************************************************************)
EXTENDS Naturals, Sequences, SequencesExt

CONSTANTS
    SERVED,         \* what a server may answer: [code, blocks]; a block is
                    \* "text" or "nul", one that ends a C string
    MAX_REQUESTS    \* bound: requests of one client

ASSUME ClientAssumption ==
    /\ MAX_REQUESTS \in Nat
    /\ SERVED \subseteq [code : Nat \ {0}, blocks : Seq({"text", "nul"})]

KINDS == {"get", "json", "file"}

VARIABLES
    received_data,              \* the blocks of the answer
    last_response_http_code,
    curl_stop_flag,
    request,                    \* <<>> or <<[kind, of, go, data, delivered, code]>>
    requests,                   \* begun so far
    begun_stopped,              \* was the flag up when the request began? (history)
    served, answered            \* the last request, the last one that was no
                                \* file, or <<>> (history)

netClientVars == <<received_data, last_response_http_code, curl_stop_flag, request,
                requests, begun_stopped, served, answered>>

(* The constructor leaves the code as it was in memory: any number, here 0.   *)
ClientInit ==
    /\ received_data = <<>> /\ last_response_http_code = 0
    /\ curl_stop_flag = FALSE
    /\ request = <<>> /\ requests = 0 /\ begun_stopped = FALSE
    /\ served = <<>> /\ answered = <<>>

SameObject == UNCHANGED <<received_data, last_response_http_code, curl_stop_flag>>
SameHistory == UNCHANGED <<requests, begun_stopped, served, answered>>

(* request_get(), send_json(), send_file(): every request has a handle and a  *)
(* buffer of its own, and no code until the server has answered. send_file()  *)
(* reads the size of its file first and throws if it cannot.                  *)
BeginRequest(kind, of) ==
    /\ request = <<>> /\ requests < MAX_REQUESTS
    /\ request' = <<[kind |-> kind, of |-> of, go |-> FALSE, data |-> <<>>,
                     delivered |-> 0, code |-> 0]>>
    /\ requests' = requests + 1
    /\ begun_stopped' = curl_stop_flag
    /\ SameObject /\ UNCHANGED <<served, answered>>

(* progress_callback(), before anything is sent and then now and again: the   *)
(* transfer goes on unless need_stop() finds the flag up, or ten minutes over. *)
NeedStop == curl_stop_flag

Progress ==
    /\ request # <<>>
    /\ \E timeout \in BOOLEAN : request' = <<[request[1] EXCEPT !.go = ~(NeedStop \/ timeout)]>>
    /\ SameObject /\ SameHistory

(* The status line of the answer. *)
Respond ==
    /\ request # <<>> /\ request[1].go /\ request[1].code = 0
    /\ request' = <<[request[1] EXCEPT !.code = request[1].of.code]>>
    /\ SameObject /\ SameHistory

(* write_callback() appends a block to the request's buffer. send_file() sets *)
(* no callback: libcurl writes its answer to the standard output.             *)
WriteCallback ==
    /\ request # <<>>
    /\ LET r == request[1]
           n == r.delivered + 1
       IN  /\ r.go /\ r.code # 0 /\ r.delivered < Len(r.of.blocks)
           /\ request' = <<[r EXCEPT !.delivered = n,
                                     !.data = IF r.kind = "file" THEN @
                                              ELSE Append(@, r.of.blocks[n])]>>
    /\ SameObject /\ SameHistory

(* received_data += data.data reads a C string. *)
CString(blocks) ==
    LET ends == {i \in DOMAIN blocks : blocks[i] = "nul"}
    IN  IF ends = {} THEN blocks
        ELSE SubSeq(blocks, 1, (CHOOSE i \in ends : \A j \in ends : i <= j) - 1)

(* Bug: the answer is appended to the one of the request before. *)
MutantKeptData(kind, data) ==
    IF kind = "file" THEN received_data ELSE received_data \o CString(data)

KeptData(kind, data) == IF kind = "file" THEN received_data ELSE CString(data)

(* The transfer ends: all has come, the network has failed, or libcurl was    *)
(* told to give up; the code treats all of them alike. curl_easy_getinfo()    *)
(* writes a long where the object has an int: where a long is the wider one   *)
(* it overwrites the next member, curl_stop_flag, with zeroes.                *)
EndRequest ==
    /\ request # <<>>
    /\ LET r == request[1]
       IN  /\ received_data' = KeptData(r.kind, r.data)
           /\ last_response_http_code' = r.code
           /\ curl_stop_flag' \in {curl_stop_flag, FALSE}
           /\ answered' = IF r.kind = "file" THEN answered ELSE request
    /\ request' = <<>> /\ served' = request
    /\ UNCHANGED <<requests, begun_stopped>>

(* stop_curl(), from another thread. No request lowers the flag on purpose.   *)
StopCurl ==
    /\ ~curl_stop_flag /\ curl_stop_flag' = TRUE
    /\ UNCHANGED <<received_data, last_response_http_code, request>> /\ SameHistory

ClientNext ==
    \/ \E kind \in KINDS, of \in SERVED : BeginRequest(kind, of)
    \/ Progress \/ Respond \/ WriteCallback \/ EndRequest \/ StopCurl

ClientSpec == ClientInit /\ [][ClientNext]_netClientVars

-----------------------------------------------------------------------------
(* The answer of the last request whose answer is kept, and the code of the    *)
(* last one of all, are what the server sent for them, whatever requests came  *)
(* before, were given up or failed half-way; and a request that begins after   *)
(* stop_curl() gets nothing from the server.                                   *)
AnswerIsOfItsRequest ==
    /\ answered # <<>> =>
          /\ Len(received_data) <= answered[1].delivered
          /\ received_data = SubSeq(answered[1].of.blocks, 1, Len(received_data))
          /\ ~Contains(received_data, "nul")
          /\ Len(received_data) < answered[1].delivered =>
                answered[1].of.blocks[Len(received_data) + 1] = "nul"
    /\ served # <<>> => last_response_http_code \in {0, served[1].of.code}
    /\ request # <<>> /\ begun_stopped => request[1].code = 0 /\ request[1].delivered = 0
=============================================================================
