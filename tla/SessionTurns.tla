----------------------------- MODULE SessionTurns -----------------------------
(***************************************************************************)
(* One session as TcpServer sees it: which asynchronous operation it has,  *)
(* never more than one, and whether it is closed.  TcpServer gives every   *)
(* session these turns (its HandleRead, HandleReadThrows, HandleWrite and  *)
(* HandleClosed, and CloseServer); HttpSession is shown to take no others. *)
(***************************************************************************)
VARIABLES
    op,     \* "read" | "write" | "none"
    closed  \* is_close_flag

Init == op = "read" /\ closed = FALSE

(* A read leads to another, to the answer, to nothing, or to the end; an      *)
(* answer that was begun when the session was closed is aborted.              *)
Read ==
    /\ op = "read" /\ ~closed
    /\ \/ op' \in {"read", "write", "none"} /\ UNCHANGED closed
       \/ op' \in {"write", "none"} /\ closed' = TRUE

(* The answer goes on, or it is sent, or the session ends. *)
Write ==
    /\ op = "write" /\ ~closed
    /\ \/ op' \in {"write", "none"} /\ UNCHANGED closed
       \/ op' = "none" /\ closed' = TRUE

(* The handler of a closed session's operation. *)
Aborted == closed /\ op # "none" /\ op' = "none" /\ UNCHANGED closed

(* close_server(), after which no handler runs. *)
ServerCloses == ~closed /\ closed' = TRUE /\ op' = "none"

Next == Read \/ Write \/ Aborted \/ ServerCloses

Spec == Init /\ [][Next]_<<op, closed>>
=============================================================================
