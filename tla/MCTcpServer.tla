----------------------------- MODULE MCTcpServer -----------------------------
(* Instances of TcpServer for TLC. *)
EXTENDS TcpServer, TLC

CONSTANTS s1, s2, s3

MCSessions == {s1, s2, s3}

=============================================================================
