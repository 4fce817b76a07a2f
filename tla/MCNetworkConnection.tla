------------------------- MODULE MCNetworkConnection -------------------------
(* Instances of NetworkConnection for TLC. *)
EXTENDS NetworkConnection

Conf(host, reconnect, signals, idle, log) ==
    [host |-> host, reconnect |-> reconnect, signals |-> signals, idle |-> idle,
     log |-> log]

(* A host that accepts one client after another, and a client run            *)
(* synchronously with everything switched on.                                *)
MCConfigs == {Conf(TRUE, TRUE, FALSE, TRUE, FALSE),
              Conf(FALSE, FALSE, TRUE, TRUE, TRUE)}

=============================================================================
