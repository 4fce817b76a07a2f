----------------------------- MODULE MCEventsMesh -----------------------------
(* Instances of EventsMesh for TLC. *)
EXTENDS EventsMesh

CONSTANTS n1, n2, n3, q1, q2, t1, t2

MCTwoNodes == {n1, n2}
MCNodes == {n1, n2, n3}
MCQueues == {q1, q2}
MCThreads == {t1, t2}

=============================================================================
