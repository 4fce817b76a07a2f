------------------------- MODULE ConnectionLifecycle -------------------------
(***************************************************************************)
(* What network/network-connection.hpp promises the application, without   *)
(* threads, sockets or an event loop: an object is made ready, runs, ends  *)
(* and has to be made ready again; while it runs it goes through sessions; *)
(* a stop, once it has taken effect, lets no new session begin and brings  *)
(* the run to its end.  NetworkConnection implements this specification.   *)
(***************************************************************************)
EXTENDS Naturals

CONSTANT RECONNECTS     \* the reconnection modes an object may be given: a set of Booleans

VARIABLES
    life,       \* "ready" | "running" | "finished" | "destroyed"
    session,    \* "none" | "open" (prepared) | "connected"
    stopped,    \* a stop has taken effect and nothing has undone it
    reconnect   \* set_reconnection_mode()

vars == <<life, session, stopped, reconnect>>

TypeOK ==
    /\ life \in {"ready", "running", "finished", "destroyed"}
    /\ session \in {"none", "open", "connected"}
    /\ stopped \in BOOLEAN
    /\ reconnect \in RECONNECTS

Init ==
    /\ life = "ready"
    /\ session = "none"
    /\ stopped = FALSE
    /\ reconnect \in RECONNECTS
-----------------------------------------------------------------------------
(* run() or run_async(). *)
Start ==
    /\ life = "ready"
    /\ life' = "running"
    /\ UNCHANGED <<session, stopped, reconnect>>

BeginSession ==
    /\ life = "running" /\ session = "none" /\ ~stopped
    /\ session' = "open"
    /\ UNCHANGED <<life, stopped, reconnect>>

Connect ==
    /\ session = "open"
    /\ session' = "connected"
    /\ UNCHANGED <<life, stopped, reconnect>>

Disconnect ==
    /\ session = "connected"
    /\ session' = "open"
    /\ UNCHANGED <<life, stopped, reconnect>>

(* A stop that found the session already ended takes effect as it is put away. *)
EndSession ==
    /\ session = "open"
    /\ session' = "none"
    /\ stopped' \in {stopped, TRUE}
    /\ UNCHANGED <<life, reconnect>>

(* The run ends by itself only where it may: without reconnection, or stopped. *)
Finish ==
    /\ life = "running" /\ session = "none"
    /\ stopped \/ ~reconnect
    /\ life' = "finished"
    /\ UNCHANGED <<session, stopped, reconnect>>

(* An exception ends the run wherever it is. *)
Abort ==
    /\ life = "running"
    /\ life' = "finished"
    /\ session' = "none"
    /\ UNCHANGED <<stopped, reconnect>>

(* stop() of an object that is ready makes it unfit to run until reset(). *)
Withdraw ==
    /\ life = "ready"
    /\ life' = "finished"
    /\ UNCHANGED <<session, stopped, reconnect>>

StopTakesEffect ==
    /\ stopped' = TRUE
    /\ UNCHANGED <<life, session, reconnect>>

Reset ==
    /\ life \in {"ready", "finished"}
    /\ life' = "ready"
    /\ stopped' = FALSE
    /\ UNCHANGED <<session, reconnect>>

(* Only an object that is not running is destroyed, and it never runs again. *)
Destroy ==
    /\ life \in {"ready", "finished"}
    /\ life' = "destroyed"
    /\ stopped' = TRUE
    /\ UNCHANGED <<session, reconnect>>

Next ==
    \/ Start \/ BeginSession \/ Connect \/ Disconnect \/ EndSession
    \/ Finish \/ Abort \/ Withdraw \/ StopTakesEffect \/ Reset \/ Destroy

(* A stopped run is wound down; nothing else is promised to happen. *)
WindDown == stopped /\ (Disconnect \/ EndSession \/ Finish \/ Abort)

Spec == Init /\ [][Next]_vars /\ WF_vars(WindDown)
=============================================================================
