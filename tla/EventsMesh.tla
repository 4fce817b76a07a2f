------------------------------ MODULE EventsMesh ------------------------------
(***************************************************************************)
(* The mesh of status events (common/state-events.cpp, .hpp): EventsMesh-  *)
(* Node objects that share a StateEventQueue, from which any of them reads *)
(* what all of them push.  One node, the master, has its callback called   *)
(* for each event, in the thread that pushes it and under callback_mutex.  *)
(*                                                                         *)
(* Pushing, reading and removing events may be done by several threads at  *)
(* once; make(), attach_to_mesh(), set_master(), detach() and the destruc- *)
(* tor of one node are the application's to serialise with the other calls *)
(* of that node (Usable), though not with those of the other nodes.        *)
(*                                                                         *)
(* Abstracted: an event is its number in the order of the calls that push  *)
(* it; the handler given to set_master() is any that reads or removes      *)
(* events and pushes none, as the header demands, and one may replace      *)
(* another; calls that only read events change nothing and are left out.   *)
(* events_mutex is never held longer than a step and needs no variable.    *)
(***************************************************************************)
EXTENDS Naturals, FiniteSets, SequencesExt

CONSTANTS
    NODES,          \* EventsMeshNode objects
    QUEUES,         \* StateEventQueue objects; bounds how many exist at a time
    THREADS,
    MAX_EVENTS,     \* bounds the calls of push_event()
    REATTACH,       \* make() and attach_to_mesh() of a node that is in a mesh
    None            \* nullptr

ASSUME NoneAssumption == None \notin NODES \cup QUEUES \cup THREADS
ASSUME MaxEventsAssumption == MAX_EVENTS \in Nat
ASSUME ReattachAssumption == REATTACH \in BOOLEAN

VARIABLES
    queueOf,        \* events_queue of each node
    dead,           \* nodes that were destroyed
    callback,       \* on_push_event of each queue: the node whose dispatcher it is
    owner,          \* callback_owner of each queue
    held,           \* callback_mutex of each queue: the thread that holds it
    events,         \* state_events of each queue
    pc, node,       \* where each thread is, and the node it called
    ev,             \* the event each thread pushes
    sent,           \* number of calls of push_event()
    from,           \* history: the thread that pushed each event
    taken,          \* history: what get_events_and_clear() has returned
    gone            \* history: events cleared, or destroyed with their queue

meshVars == <<queueOf, dead>>
callbackVars == <<callback, owner, held>>
eventVars == <<events, taken, gone>>
threadVars == <<pc, node>>
pushVars == <<ev, sent, from>>
vars == <<queueOf, dead, callback, owner, held, events, pc, node, ev, sent, from, taken, gone>>

Events == 1..MAX_EVENTS

MeshTypeOK ==
    /\ queueOf \in [NODES -> QUEUES \cup {None}] /\ dead \subseteq NODES
    /\ callback \in [QUEUES -> NODES \cup {None}]
    /\ owner \in [QUEUES -> NODES \cup {None}]
    /\ held \in [QUEUES -> THREADS \cup {None}]

EventTypeOK ==
    /\ events \in [QUEUES -> Seq(Events)] /\ taken \in [QUEUES -> Seq(Events)]
    /\ gone \subseteq Events

ThreadTypeOK ==
    /\ pc \in [THREADS -> {"idle", "append", "call", "calling", "master",
                           "detach", "destroy"}]
    /\ node \in [THREADS -> NODES \cup {None}]

PushTypeOK ==
    /\ sent \in 0..MAX_EVENTS
    /\ ev \in [THREADS -> Events \cup {None}] /\ from \in [Events -> THREADS \cup {None}]

TypeOK == MeshTypeOK /\ EventTypeOK /\ ThreadTypeOK /\ PushTypeOK

Init ==
    /\ queueOf = [n \in NODES |-> None] /\ dead = {}
    /\ callback = [q \in QUEUES |-> None] /\ owner = [q \in QUEUES |-> None]
    /\ held = [q \in QUEUES |-> None]
    /\ events = [q \in QUEUES |-> <<>>] /\ taken = [q \in QUEUES |-> <<>>]
    /\ pc = [t \in THREADS |-> "idle"] /\ node = [t \in THREADS |-> None]
    /\ ev = [t \in THREADS |-> None] /\ sent = 0
    /\ from = [e \in Events |-> None] /\ gone = {}
-----------------------------------------------------------------------------
(* The queue a thread's call works on. *)
Queue(t) == queueOf[node[t]]

InHandler(t, q) == pc[t] = "calling" /\ Queue(t) = q

Configures(t, n) == pc[t] \in {"master", "detach", "destroy"} /\ node[t] = n
Pushes(t, n) == pc[t] \in {"append", "call", "calling"} /\ node[t] = n

(* A node that may be pushed to and read from, and one that may be attached to *)
(* or, besides, changed.  The handler may use its node while the node is being *)
(* detached: detach() waits for it.                                            *)
Usable(n) == n \notin dead /\ \A t \in THREADS : ~Configures(t, n)
Free(n) == Usable(n) /\ \A t \in THREADS : ~Pushes(t, n)
UsedInHandler(t, n) == pc[t] = "calling" /\ callback[Queue(t)] = n

Enters(t, n, p) ==
    /\ pc[t] = "idle"
    /\ pc' = [pc EXCEPT ![t] = p] /\ node' = [node EXCEPT ![t] = n]

Goes(t, p) == pc' = [pc EXCEPT ![t] = p] /\ UNCHANGED node
Returns(t) == pc' = [pc EXCEPT ![t] = "idle"] /\ node' = [node EXCEPT ![t] = None]
-----------------------------------------------------------------------------
(*                        Pushing and taking events                          *)

PushBegins(t, n) ==
    /\ Usable(n) /\ queueOf[n] # None /\ sent < MAX_EVENTS
    /\ Enters(t, n, "append")
    /\ sent' = sent + 1
    /\ ev' = [ev EXCEPT ![t] = sent + 1]
    /\ from' = [from EXCEPT ![sent + 1] = t]
    /\ UNCHANGED <<meshVars, callbackVars, eventVars>>

MutantAppended(q, e) == <<e>> \o events[q]
MutantAppendedEmpty(q, e) == Append(events[q], None)

Appended(q, e) == Append(events[q], e)

(* Under events_mutex. *)
AppendEvent(t) ==
    /\ pc[t] = "append"
    /\ events' = [events EXCEPT ![Queue(t)] = Appended(Queue(t), ev[t])]
    /\ Goes(t, "call")
    /\ UNCHANGED <<meshVars, callbackVars, taken, gone, pushVars>>

(* Under callback_mutex: the dispatcher of the master, if there is one. *)
CallMaster(t) ==
    /\ pc[t] = "call" /\ held[Queue(t)] = None
    /\ IF callback[Queue(t)] = None
       THEN Returns(t) /\ UNCHANGED held
       ELSE Goes(t, "calling") /\ held' = [held EXCEPT ![Queue(t)] = t]
    /\ UNCHANGED <<meshVars, callback, owner, eventVars, pushVars>>

MutantReleased(q) == held[q]

Released(q) == None

MasterReturns(t) ==
    /\ pc[t] = "calling"
    /\ held' = [held EXCEPT ![Queue(t)] = Released(Queue(t))]
    /\ Returns(t)
    /\ UNCHANGED <<meshVars, callback, owner, eventVars, pushVars>>

MutantLeftAfterTaking(q) == events[q]

LeftAfterTaking(q) == <<>>

(* get_events_and_clear() *)
TakeEvents(t, n) ==
    /\ \/ Usable(n) /\ pc[t] = "idle"
       \/ UsedInHandler(t, n)
    /\ queueOf[n] # None
    /\ LET q == queueOf[n] IN
          /\ taken' = [taken EXCEPT ![q] = @ \o events[q]]
          /\ events' = [events EXCEPT ![q] = LeftAfterTaking(q)]
    /\ UNCHANGED <<meshVars, callbackVars, gone, threadVars, pushVars>>

(* clear() *)
ClearEvents(t, n) ==
    /\ \/ Usable(n) /\ pc[t] = "idle"
       \/ UsedInHandler(t, n)
    /\ queueOf[n] # None
    /\ gone' = gone \cup ToSet(events[queueOf[n]])
    /\ events' = [events EXCEPT ![queueOf[n]] = <<>>]
    /\ UNCHANGED <<meshVars, callbackVars, taken, threadVars, pushVars>>
-----------------------------------------------------------------------------
(*                          Building the mesh                                *)

(* The queue that is destroyed when a node lets go of it. *)
Dropped(n) ==
    {q \in QUEUES : queueOf[n] = q /\ \A m \in NODES \ {n} : queueOf[m] # q}

Without(f, Q) == [q \in QUEUES |-> IF q \in Q THEN None ELSE f[q]]

(* A node's events_queue is assigned, and callbacks removed. *)
Moves(n, q, cleared) ==
    /\ queueOf' = [queueOf EXCEPT ![n] = q]
    /\ callback' = Without(callback, cleared \cup Dropped(n))
    /\ owner' = Without(owner, Dropped(n))
    /\ gone' = gone \cup UNION {ToSet(events[d]) : d \in Dropped(n)}
    /\ events' = [d \in QUEUES |-> IF d \in Dropped(n) THEN <<>> ELSE events[d]]
    /\ UNCHANGED <<held, taken>>

(* A node that is in no mesh, or one that is not left before, though with its  *)
(* handler at rest.                                                            *)
MayMove(n) ==
    /\ Free(n)
    /\ queueOf[n] # None => REATTACH /\ \A t \in THREADS : ~UsedInHandler(t, n)

Make(t, n) ==
    /\ pc[t] = "idle" /\ MayMove(n)
    /\ \E q \in QUEUES : /\ \A m \in NODES : queueOf[m] # q
                         /\ Moves(n, q, {})
    /\ UNCHANGED <<dead, threadVars, pushVars>>

(* The queue of the other node, and nothing else, is taken over. *)
AttachToMesh(t, n, other) ==
    /\ pc[t] = "idle" /\ MayMove(n) /\ Usable(other) /\ n # other
    /\ queueOf[other] # None
    /\ Moves(n, queueOf[other], {})
    /\ UNCHANGED <<dead, threadVars, pushVars>>

(* set_master(): its handler is stored, without a mutex, ...                  *)
SetMasterBegins(t, n) ==
    /\ Free(n)
    /\ Enters(t, n, "master")
    /\ UNCHANGED <<meshVars, callbackVars, eventVars, pushVars>>

(* ... and its dispatcher, which replaces another node's, installed if the    *)
(* node is in a mesh already.                                                 *)
SetMasterEnds(t) ==
    /\ pc[t] = "master"
    /\ LET q == Queue(t) IN
          IF q = None THEN UNCHANGED <<callback, owner>>
                      ELSE /\ held[q] = None
                           /\ callback' = [callback EXCEPT ![q] = node[t]]
                           /\ owner' = [owner EXCEPT ![q] = node[t]]
    /\ Returns(t)
    /\ UNCHANGED <<meshVars, held, eventVars, pushVars>>

(* detach(), and the destructor, which calls it. *)
DetachBegins(t, n) ==
    /\ Free(n)
    /\ \E p \in {"detach", "destroy"} : Enters(t, n, p)
    /\ UNCHANGED <<meshVars, callbackVars, eventVars, pushVars>>

MutantMayDetach(q) == TRUE

(* clear_owned_on_push_event_handler() waits for callback_mutex. *)
MayDetach(q) == held[q] = None

MutantOwns(n, q) == TRUE

Owns(n, q) == owner[q] = n

DetachEnds(t) ==
    /\ pc[t] \in {"detach", "destroy"}
    /\ IF Queue(t) = None
       THEN UNCHANGED <<queueOf, callbackVars, eventVars>>
       ELSE /\ MayDetach(Queue(t))
            /\ Moves(node[t], None, {q \in {Queue(t)} : Owns(node[t], q)})
    /\ dead' = IF pc[t] = "destroy" THEN dead \cup {node[t]} ELSE dead
    /\ Returns(t)
    /\ UNCHANGED pushVars
-----------------------------------------------------------------------------
(* Destroyed nodes are not used any more. *)
Gone == dead = NODES /\ UNCHANGED vars

Continues(t) ==
    \/ AppendEvent(t) \/ CallMaster(t) \/ MasterReturns(t)
    \/ SetMasterEnds(t) \/ DetachEnds(t)

Next ==
    \/ \E t \in THREADS :
          \/ Continues(t)
          \/ \E n \in NODES :
                \/ PushBegins(t, n) \/ TakeEvents(t, n) \/ ClearEvents(t, n)
                \/ Make(t, n) \/ SetMasterBegins(t, n) \/ DetachBegins(t, n)
                \/ \E other \in NODES : AttachToMesh(t, n, other)
    \/ Gone

(* A thread goes on with its call, and handlers return.  That is enough for a *)
(* thread to get callback_mutex because MAX_EVENTS bounds the calls that hold *)
(* it for longer than a step.                                                 *)
Fairness == \A t \in THREADS : WF_vars(Continues(t))

Spec == Init /\ [][Next]_vars /\ Fairness
-----------------------------------------------------------------------------
(* All events that went through a queue, in the order of its list. *)
History(q) == taken[q] \o events[q]

InLists(e) ==
    LET Holds(q, i) == i \in DOMAIN History(q) /\ History(q)[i] = e
    IN  Cardinality({p \in QUEUES \X Events : Holds(p[1], p[2])})

IsAppended(e) == e <= sent /\ \A t \in THREADS : ~(pc[t] = "append" /\ ev[t] = e)

(* However pushes, readers and changes of the mesh interleave, an event that  *)
(* was pushed is in one list or was taken, exactly once, unless it was cleared*)
(* or its mesh has lost its last node.                                        *)
EventsOnce ==
    \A e \in Events : InLists(e) = IF IsAppended(e) /\ e \notin gone THEN 1 ELSE 0

(* The events one thread pushes to a mesh are read in the order of its calls. *)
PerThreadOrder ==
    \A q \in QUEUES : \A i, j \in DOMAIN History(q) :
        i < j /\ from[History(q)[i]] = from[History(q)[j]]
            => History(q)[i] < History(q)[j]

(* A node's callback runs only while the node is in that mesh: detach() and   *)
(* the destructor wait for a call that is under way and let no other begin.   *)
HandlerBelongsToMember ==
    \A t \in THREADS, q \in QUEUES :
        InHandler(t, q) => callback[q] # None /\ queueOf[callback[q]] = q

(* A node's callback is removed at the request of its owner only: a node that *)
(* leaves does not take another node's callback with it.                      *)
OthersKeepTheirCallback ==
    [][\A q \in QUEUES :
          callback[q] # None /\ callback'[q] = None => queueOf'[callback[q]] # q]_vars

(* push_event(), set_master(), detach() and the destructor return, whatever   *)
(* the other threads do, if the handler returns.                              *)
CallsReturn == \A t \in THREADS : pc[t] # "idle" ~> pc[t] = "idle"
-----------------------------------------------------------------------------
(*     The inductive invariant behind HandlerBelongsToMember, ~REATTACH      *)

(* A thread in a call has the node to itself if it changes it, and otherwise  *)
(* a node that stays in its mesh.                                             *)
NodeInv ==
    /\ \A t \in THREADS : pc[t] # "idle" => node[t] \in NODES
    /\ \A t \in THREADS : pc[t] \in {"append", "call", "calling"} => Queue(t) # None
    /\ \A t \in THREADS : pc[t] = "append" => ev[t] \in Events
    /\ \A t, u \in THREADS :
          pc[t] \in {"master", "detach", "destroy"} /\ pc[u] # "idle" /\ node[u] = node[t]
              => t = u

(* callback_mutex is held by the one thread in the handler, of a master that  *)
(* is still there.                                                            *)
LockInv ==
    /\ \A t \in THREADS : pc[t] = "calling" => held[Queue(t)] = t
    /\ \A q \in QUEUES : held[q] # None =>
          callback[q] # None /\ \E t \in THREADS : InHandler(t, q)

(* A callback is its owner's, and the owner is in the mesh. *)
CallbackInv ==
    \A q \in QUEUES : callback[q] # None => callback[q] = owner[q]
                                            /\ queueOf[callback[q]] = q

(* A destroyed node is in no mesh. *)
DeadInv == \A n \in dead : queueOf[n] = None

IInv == TypeOK /\ NodeInv /\ LockInv /\ CallbackInv /\ DeadInv
-----------------------------------------------------------------------------
(*     What the header says and the code does not do (state-events.hpp)      *)

(* "When the master node is destroyed ... the callback is no longer called":  *)
(* a master that attach_to_mesh() or make() takes to another queue leaves its *)
(* dispatcher in the old one, where its destructor does not look for it.      *)
DestroyedMasterIsSilent ==
    \A t \in THREADS, q \in QUEUES : InHandler(t, q) => callback[q] \notin dead
=============================================================================
