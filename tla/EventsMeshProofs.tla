--------------------------- MODULE EventsMeshProofs ---------------------------
(***************************************************************************)
(* Theorems about EventsMesh for any nodes, threads, queues and events.    *)
(***************************************************************************)
EXTENDS EventsMesh, SequenceTheorems, FiniteSetTheorems, TLAPS

(* A node in no mesh destroys no queue by entering one. *)
LEMMA NothingDropped ==
  ASSUME NEW n \in NODES, queueOf[n] = None
  PROVE  Dropped(n) = {}
  BY NoneAssumption DEF Dropped

(* The nodes, and what the queues know of them, keep their types. *)
LEMMA MeshStep == MeshTypeOK /\ NodeInv /\ [Next]_vars => MeshTypeOK'
<1> SUFFICES ASSUME MeshTypeOK, NodeInv, [Next]_vars PROVE MeshTypeOK'
  OBVIOUS
<1> USE DEF MeshTypeOK, meshVars, callbackVars
<1>1. ASSUME NEW t \in THREADS, NEW n \in NODES, PushBegins(t, n) PROVE MeshTypeOK'
  BY <1>1 DEF PushBegins
<1>2. ASSUME NEW t \in THREADS, AppendEvent(t) PROVE MeshTypeOK'
  BY <1>2 DEF AppendEvent
<1>3. ASSUME NEW t \in THREADS, CallMaster(t) \/ MasterReturns(t) PROVE MeshTypeOK'
  BY <1>3 DEF CallMaster, MasterReturns, Released
<1>4. ASSUME NEW t \in THREADS, NEW n \in NODES, TakeEvents(t, n) \/ ClearEvents(t, n)
      PROVE  MeshTypeOK'
  BY <1>4 DEF TakeEvents, ClearEvents
<1>5. ASSUME NEW t \in THREADS, NEW n \in NODES, Make(t, n) PROVE MeshTypeOK'
  BY <1>5 DEF Make, Moves, Without
<1>6. ASSUME NEW t \in THREADS, NEW n \in NODES, NEW m \in NODES, AttachToMesh(t, n, m)
      PROVE  MeshTypeOK'
  BY <1>6 DEF AttachToMesh, Moves, Without
<1>7. ASSUME NEW t \in THREADS, NEW n \in NODES, SetMasterBegins(t, n) \/ DetachBegins(t, n)
      PROVE  MeshTypeOK'
  BY <1>7 DEF SetMasterBegins, DetachBegins
<1>8. ASSUME NEW t \in THREADS, SetMasterEnds(t) PROVE MeshTypeOK'
  BY <1>8 DEF SetMasterEnds, NodeInv
<1>9. ASSUME NEW t \in THREADS, DetachEnds(t) PROVE MeshTypeOK'
  <2>1. node[t] \in NODES
    BY <1>9 DEF DetachEnds, NodeInv
  <2>2. dead' \subseteq NODES
    BY <1>9, <2>1 DEF DetachEnds
  <2>3. CASE Queue(t) = None
    BY <1>9, <2>2, <2>3 DEF DetachEnds
  <2>4. CASE Queue(t) # None
    BY <1>9, <2>1, <2>2, <2>4 DEF DetachEnds, Moves, Without
  <2>5. QED
    BY <2>3, <2>4
<1>10. CASE Gone \/ UNCHANGED vars
  BY <1>10 DEF Gone, vars
<1>11. QED
  BY <1>1, <1>2, <1>3, <1>4, <1>5, <1>6, <1>7, <1>8, <1>9, <1>10 DEF Next, Continues

(* The program counters keep their types. *)
LEMMA ThreadStep == ThreadTypeOK /\ [Next]_vars => ThreadTypeOK'
<1> SUFFICES ASSUME ThreadTypeOK, [Next]_vars PROVE ThreadTypeOK'
  OBVIOUS
<1> USE DEF ThreadTypeOK, threadVars, Enters, Goes, Returns
<1>1. ASSUME NEW t \in THREADS, Continues(t) PROVE ThreadTypeOK'
  BY <1>1 DEF Continues, AppendEvent, CallMaster, MasterReturns, SetMasterEnds, DetachEnds
<1>2. ASSUME NEW t \in THREADS, NEW n \in NODES,
             PushBegins(t, n) \/ SetMasterBegins(t, n) \/ DetachBegins(t, n)
      PROVE  ThreadTypeOK'
  BY <1>2 DEF PushBegins, SetMasterBegins, DetachBegins
<1>3. ASSUME NEW t \in THREADS, NEW n \in NODES,
             TakeEvents(t, n) \/ ClearEvents(t, n) \/ Make(t, n)
      PROVE  ThreadTypeOK'
  BY <1>3 DEF TakeEvents, ClearEvents, Make
<1>4. ASSUME NEW t \in THREADS, NEW n \in NODES, NEW m \in NODES, AttachToMesh(t, n, m)
      PROVE  ThreadTypeOK'
  BY <1>4 DEF AttachToMesh
<1>5. CASE Gone \/ UNCHANGED vars
  BY <1>5 DEF Gone, vars
<1>6. QED
  BY <1>1, <1>2, <1>3, <1>4, <1>5 DEF Next

(* Events have numbers, and every call of push_event() the next one. *)
LEMMA PushStep == PushTypeOK /\ [Next]_vars => PushTypeOK'
<1> SUFFICES ASSUME PushTypeOK, [Next]_vars PROVE PushTypeOK'
  OBVIOUS
<1> USE DEF PushTypeOK, pushVars
<1>1. ASSUME NEW t \in THREADS, Continues(t) PROVE PushTypeOK'
  BY <1>1 DEF Continues, AppendEvent, CallMaster, MasterReturns, SetMasterEnds, DetachEnds
<1>2. ASSUME NEW t \in THREADS, NEW n \in NODES, PushBegins(t, n) PROVE PushTypeOK'
  <2>1. sent + 1 \in Events /\ sent + 1 \in 0..MAX_EVENTS
    BY <1>2, MaxEventsAssumption DEF PushBegins, Events
  <2>2. QED
    BY <1>2, <2>1 DEF PushBegins
<1>3. ASSUME NEW t \in THREADS, NEW n \in NODES,
             TakeEvents(t, n) \/ ClearEvents(t, n) \/ Make(t, n)
             \/ SetMasterBegins(t, n) \/ DetachBegins(t, n)
      PROVE  PushTypeOK'
  BY <1>3 DEF TakeEvents, ClearEvents, Make, SetMasterBegins, DetachBegins
<1>4. ASSUME NEW t \in THREADS, NEW n \in NODES, NEW m \in NODES, AttachToMesh(t, n, m)
      PROVE  PushTypeOK'
  BY <1>4 DEF AttachToMesh
<1>5. CASE Gone \/ UNCHANGED vars
  BY <1>5 DEF Gone, vars
<1>6. QED
  BY <1>1, <1>2, <1>3, <1>4, <1>5 DEF Next

(* The lists hold events. *)
LEMMA EventStep ==
    EventTypeOK /\ MeshTypeOK /\ NodeInv /\ [Next]_vars => EventTypeOK'
<1> SUFFICES ASSUME EventTypeOK, MeshTypeOK, NodeInv, [Next]_vars PROVE EventTypeOK'
  OBVIOUS
<1> USE DEF EventTypeOK, eventVars
<1>1. ASSUME NEW t \in THREADS, NEW n \in NODES,
             PushBegins(t, n) \/ SetMasterBegins(t, n) \/ DetachBegins(t, n)
      PROVE  EventTypeOK'
  BY <1>1 DEF PushBegins, SetMasterBegins, DetachBegins
<1>2. ASSUME NEW t \in THREADS, AppendEvent(t) PROVE EventTypeOK'
  <2>1. Queue(t) \in QUEUES /\ ev[t] \in Events
    BY <1>2 DEF AppendEvent, NodeInv, MeshTypeOK, Queue
  <2>2. Appended(Queue(t), ev[t]) \in Seq(Events)
    BY <2>1 DEF Appended
  <2>3. QED
    BY <1>2, <2>2 DEF AppendEvent
<1>3. ASSUME NEW t \in THREADS, CallMaster(t) \/ MasterReturns(t) \/ SetMasterEnds(t)
      PROVE  EventTypeOK'
  BY <1>3 DEF CallMaster, MasterReturns, SetMasterEnds
<1>4. ASSUME NEW t \in THREADS, NEW n \in NODES, TakeEvents(t, n) PROVE EventTypeOK'
  <2>1. queueOf[n] \in QUEUES
    BY <1>4 DEF TakeEvents, MeshTypeOK
  <2>2. taken[queueOf[n]] \o events[queueOf[n]] \in Seq(Events)
    BY <2>1
  <2>3. QED
    BY <1>4, <2>1, <2>2 DEF TakeEvents, LeftAfterTaking
<1>5. ASSUME NEW q \in QUEUES PROVE ToSet(events[q]) \subseteq Events
  BY DEF ToSet
<1>6. ASSUME NEW t \in THREADS, NEW n \in NODES, ClearEvents(t, n) PROVE EventTypeOK'
  <2>1. queueOf[n] \in QUEUES
    BY <1>6 DEF ClearEvents, MeshTypeOK
  <2>2. QED
    BY <1>5, <1>6, <2>1 DEF ClearEvents
<1>7. ASSUME NEW n \in NODES, NEW q, NEW C, Moves(n, q, C) PROVE EventTypeOK'
  <2>1. UNION {ToSet(events[d]) : d \in Dropped(n)} \subseteq Events
    BY <1>5 DEF Dropped
  <2>2. QED
    BY <1>7, <2>1 DEF Moves
<1>8. ASSUME NEW t \in THREADS, NEW n \in NODES, Make(t, n) PROVE EventTypeOK'
  BY <1>7, <1>8 DEF Make
<1>9. ASSUME NEW t \in THREADS, NEW n \in NODES, NEW m \in NODES, AttachToMesh(t, n, m)
      PROVE  EventTypeOK'
  BY <1>7, <1>9 DEF AttachToMesh
<1>10. ASSUME NEW t \in THREADS, DetachEnds(t) PROVE EventTypeOK'
  <2>1. node[t] \in NODES
    BY <1>10 DEF DetachEnds, NodeInv
  <2>2. QED
    BY <1>7, <1>10, <2>1 DEF DetachEnds
<1>11. CASE Gone \/ UNCHANGED vars
  BY <1>11 DEF Gone, vars
<1>12. QED
  BY <1>1, <1>2, <1>3, <1>4, <1>6, <1>8, <1>9, <1>10, <1>11 DEF Next, Continues

(* Only a node that nobody uses changes its queue, so what a thread needs of  *)
(* its node stays.                                                            *)
LEMMA NodeStep ==
    MeshTypeOK /\ ThreadTypeOK /\ PushTypeOK /\ NodeInv /\ [Next]_vars => NodeInv'
<1> SUFFICES ASSUME MeshTypeOK, ThreadTypeOK, PushTypeOK, NodeInv, [Next]_vars
             PROVE  NodeInv'
  OBVIOUS
<1> USE DEF NodeInv, ThreadTypeOK, Queue, threadVars, pushVars, meshVars
<1>1. ASSUME NEW t \in THREADS, NEW n \in NODES, PushBegins(t, n) PROVE NodeInv'
  <2>1. sent + 1 \in Events
    BY <1>1, MaxEventsAssumption DEF PushBegins, Events, PushTypeOK
  <2>2. \A u \in THREADS : ~Configures(u, n)
    BY <1>1 DEF PushBegins, Usable
  <2>3. /\ pc' = [pc EXCEPT ![t] = "append"] /\ node' = [node EXCEPT ![t] = n]
        /\ queueOf' = queueOf /\ queueOf[n] # None /\ ev'[t] \in Events
        /\ \A u \in THREADS \ {t} : ev'[u] = ev[u]
    BY <1>1, <2>1 DEF PushBegins, Enters, PushTypeOK
  <2>4. QED
    BY <2>2, <2>3 DEF Configures
<1>2. ASSUME NEW t \in THREADS, AppendEvent(t) \/ CallMaster(t) \/ MasterReturns(t)
      PROVE  NodeInv'
  BY <1>2 DEF AppendEvent, CallMaster, MasterReturns, Goes, Returns
<1>3. ASSUME NEW t \in THREADS, NEW n \in NODES, TakeEvents(t, n) \/ ClearEvents(t, n)
      PROVE  NodeInv'
  BY <1>3 DEF TakeEvents, ClearEvents
<1>4. ASSUME NEW t \in THREADS, NEW n \in NODES,
             SetMasterBegins(t, n) \/ DetachBegins(t, n)
      PROVE  NodeInv'
  <2>1. \A u \in THREADS : ~Configures(u, n) /\ ~Pushes(u, n)
    BY <1>4 DEF SetMasterBegins, DetachBegins, Free, Usable
  <2>2. \A u \in THREADS : pc[u] # "idle" => node[u] # n
    BY <2>1 DEF Configures, Pushes
  <2>3. QED
    BY <1>4, <2>2 DEF SetMasterBegins, DetachBegins, Enters
<1>5. ASSUME NEW n \in NODES, NEW q \in QUEUES, Free(n),
             queueOf' = [queueOf EXCEPT ![n] = q], pc' = pc, node' = node, ev' = ev
      PROVE  NodeInv'
  <2>1. \A u \in THREADS : pc[u] \in {"append", "call", "calling"} => node[u] # n
    BY <1>5 DEF Free, Pushes
  <2>2. QED
    BY <1>5, <2>1 DEF MeshTypeOK
<1>6. ASSUME NEW t \in THREADS, NEW n \in NODES, Make(t, n) PROVE NodeInv'
  BY <1>5, <1>6 DEF Make, MayMove, Moves
<1>7. ASSUME NEW t \in THREADS, NEW n \in NODES, NEW m \in NODES, AttachToMesh(t, n, m)
      PROVE  NodeInv'
  <2>1. queueOf[m] \in QUEUES
    BY <1>7 DEF AttachToMesh, MeshTypeOK
  <2>2. QED
    BY <1>5, <1>7, <2>1 DEF AttachToMesh, MayMove, Moves
<1>8. ASSUME NEW t \in THREADS, SetMasterEnds(t) PROVE NodeInv'
  BY <1>8 DEF SetMasterEnds, Returns
<1>9. ASSUME NEW t \in THREADS, DetachEnds(t) PROVE NodeInv'
  <2>1. node[t] \in NODES /\ \A u \in THREADS \ {t} : pc[u] # "idle" => node[u] # node[t]
    BY <1>9 DEF DetachEnds
  <2>2. queueOf' = queueOf \/ queueOf' = [queueOf EXCEPT ![node[t]] = None]
    BY <1>9 DEF DetachEnds, Moves
  <2>3. /\ pc' = [pc EXCEPT ![t] = "idle"] /\ node' = [node EXCEPT ![t] = None]
        /\ ev' = ev
    BY <1>9 DEF DetachEnds, Returns
  <2>4. QED
    BY <2>1, <2>2, <2>3 DEF MeshTypeOK
<1>10. CASE Gone \/ UNCHANGED vars
  BY <1>10 DEF Gone, vars
<1>11. QED
  BY <1>1, <1>2, <1>3, <1>4, <1>6, <1>7, <1>8, <1>9, <1>10 DEF Next, Continues

(* A callback goes with its owner. *)
LEMMA CallbackStep ==
  ASSUME ~REATTACH
  PROVE  MeshTypeOK /\ NodeInv /\ CallbackInv /\ [Next]_vars => CallbackInv'
<1> SUFFICES ASSUME MeshTypeOK, NodeInv, CallbackInv, [Next]_vars PROVE CallbackInv'
  OBVIOUS
<1> USE DEF CallbackInv, MeshTypeOK, meshVars, callbackVars
<1>1. ASSUME NEW t \in THREADS, NEW n \in NODES,
             \/ PushBegins(t, n) \/ TakeEvents(t, n) \/ ClearEvents(t, n)
             \/ SetMasterBegins(t, n) \/ DetachBegins(t, n)
      PROVE  CallbackInv'
  BY <1>1 DEF PushBegins, TakeEvents, ClearEvents, SetMasterBegins, DetachBegins
<1>2. ASSUME NEW t \in THREADS, AppendEvent(t) \/ CallMaster(t) \/ MasterReturns(t)
      PROVE  CallbackInv'
  BY <1>2 DEF AppendEvent, CallMaster, MasterReturns
<1>3. ASSUME NEW n \in NODES, NEW q, queueOf[n] = None, Moves(n, q, {}) PROVE CallbackInv'
  <2>1. callback' = Without(callback, {}) /\ owner' = Without(owner, {})
    BY <1>3, NothingDropped DEF Moves
  <2>2. \A p \in QUEUES : callback[p] # None => callback[p] # n
    BY <1>3, NoneAssumption
  <2>3. QED
    BY <1>3, <2>1, <2>2 DEF Moves, Without
<1>4. ASSUME NEW t \in THREADS, NEW n \in NODES, Make(t, n) PROVE CallbackInv'
  BY <1>3, <1>4 DEF Make, MayMove
<1>5. ASSUME NEW t \in THREADS, NEW n \in NODES, NEW m \in NODES, AttachToMesh(t, n, m)
      PROVE  CallbackInv'
  BY <1>3, <1>5 DEF AttachToMesh, MayMove
<1>6. ASSUME NEW t \in THREADS, SetMasterEnds(t) PROVE CallbackInv'
  BY <1>6 DEF SetMasterEnds, NodeInv, Queue
<1>7. ASSUME NEW t \in THREADS, DetachEnds(t) PROVE CallbackInv'
  <2>1. node[t] \in NODES
    BY <1>7 DEF DetachEnds, NodeInv
  <2>2. CASE Queue(t) = None
    BY <1>7, <2>2 DEF DetachEnds
  <2>3. CASE Queue(t) # None
    <3> DEFINE cleared == {q \in {Queue(t)} : Owns(node[t], q)}
    <3>1. /\ queueOf' = [queueOf EXCEPT ![node[t]] = None]
          /\ callback' = Without(callback, cleared \cup Dropped(node[t]))
          /\ owner' = Without(owner, Dropped(node[t]))
      BY <1>7, <2>3 DEF DetachEnds, Moves
    <3>2. SUFFICES ASSUME NEW q \in QUEUES, callback'[q] # None
                   PROVE  callback'[q] = owner'[q] /\ queueOf'[callback'[q]] = q
      OBVIOUS
    <3>3. q \notin cleared /\ q \notin Dropped(node[t]) /\ callback'[q] = callback[q]
          /\ owner'[q] = owner[q]
      BY <3>1, <3>2 DEF Without
    <3>4. callback[q] # node[t]
      BY <3>2, <3>3 DEF Owns, Queue
    <3>5. QED
      BY <2>1, <3>1, <3>2, <3>3, <3>4
  <2>4. QED
    BY <2>2, <2>3
<1>8. CASE Gone \/ UNCHANGED vars
  BY <1>8 DEF Gone, vars
<1>9. QED
  BY <1>1, <1>2, <1>4, <1>5, <1>6, <1>7, <1>8 DEF Next, Continues

(* The handler's thread keeps callback_mutex, and its master cannot leave. *)
LEMMA LockStep ==
  ASSUME ~REATTACH
  PROVE  MeshTypeOK /\ ThreadTypeOK /\ NodeInv /\ LockInv /\ [Next]_vars => LockInv'
<1> SUFFICES ASSUME MeshTypeOK, ThreadTypeOK, NodeInv, LockInv, [Next]_vars
             PROVE  LockInv'
  OBVIOUS
<1> USE DEF LockInv, InHandler, Queue, MeshTypeOK, ThreadTypeOK, meshVars, callbackVars,
            threadVars
<1>1. ASSUME NEW t \in THREADS, NEW n \in NODES,
             PushBegins(t, n) \/ SetMasterBegins(t, n) \/ DetachBegins(t, n)
      PROVE  LockInv'
  <2>1. /\ pc[t] = "idle" /\ node' = [node EXCEPT ![t] = n]
        /\ \E p \in {"append", "master", "detach", "destroy"} : pc' = [pc EXCEPT ![t] = p]
        /\ queueOf' = queueOf /\ callback' = callback /\ held' = held
    BY <1>1 DEF PushBegins, SetMasterBegins, DetachBegins, Enters
  <2>2. QED
    BY <2>1
<1>2. ASSUME NEW t \in THREADS, AppendEvent(t) PROVE LockInv'
  BY <1>2 DEF AppendEvent, Goes
<1>3. ASSUME NEW t \in THREADS, CallMaster(t) PROVE LockInv'
  <2>1. Queue(t) \in QUEUES /\ held[Queue(t)] = None /\ pc[t] = "call"
    BY <1>3 DEF CallMaster, NodeInv
  <2>2. CASE callback[Queue(t)] = None
    BY <1>3, <2>1, <2>2 DEF CallMaster, Returns
  <2>3. CASE callback[Queue(t)] # None
    <3>1. /\ pc' = [pc EXCEPT ![t] = "calling"] /\ node' = node /\ queueOf' = queueOf
          /\ callback' = callback /\ held' = [held EXCEPT ![Queue(t)] = t]
      BY <1>3, <2>3 DEF CallMaster, Goes
    <3>2. \A u \in THREADS : pc[u] = "calling" => Queue(u) # Queue(t)
      BY <2>1, NoneAssumption
    <3>3. QED
      BY <2>1, <2>3, <3>1, <3>2
  <2>4. QED
    BY <2>2, <2>3
<1>4. ASSUME NEW t \in THREADS, MasterReturns(t) PROVE LockInv'
  <2>1. /\ pc[t] = "calling" /\ pc' = [pc EXCEPT ![t] = "idle"]
        /\ node' = [node EXCEPT ![t] = None] /\ queueOf' = queueOf /\ callback' = callback
        /\ held' = [held EXCEPT ![Queue(t)] = None]
    BY <1>4 DEF MasterReturns, Returns, Released
  <2>2. \A u \in THREADS \ {t} : pc[u] = "calling" => Queue(u) # Queue(t)
    BY <2>1
  <2>3. \A u \in THREADS : pc[u] = "calling" => Queue(u) \in QUEUES
    BY DEF NodeInv
  <2>4. QED
    BY <2>1, <2>2, <2>3
<1>5. ASSUME NEW t \in THREADS, NEW n \in NODES, TakeEvents(t, n) \/ ClearEvents(t, n)
      PROVE  LockInv'
  BY <1>5 DEF TakeEvents, ClearEvents
<1>6. ASSUME NEW n \in NODES, NEW q, queueOf[n] = None, Moves(n, q, {}), pc' = pc,
             node' = node
      PROVE  LockInv'
  <2>1. callback' = callback /\ held' = held /\ queueOf' = [queueOf EXCEPT ![n] = q]
    BY <1>6, NothingDropped DEF Moves, Without
  <2>2. \A u \in THREADS : pc[u] = "calling" => node[u] \in NODES /\ node[u] # n
    BY <1>6 DEF NodeInv
  <2>3. \A u \in THREADS : pc[u] = "calling" => Queue(u)' = Queue(u)
    BY <1>6, <2>1, <2>2
  <2>4. QED
    BY <1>6, <2>1, <2>3
<1>7. ASSUME NEW t \in THREADS, NEW n \in NODES, Make(t, n) PROVE LockInv'
  BY <1>6, <1>7 DEF Make, MayMove
<1>8. ASSUME NEW t \in THREADS, NEW n \in NODES, NEW m \in NODES, AttachToMesh(t, n, m)
      PROVE  LockInv'
  BY <1>6, <1>8 DEF AttachToMesh, MayMove
<1>9. ASSUME NEW t \in THREADS, SetMasterEnds(t) PROVE LockInv'
  <2>1. /\ pc[t] = "master" /\ pc' = [pc EXCEPT ![t] = "idle"] /\ node[t] \in NODES
        /\ node' = [node EXCEPT ![t] = None] /\ queueOf' = queueOf /\ held' = held
    BY <1>9 DEF SetMasterEnds, Returns, NodeInv
  <2>2. \A q \in QUEUES : callback[q] # None => callback'[q] # None
    BY <1>9, <2>1, NoneAssumption DEF SetMasterEnds
  <2>3. QED
    BY <2>1, <2>2
<1>10. ASSUME NEW t \in THREADS, DetachEnds(t) PROVE LockInv'
  <2>1. /\ pc[t] \in {"detach", "destroy"} /\ pc' = [pc EXCEPT ![t] = "idle"]
        /\ node' = [node EXCEPT ![t] = None] /\ held' = held
    BY <1>10 DEF DetachEnds, Returns, Moves
  <2>2. \A u \in THREADS \ {t} : pc[u] = "calling" =>
           node[u] \in NODES /\ node[u] # node[t] /\ Queue(u) \in QUEUES
    BY <2>1 DEF NodeInv
  <2>3. \A u \in THREADS \ {t} : pc[u] = "calling" => Queue(u)' = Queue(u)
    BY <1>10, <2>1, <2>2 DEF DetachEnds, Moves
  <2>4. \A q \in QUEUES : held[q] # None => callback'[q] = callback[q]
    BY <1>10, <2>1 DEF DetachEnds, Moves, Without, MayDetach, Dropped
  <2>5. QED
    BY <2>1, <2>2, <2>3, <2>4
<1>11. CASE Gone \/ UNCHANGED vars
  BY <1>11 DEF Gone, vars
<1>12. QED
  BY <1>1, <1>2, <1>3, <1>4, <1>5, <1>7, <1>8, <1>9, <1>10, <1>11 DEF Next, Continues

(* Nobody takes a destroyed node into a mesh. *)
LEMMA DeadStep == MeshTypeOK /\ NodeInv /\ DeadInv /\ [Next]_vars => DeadInv'
<1> SUFFICES ASSUME MeshTypeOK, NodeInv, DeadInv, [Next]_vars PROVE DeadInv'
  OBVIOUS
<1> USE DEF DeadInv, MeshTypeOK, meshVars
<1>1. ASSUME NEW t \in THREADS, NEW n \in NODES,
             \/ PushBegins(t, n) \/ TakeEvents(t, n) \/ ClearEvents(t, n)
             \/ SetMasterBegins(t, n) \/ DetachBegins(t, n)
      PROVE  DeadInv'
  BY <1>1 DEF PushBegins, TakeEvents, ClearEvents, SetMasterBegins, DetachBegins
<1>2. ASSUME NEW t \in THREADS,
             AppendEvent(t) \/ CallMaster(t) \/ MasterReturns(t) \/ SetMasterEnds(t)
      PROVE  DeadInv'
  BY <1>2 DEF AppendEvent, CallMaster, MasterReturns, SetMasterEnds
<1>3. ASSUME NEW t \in THREADS, NEW n \in NODES, Make(t, n) PROVE DeadInv'
  BY <1>3 DEF Make, MayMove, Free, Usable, Moves
<1>4. ASSUME NEW t \in THREADS, NEW n \in NODES, NEW m \in NODES, AttachToMesh(t, n, m)
      PROVE  DeadInv'
  BY <1>4 DEF AttachToMesh, MayMove, Free, Usable, Moves
<1>5. ASSUME NEW t \in THREADS, DetachEnds(t) PROVE DeadInv'
  <2>1. node[t] \in NODES
    BY <1>5 DEF DetachEnds, NodeInv
  <2>2. queueOf'[node[t]] = None /\ \A n \in NODES \ {node[t]} : queueOf'[n] = queueOf[n]
    BY <1>5, <2>1 DEF DetachEnds, Moves, Queue
  <2>3. dead' \subseteq dead \cup {node[t]}
    BY <1>5 DEF DetachEnds
  <2>4. QED
    BY <2>2, <2>3
<1>6. CASE Gone \/ UNCHANGED vars
  BY <1>6 DEF Gone, vars
<1>7. QED
  BY <1>1, <1>2, <1>3, <1>4, <1>5, <1>6 DEF Next, Continues

(* The types and what a thread knows of its node need no assumption. *)
LEMMA TypeInvariance == Spec => [](TypeOK /\ NodeInv)
<1>1. Init => TypeOK /\ NodeInv
  <2>1. Init => MeshTypeOK /\ ThreadTypeOK /\ NodeInv
    BY DEF Init, MeshTypeOK, ThreadTypeOK, NodeInv
  <2>2. Init => EventTypeOK /\ PushTypeOK
    BY MaxEventsAssumption DEF Init, EventTypeOK, PushTypeOK
  <2>3. QED
    BY <2>1, <2>2 DEF TypeOK
<1>2. TypeOK /\ NodeInv /\ [Next]_vars => (TypeOK /\ NodeInv)'
  BY MeshStep, ThreadStep, PushStep, EventStep, NodeStep DEF TypeOK
<1>3. QED
  BY <1>1, <1>2, PTL DEF Spec

(* Every behaviour of nodes that detach before they move satisfies IInv. *)
LEMMA Invariance == ASSUME ~REATTACH PROVE Spec => []IInv
<1>1. Init => LockInv /\ CallbackInv /\ DeadInv
  BY DEF Init, LockInv, CallbackInv, DeadInv
<1>2. TypeOK /\ NodeInv /\ LockInv /\ CallbackInv /\ DeadInv /\ [Next]_vars
      => LockInv' /\ CallbackInv' /\ DeadInv'
  BY LockStep, CallbackStep, DeadStep DEF TypeOK
<1>3. TypeOK /\ NodeInv /\ LockInv /\ CallbackInv /\ DeadInv => IInv
  BY DEF IInv
<1>4. QED
  BY <1>1, <1>2, <1>3, TypeInvariance, PTL DEF Spec
-----------------------------------------------------------------------------
(* Nodes, lists, threads and events keep their types, moved nodes or not.     *)
THEOREM MeshTypeCorrect == Spec => []TypeOK
  BY TypeInvariance, PTL

(* detach() and the destructor wait for a callback that is running and none   *)
(* begins after them: a master's callback runs only while it is in the mesh.  *)
THEOREM DetachSilences == ASSUME ~REATTACH PROVE Spec => []HandlerBelongsToMember
<1>1. IInv => HandlerBelongsToMember
  BY NoneAssumption
  DEF IInv, LockInv, CallbackInv, HandlerBelongsToMember, InHandler, TypeOK, MeshTypeOK
<1>2. QED
  BY <1>1, Invariance, PTL

(* Once its destructor has returned, a master's callback is not called, if it *)
(* never moved to another mesh without detach().                              *)
THEOREM DestroyedIsSilent == ASSUME ~REATTACH PROVE Spec => []DestroyedMasterIsSilent
<1>1. IInv => DestroyedMasterIsSilent
  <2> SUFFICES ASSUME IInv, NEW t \in THREADS, NEW q \in QUEUES, InHandler(t, q),
                      callback[q] \in dead
               PROVE  FALSE
    BY DEF DestroyedMasterIsSilent
  <2>1. callback[q] # None /\ queueOf[callback[q]] = q
    BY NoneAssumption DEF IInv, LockInv, CallbackInv, InHandler, TypeOK, MeshTypeOK
  <2>2. queueOf[callback[q]] = None
    BY DEF IInv, DeadInv
  <2>3. QED
    BY <2>1, <2>2, NoneAssumption
<1>2. QED
  BY <1>1, Invariance, PTL

(* No step but its owner's departure removes a callback: neither another node *)
(* that detaches nor the loss of a queue takes it away from a node in a mesh. *)
THEOREM OthersKeep == ASSUME ~REATTACH PROVE Spec => OthersKeepTheirCallback
<1> DEFINE Kept == \A q \in QUEUES :
             callback[q] # None /\ callback'[q] = None => queueOf'[callback[q]] # q
<1>1. IInv /\ [Next]_vars => Kept
  <2> SUFFICES ASSUME IInv, [Next]_vars, NEW q \in QUEUES,
                      callback[q] # None, callback'[q] = None
               PROVE  queueOf'[callback[q]] # q
    OBVIOUS
  <2> USE DEF meshVars, callbackVars
  <2>1. MeshTypeOK /\ NodeInv /\ queueOf[callback[q]] = q /\ callback[q] = owner[q]
        /\ callback[q] \in NODES
    BY DEF IInv, TypeOK, MeshTypeOK, CallbackInv
  <2>2. ASSUME NEW n \in NODES, NEW p, queueOf[n] = None, Moves(n, p, {}) PROVE FALSE
    BY <2>1, <2>2, NothingDropped DEF Moves, Without
  <2>3. PICK t \in THREADS : DetachEnds(t)
    <3>1. ASSUME NEW t \in THREADS, NEW n \in NODES,
                 \/ PushBegins(t, n) \/ TakeEvents(t, n) \/ ClearEvents(t, n)
                 \/ SetMasterBegins(t, n) \/ DetachBegins(t, n)
          PROVE  FALSE
      BY <3>1 DEF PushBegins, TakeEvents, ClearEvents, SetMasterBegins, DetachBegins
    <3>2. ASSUME NEW t \in THREADS, AppendEvent(t) \/ CallMaster(t) \/ MasterReturns(t)
          PROVE  FALSE
      BY <3>2 DEF AppendEvent, CallMaster, MasterReturns
    <3>3. ASSUME NEW t \in THREADS, SetMasterEnds(t) PROVE FALSE
      BY <2>1, <3>3, NoneAssumption DEF SetMasterEnds, NodeInv, MeshTypeOK
    <3>4. ASSUME NEW t \in THREADS, NEW n \in NODES, Make(t, n) PROVE FALSE
      BY <2>2, <3>4 DEF Make, MayMove
    <3>5. ASSUME NEW t \in THREADS, NEW n \in NODES, NEW m \in NODES,
                 AttachToMesh(t, n, m)
          PROVE  FALSE
      BY <2>2, <3>5 DEF AttachToMesh, MayMove
    <3>6. ~(Gone \/ UNCHANGED vars)
      BY DEF Gone, vars
    <3>7. QED
      BY <3>1, <3>2, <3>3, <3>4, <3>5, <3>6 DEF Next, Continues
  <2>4. /\ queueOf' = [queueOf EXCEPT ![node[t]] = None]
        /\ q \in {p \in {Queue(t)} : Owns(node[t], p)} \cup Dropped(node[t])
    BY <2>1, <2>3 DEF DetachEnds, Moves, Without
  <2>5. callback[q] = node[t]
    BY <2>1, <2>4 DEF Owns, Dropped
  <2>6. QED
    BY <2>1, <2>4, <2>5, NoneAssumption DEF MeshTypeOK
<1>2. QED
  BY <1>1, Invariance, PTL DEF Spec, OthersKeepTheirCallback


-----------------------------------------------------------------------------
(*                           The lists of events                           *)
Pending(t) == pc[t] = "append"

(* What a step does to the lists: a thread's event is appended, ... *)
Appends(t) ==
    /\ Pending(t) /\ Queue(t) \in QUEUES /\ ev[t] \in Events
    /\ \A q \in QUEUES :
          History(q)' = IF q = Queue(t) THEN Append(History(q), ev[t]) ELSE History(q)
    /\ pc' = [pc EXCEPT ![t] = "call"]
    /\ UNCHANGED <<ev, sent, from, gone>>

(* ... an event gets its number, ... *)
Numbers(t) ==
    /\ ~Pending(t) /\ sent < MAX_EVENTS /\ sent' = sent + 1
    /\ pc' = [pc EXCEPT ![t] = "append"] /\ ev' = [ev EXCEPT ![t] = sent + 1]
    /\ from' = [from EXCEPT ![sent + 1] = t]
    /\ gone' = gone /\ \A q \in QUEUES : History(q)' = History(q)

(* ... or what is unread in some queues, often none, is lost. *)
Loses(D) ==
    /\ \A q \in QUEUES : History(q)' = IF q \in D THEN taken[q] ELSE History(q)
    /\ gone' = gone \cup UNION {ToSet(events[d]) : d \in D}
    /\ \A t \in THREADS : pc'[t] = "append" <=> pc[t] = "append"
    /\ UNCHANGED <<ev, sent, from>>
-----------------------------------------------------------------------------
(* A history is what was taken and then what is unread. *)
LEMMA HistoryIsBoth ==
  ASSUME EventTypeOK, NEW q \in QUEUES
  PROVE  /\ History(q) \in Seq(Events) /\ taken[q] \in Seq(Events) /\ events[q] \in Seq(Events)
         /\ Len(taken[q]) \in Nat /\ Len(events[q]) \in Nat
         /\ DOMAIN taken[q] = 1 .. Len(taken[q]) /\ DOMAIN events[q] = 1 .. Len(events[q])
         /\ DOMAIN History(q) = 1 .. Len(taken[q]) + Len(events[q])
         /\ Len(History(q)) = Len(taken[q]) + Len(events[q])
         /\ \A i \in 1 .. Len(taken[q]) + Len(events[q]) :
               History(q)[i] = IF i <= Len(taken[q]) THEN taken[q][i]
                                                     ELSE events[q][i - Len(taken[q])]
<1>1. taken[q] \in Seq(Events) /\ events[q] \in Seq(Events)
  BY DEF EventTypeOK
<1>2. /\ taken[q] \o events[q] \in Seq(Events)
      /\ Len(taken[q] \o events[q]) = Len(taken[q]) + Len(events[q])
      /\ \A i \in 1 .. Len(taken[q]) + Len(events[q]) :
            (taken[q] \o events[q])[i] = IF i <= Len(taken[q]) THEN taken[q][i]
                                         ELSE events[q][i - Len(taken[q])]
  BY <1>1, ConcatProperties
<1>3. QED
  BY <1>1, <1>2, LenProperties DEF History

(* An event that was lost is at its place in the history. *)
LEMMA UnreadIsInHistory ==
  ASSUME EventTypeOK, NEW q \in QUEUES, NEW e \in ToSet(events[q])
  PROVE  \E i \in DOMAIN History(q) : i > Len(taken[q]) /\ History(q)[i] = e
<1>1. PICK k \in DOMAIN events[q] : events[q][k] = e
  BY DEF ToSet
<1>2. /\ k \in 1 .. Len(events[q]) /\ Len(taken[q]) \in Nat /\ Len(events[q]) \in Nat
  BY <1>1, HistoryIsBoth
<1>3. /\ Len(taken[q]) + k \in 1 .. Len(taken[q]) + Len(events[q])
      /\ ~(Len(taken[q]) + k <= Len(taken[q])) /\ (Len(taken[q]) + k) - Len(taken[q]) = k
      /\ Len(taken[q]) + k > Len(taken[q])
  <2>1. \A a, b \in Nat : \A j \in 1 .. b :
           a + j \in 1 .. a + b /\ ~(a + j <= a) /\ (a + j) - a = j /\ a + j > a
    OBVIOUS
  <2>2. QED
    BY <1>2, <2>1, Zenon
<1>4. Len(taken[q]) + k \in DOMAIN History(q) /\ History(q)[Len(taken[q]) + k] = e
  BY <1>1, <1>3, HistoryIsBoth
<1>5. QED
  BY <1>3, <1>4

(* Appending to the second part appends to the whole. *)
LEMMA AppendAfterConcat ==
  ASSUME NEW S, NEW a \in Seq(S), NEW b \in Seq(S), NEW e \in S
  PROVE  a \o Append(b, e) = Append(a \o b, e)
<1>1. <<e>> \in Seq(S) /\ a \o b \in Seq(S)
  BY ConcatProperties
<1>2. Append(b, e) = b \o <<e>> /\ Append(a \o b, e) = (a \o b) \o <<e>>
  BY <1>1, AppendIsConcat
<1>3. QED
  BY <1>1, <1>2, ConcatAssociative

(* Steps that leave the lists alone lose no event. *)
LEMMA NothingLost ==
  ASSUME UNCHANGED <<events, taken, gone, ev, sent, from>>,
         \A t \in THREADS : pc'[t] = "append" <=> pc[t] = "append"
  PROVE  Loses({})
BY DEF Loses, History

(* A node's move loses the events of the queue it was the last to have. *)
LEMMA MoveLoses ==
  ASSUME EventTypeOK, NEW n \in NODES, NEW p, NEW Q, Moves(n, p, Q),
         UNCHANGED <<ev, sent, from>>,
         \A t \in THREADS : pc'[t] = "append" <=> pc[t] = "append"
  PROVE  Dropped(n) \subseteq QUEUES /\ Loses(Dropped(n))
<1>1. Dropped(n) \subseteq QUEUES
  BY DEF Dropped
<1>2. \A q \in QUEUES : History(q)' = IF q \in Dropped(n) THEN taken[q] ELSE History(q)
  <2> TAKE q \in QUEUES
  <2>1. taken'[q] = taken[q] /\ events'[q] = IF q \in Dropped(n) THEN <<>> ELSE events[q]
    BY DEF Moves
  <2>2. taken[q] \o <<>> = taken[q]
    BY ConcatEmptySeq DEF EventTypeOK
  <2>3. QED
    BY <2>1, <2>2 DEF History
<1>3. gone' = gone \cup UNION {ToSet(events[d]) : d \in Dropped(n)}
  BY DEF Moves
<1>4. QED
  BY <1>1, <1>2, <1>3 DEF Loses

(* Every step is one of the three. *)
LEMMA StepShapes ==
  ASSUME TypeOK, NodeInv, [Next]_vars
  PROVE  \/ \E t \in THREADS : Appends(t) \/ Numbers(t)
         \/ \E D \in SUBSET QUEUES : Loses(D)
<1> USE DEF eventVars, threadVars, pushVars, meshVars, callbackVars
<1>1. EventTypeOK /\ DOMAIN pc = THREADS /\ events \in [QUEUES -> Seq(Events)]
      /\ taken \in [QUEUES -> Seq(Events)] /\ queueOf \in [NODES -> QUEUES \cup {None}]
      /\ {} \in SUBSET QUEUES
  BY DEF TypeOK, EventTypeOK, ThreadTypeOK, MeshTypeOK
<1>2. ASSUME NEW t \in THREADS, NEW n \in NODES, PushBegins(t, n) PROVE Numbers(t)
  <2>1. UNCHANGED <<events, taken, gone>>
    BY <1>2 DEF PushBegins
  <2>2. \A q \in QUEUES : History(q)' = History(q)
    BY <2>1 DEF History
  <2>3. QED
    BY <1>2, <2>1, <2>2 DEF PushBegins, Enters, Numbers, Pending
<1>3. ASSUME NEW t \in THREADS, AppendEvent(t) PROVE Appends(t)
  <2>1. Queue(t) \in QUEUES /\ ev[t] \in Events
    BY <1>1, <1>3 DEF AppendEvent, NodeInv, Queue
  <2>2. ASSUME NEW q \in QUEUES
        PROVE  History(q)' = IF q = Queue(t) THEN Append(History(q), ev[t]) ELSE History(q)
    <3>1. /\ taken'[q] = taken[q]
          /\ events'[q] = IF q = Queue(t) THEN Append(events[q], ev[t]) ELSE events[q]
      BY <1>1, <1>3 DEF AppendEvent, Appended
    <3>2. taken[q] \o Append(events[q], ev[t]) = Append(taken[q] \o events[q], ev[t])
      BY <1>1, <2>1, AppendAfterConcat
    <3>3. QED
      BY <3>1, <3>2 DEF History
  <2>3. QED
    BY <1>3, <2>1, <2>2 DEF AppendEvent, Goes, Appends, Pending
<1>4. ASSUME NEW t \in THREADS, CallMaster(t) \/ MasterReturns(t) \/ SetMasterEnds(t)
      PROVE  Loses({})
  BY <1>1, <1>4, NothingLost DEF CallMaster, MasterReturns, SetMasterEnds, Returns, Goes
<1>5. ASSUME NEW t \in THREADS, NEW n \in NODES, SetMasterBegins(t, n) \/ DetachBegins(t, n)
      PROVE  Loses({})
  <2>1. /\ pc[t] = "idle" /\ \E p \in {"master", "detach", "destroy"} : pc' = [pc EXCEPT ![t] = p]
        /\ UNCHANGED <<events, taken, gone, ev, sent, from>>
    BY <1>5 DEF SetMasterBegins, DetachBegins, Enters
  <2>2. \A u \in THREADS : pc'[u] = "append" <=> pc[u] = "append"
    BY <1>1, <2>1
  <2>3. QED
    BY <2>1, <2>2, NothingLost
<1>6. ASSUME NEW t \in THREADS, NEW n \in NODES, TakeEvents(t, n) PROVE Loses({})
  <2>1. queueOf[n] \in QUEUES /\ UNCHANGED <<gone, ev, sent, from, pc>>
    BY <1>1, <1>6 DEF TakeEvents
  <2>2. ASSUME NEW q \in QUEUES PROVE History(q)' = History(q)
    <3>1. CASE q = queueOf[n]
      <4>1. taken'[q] = taken[q] \o events[q] /\ events'[q] = <<>>
        BY <1>1, <1>6, <3>1 DEF TakeEvents, LeftAfterTaking
      <4>2. (taken[q] \o events[q]) \o <<>> = taken[q] \o events[q]
        BY <1>1, ConcatProperties, ConcatEmptySeq
      <4>3. QED
        BY <4>1, <4>2 DEF History
    <3>2. CASE q # queueOf[n]
      BY <1>1, <1>6, <3>2 DEF TakeEvents, History
    <3>3. QED
      BY <3>1, <3>2
  <2>3. QED
    BY <2>1, <2>2 DEF Loses
<1>7. ASSUME NEW t \in THREADS, NEW n \in NODES, ClearEvents(t, n) PROVE Loses({queueOf[n]})
  <2>1. queueOf[n] \in QUEUES /\ UNCHANGED <<taken, ev, sent, from, pc>>
        /\ gone' = gone \cup ToSet(events[queueOf[n]])
    BY <1>1, <1>7 DEF ClearEvents
  <2>2. ASSUME NEW q \in QUEUES
        PROVE  History(q)' = IF q \in {queueOf[n]} THEN taken[q] ELSE History(q)
    <3>1. events'[q] = IF q = queueOf[n] THEN <<>> ELSE events[q]
      BY <1>1, <1>7 DEF ClearEvents
    <3>2. taken[q] \o <<>> = taken[q]
      BY <1>1, ConcatEmptySeq
    <3>3. QED
      BY <2>1, <3>1, <3>2 DEF History
  <2>3. QED
    BY <2>1, <2>2 DEF Loses
<1>8. ASSUME NEW t \in THREADS, NEW n \in NODES, Make(t, n) PROVE Loses(Dropped(n))
  BY <1>1, <1>8, MoveLoses DEF Make
<1>9. ASSUME NEW t \in THREADS, NEW n \in NODES, NEW m \in NODES, AttachToMesh(t, n, m)
      PROVE  Loses(Dropped(n))
  BY <1>1, <1>9, MoveLoses DEF AttachToMesh
<1>10. ASSUME NEW t \in THREADS, DetachEnds(t) PROVE Loses({}) \/ Loses(Dropped(node[t]))
  <2>1. node[t] \in NODES /\ UNCHANGED <<ev, sent, from>>
        /\ \A u \in THREADS : pc'[u] = "append" <=> pc[u] = "append"
    BY <1>1, <1>10 DEF DetachEnds, NodeInv, Returns
  <2>2. CASE Queue(t) = None
    BY <1>10, <2>1, <2>2, NothingLost DEF DetachEnds
  <2>3. CASE Queue(t) # None
    BY <1>1, <1>10, <2>1, <2>3, MoveLoses DEF DetachEnds
  <2>4. QED
    BY <2>2, <2>3
<1>11. ASSUME Gone \/ UNCHANGED vars PROVE Loses({})
  BY <1>11, NothingLost DEF Gone, vars
<1>12. \A n \in NODES : Dropped(n) \in SUBSET QUEUES
  BY DEF Dropped
<1>13. \A t \in THREADS, n \in NODES : ClearEvents(t, n) => {queueOf[n]} \in SUBSET QUEUES
  BY <1>1 DEF ClearEvents
<1>14. \A t \in THREADS : DetachEnds(t) => node[t] \in NODES
  BY DEF DetachEnds, NodeInv
<1>15. QED
  BY <1>1, <1>2, <1>3, <1>4, <1>5, <1>6, <1>7, <1>8, <1>9, <1>10, <1>11, <1>12, <1>13, <1>14
  DEF Next, Continues
-----------------------------------------------------------------------------
(* Numbers are given in order, and an event's thread is known. *)
NumberInv ==
    /\ \A q \in QUEUES : \A i \in DOMAIN History(q) : History(q)[i] <= sent
    /\ \A t \in THREADS : Pending(t) => ev[t] \in 1 .. sent /\ from[ev[t]] = t

(* What a thread is about to append is later than what it has appended.       *)
OrderInv ==
    /\ PerThreadOrder
    /\ \A t \in THREADS : Pending(t) =>
          \A q \in QUEUES : \A i \in DOMAIN History(q) :
              from[History(q)[i]] = t => History(q)[i] < ev[t]

(* An event is at one place at most, and at one if it was appended and not    *)
(* lost; what is lost has been appended; no two threads append the same.      *)
OnceInv ==
    /\ \A e \in gone : IsAppended(e)
    /\ \A t, u \in THREADS : Pending(t) /\ Pending(u) /\ ev[t] = ev[u] => t = u
    /\ \A q, r \in QUEUES : \A i \in DOMAIN History(q), j \in DOMAIN History(r) :
          History(q)[i] = History(r)[j] => q = r /\ i = j
    /\ \A q \in QUEUES : \A i \in DOMAIN History(q) :
          IsAppended(History(q)[i]) /\ History(q)[i] \notin gone
    /\ \A e \in Events : IsAppended(e) /\ e \notin gone =>
          \E q \in QUEUES : \E i \in DOMAIN History(q) : History(q)[i] = e

(* The places of a list that an event is appended to. *)
LEMMA PlacesOfAppend ==
  ASSUME NEW S, NEW s \in Seq(S), NEW e \in S
  PROVE  /\ DOMAIN Append(s, e) = DOMAIN s \cup {Len(s) + 1} /\ Len(s) + 1 \notin DOMAIN s
         /\ Append(s, e)[Len(s) + 1] = e /\ \A i \in DOMAIN s : Append(s, e)[i] = s[i]
         /\ \A i \in DOMAIN s : i \in Int /\ i < Len(s) + 1
<1>1. Len(s) \in Nat /\ DOMAIN s = 1 .. Len(s)
  BY LenProperties
<1>2. /\ Append(s, e) \in Seq(S) /\ Len(Append(s, e)) = Len(s) + 1
      /\ \A i \in 1 .. Len(s) : Append(s, e)[i] = s[i] /\ Append(s, e)[Len(s) + 1] = e
      /\ Append(s, e)[Len(s) + 1] = e
  BY <1>1, AppendProperties
<1>3. DOMAIN Append(s, e) = 1 .. Len(s) + 1
  BY <1>1, <1>2, LenProperties
<1>4. 1 .. Len(s) + 1 = (1 .. Len(s)) \cup {Len(s) + 1} /\ Len(s) + 1 \notin 1 .. Len(s)
      /\ \A i \in 1 .. Len(s) : i \in Int /\ i < Len(s) + 1
  BY <1>1
<1>5. QED
  BY <1>1, <1>2, <1>3, <1>4, Zenon

(* A loss leaves the places before it as they are. *)
LEMMA PlacesOfLoss ==
  ASSUME EventTypeOK, NEW D \in SUBSET QUEUES, Loses(D), NEW q \in QUEUES
  PROVE  /\ DOMAIN (History(q)') \subseteq DOMAIN History(q)
         /\ \A i \in DOMAIN (History(q)') : (History(q)')[i] = History(q)[i]
         /\ q \notin D => History(q)' = History(q)
         /\ q \in D => \A i \in DOMAIN History(q) :
               i \in DOMAIN (History(q)') \/ History(q)[i] \in ToSet(events[q])
<1>1. History(q)' = IF q \in D THEN taken[q] ELSE History(q)
  BY DEF Loses
<1> DEFINE a == Len(taken[q])
           b == Len(events[q])
<1>0. /\ a \in Nat /\ b \in Nat /\ DOMAIN taken[q] = 1 .. a /\ DOMAIN events[q] = 1 .. b
      /\ DOMAIN History(q) = 1 .. a + b
      /\ \A i \in 1 .. a + b :
            History(q)[i] = IF i <= a THEN taken[q][i] ELSE events[q][i - a]
  BY HistoryIsBoth
<1> HIDE DEF a, b
<1>2. CASE q \in D
  <2>1. \A i \in DOMAIN taken[q] : i \in DOMAIN History(q) /\ taken[q][i] = History(q)[i]
    BY <1>0
  <2>2. ASSUME NEW i \in DOMAIN History(q), i \notin DOMAIN taken[q]
        PROVE  History(q)[i] \in ToSet(events[q])
    <3>1. i - a \in 1 .. b /\ ~(i <= a) /\ i \in 1 .. a + b
      BY <1>0, <2>2
    <3>2. History(q)[i] = events[q][i - a] /\ i - a \in DOMAIN events[q]
      BY <1>0, <3>1
    <3>3. QED
      BY <3>2 DEF ToSet
  <2>3. QED
    BY <1>1, <1>2, <2>1, <2>2
<1>3. CASE q \notin D
  BY <1>1, <1>3
<1>4. QED
  BY <1>2, <1>3
-----------------------------------------------------------------------------
(* The facts about types that the following lemmas use. *)
LEMMA HistoryTypes ==
  ASSUME TypeOK
  PROVE  /\ EventTypeOK /\ sent \in Nat /\ sent <= MAX_EVENTS /\ gone \subseteq Events
         /\ DOMAIN pc = THREADS /\ DOMAIN ev = THREADS /\ DOMAIN from = Events
         /\ \A q \in QUEUES : \A i \in DOMAIN History(q) :
               i \in Nat /\ History(q)[i] \in Events /\ History(q)[i] \in Nat
<1>1. EventTypeOK /\ PushTypeOK /\ DOMAIN pc = THREADS /\ gone \subseteq Events
  BY DEF TypeOK, EventTypeOK, ThreadTypeOK
<1>2. sent \in Nat /\ sent <= MAX_EVENTS /\ DOMAIN ev = THREADS /\ DOMAIN from = Events
  BY <1>1, MaxEventsAssumption DEF PushTypeOK
<1>3. ASSUME NEW q \in QUEUES, NEW i \in DOMAIN History(q)
      PROVE  i \in Nat /\ History(q)[i] \in Events /\ History(q)[i] \in Nat
  <2>1. History(q) \in Seq(Events)
    BY <1>1, HistoryIsBoth
  <2>2. i \in 1 .. Len(History(q)) /\ Len(History(q)) \in Nat
    BY <2>1, LenProperties
  <2>3. History(q)[i] \in Events
    BY <2>1, <2>2, ElementOfSeq
  <2>4. QED
    BY <2>2, <2>3 DEF Events
<1>4. QED
  BY <1>1, <1>2, <1>3

(* The places after an event was appended. *)
LEMMA PlacesAfterAppends ==
  ASSUME TypeOK, NEW t \in THREADS, Appends(t), NEW q \in QUEUES, NEW i \in DOMAIN (History(q)')
  PROVE  \/ i \in DOMAIN History(q) /\ (History(q)')[i] = History(q)[i]
         \/ /\ q = Queue(t) /\ (History(q)')[i] = ev[t] /\ i \notin DOMAIN History(q)
            /\ i = Len(History(q)) + 1 /\ \A j \in DOMAIN History(q) : j < i
<1>1. History(q) \in Seq(Events) /\ ev[t] \in Events
  BY HistoryTypes, HistoryIsBoth DEF Appends
<1>2. CASE q = Queue(t)
  <2>1. History(q)' = Append(History(q), ev[t])
    BY <1>2 DEF Appends
  <2>2. QED
    BY <1>1, <1>2, <2>1, PlacesOfAppend
<1>3. CASE q # Queue(t)
  BY <1>3 DEF Appends
<1>4. QED
  BY <1>2, <1>3

(* A new event has a number none has had. *)
LEMMA NumberStep ==
  ASSUME TypeOK, NodeInv, NumberInv, [Next]_vars
  PROVE  NumberInv'
<1>1. ASSUME NEW t \in THREADS, Appends(t) PROVE NumberInv'
  <2>1. \A q \in QUEUES : \A i \in DOMAIN (History(q)') : (History(q)')[i] <= sent'
    <3>1. ev[t] <= sent /\ sent' = sent
      BY <1>1, HistoryTypes DEF Appends, NumberInv
    <3>2. QED
      BY <1>1, <3>1, PlacesAfterAppends DEF NumberInv
  <2>2. \A u \in THREADS : pc'[u] = "append" => pc[u] = "append"
    BY <1>1, HistoryTypes DEF Appends
  <2>3. UNCHANGED <<ev, sent, from>>
    BY <1>1 DEF Appends
  <2>4. QED
    BY <2>1, <2>2, <2>3 DEF NumberInv, Pending
<1>2. ASSUME NEW t \in THREADS, Numbers(t) PROVE NumberInv'
  <2>1. /\ sent \in Nat /\ sent' = sent + 1 /\ sent + 1 \in Events /\ sent + 1 <= sent'
    BY <1>2, HistoryTypes, MaxEventsAssumption DEF Numbers, Events
  <2>2. \A q \in QUEUES : \A i \in DOMAIN (History(q)') : (History(q)')[i] <= sent'
    BY <1>2, <2>1, HistoryTypes DEF Numbers, NumberInv
  <2>3. ASSUME NEW u \in THREADS, pc'[u] = "append" PROVE ev'[u] \in 1 .. sent' /\ from'[ev'[u]] = u
    <3>1. CASE u = t
      BY <1>2, <2>1, <3>1, HistoryTypes DEF Numbers
    <3>2. CASE u # t
      <4>1. pc[u] = "append" /\ ev'[u] = ev[u]
        BY <1>2, <2>3, <3>2, HistoryTypes DEF Numbers
      <4>2. ev[u] \in 1 .. sent /\ from[ev[u]] = u
        BY <4>1 DEF NumberInv, Pending
      <4>3. ev[u] \in 1 .. sent' /\ ev[u] # sent + 1
        BY <2>1, <4>2
      <4>4. from'[ev[u]] = from[ev[u]]
        BY <1>2, <4>3 DEF Numbers
      <4>5. QED
        BY <4>1, <4>2, <4>3, <4>4
    <3>3. QED
      BY <3>1, <3>2
  <2>4. QED
    BY <2>2, <2>3 DEF NumberInv, Pending
<1>3. ASSUME NEW D \in SUBSET QUEUES, Loses(D) PROVE NumberInv'
  <2>1. \A q \in QUEUES : \A i \in DOMAIN (History(q)') : (History(q)')[i] <= sent
    BY <1>3, HistoryTypes, PlacesOfLoss DEF NumberInv
  <2>2. QED
    BY <1>3, <2>1 DEF Loses, NumberInv, Pending
<1>4. QED
  BY <1>1, <1>2, <1>3, StepShapes

(* The numbers of one thread keep rising along every queue. *)
LEMMA OrderStep ==
  ASSUME TypeOK, NodeInv, NumberInv, OrderInv, [Next]_vars
  PROVE  OrderInv'
<1>1. ASSUME NEW t \in THREADS, Appends(t) PROVE OrderInv'
  <2>1. Pending(t) /\ from[ev[t]] = t /\ UNCHANGED <<ev, sent, from>>
    BY <1>1 DEF Appends, NumberInv
  <2>2. ASSUME NEW q \in QUEUES, NEW i \in DOMAIN (History(q)'), NEW j \in DOMAIN (History(q)'),
               i < j, from[(History(q)')[i]] = from[(History(q)')[j]]
        PROVE  (History(q)')[i] < (History(q)')[j]
    <3>1. CASE i \in DOMAIN History(q) /\ j \in DOMAIN History(q)
      <4>1. (History(q)')[i] = History(q)[i] /\ (History(q)')[j] = History(q)[j]
        BY <1>1, <3>1, PlacesAfterAppends
      <4>2. QED
        BY <2>2, <3>1, <4>1 DEF OrderInv, PerThreadOrder
    <3>2. CASE i \in DOMAIN History(q) /\ j \notin DOMAIN History(q)
      <4>1. (History(q)')[i] = History(q)[i] /\ (History(q)')[j] = ev[t]
        BY <1>1, <3>2, PlacesAfterAppends
      <4>2. QED
        BY <2>1, <2>2, <3>2, <4>1 DEF OrderInv
    <3>3. CASE i \notin DOMAIN History(q)
      <4>1. i = Len(History(q)) + 1 /\ \A k \in DOMAIN History(q) : k < i
        BY <1>1, <3>3, PlacesAfterAppends
      <4>2. j \in DOMAIN History(q) \/ j = Len(History(q)) + 1
        BY <1>1, PlacesAfterAppends
      <4>3. Len(History(q)) \in Nat
        BY HistoryTypes, HistoryIsBoth, LenProperties
      <4>4. CASE j \in DOMAIN History(q)
        <5>1. j \in Nat /\ j < i
          BY <4>1, <4>4, HistoryTypes
        <5>2. QED
          BY <2>2, <4>1, <4>3, <5>1
      <4>5. CASE j = Len(History(q)) + 1
        BY <2>2, <4>1, <4>3, <4>5
      <4>6. QED
        BY <4>2, <4>4, <4>5
    <3>4. QED
      BY <3>1, <3>2, <3>3
  <2>3. ASSUME NEW u \in THREADS, pc'[u] = "append", NEW q \in QUEUES,
               NEW i \in DOMAIN (History(q)'), from[(History(q)')[i]] = u
        PROVE  (History(q)')[i] < ev[u]
    <3>1. pc[u] = "append" /\ u # t
      BY <1>1, <2>3, HistoryTypes DEF Appends
    <3>2. i \in DOMAIN History(q) /\ (History(q)')[i] = History(q)[i]
      BY <1>1, <2>1, <2>3, <3>1, PlacesAfterAppends
    <3>3. QED
      BY <2>3, <3>1, <3>2 DEF OrderInv, Pending
  <2>4. QED
    BY <2>1, <2>2, <2>3 DEF OrderInv, PerThreadOrder, Pending
<1>2. ASSUME NEW t \in THREADS, Numbers(t) PROVE OrderInv'
  <2>1. \A q \in QUEUES : History(q)' = History(q)
    BY <1>2 DEF Numbers
  <2>2. \A q \in QUEUES : \A i \in DOMAIN History(q) :
           from'[History(q)[i]] = from[History(q)[i]] /\ History(q)[i] < sent + 1
    <3> TAKE q \in QUEUES
    <3> TAKE i \in DOMAIN History(q)
    <3>1. History(q)[i] \in Nat /\ History(q)[i] <= sent /\ sent \in Nat
      BY HistoryTypes DEF NumberInv
    <3>2. History(q)[i] # sent + 1 /\ History(q)[i] < sent + 1
      BY <3>1
    <3>3. QED
      BY <1>2, <3>2 DEF Numbers
  <2>3. PerThreadOrder'
    BY <2>1, <2>2 DEF OrderInv, PerThreadOrder
  <2>4. ASSUME NEW u \in THREADS, pc'[u] = "append", NEW q \in QUEUES,
               NEW i \in DOMAIN History(q), from[History(q)[i]] = u
        PROVE  History(q)[i] < ev'[u]
    <3>1. CASE u = t
      <4>1. ev'[u] = sent + 1
        BY <1>2, <3>1, HistoryTypes DEF Numbers
      <4>2. QED
        BY <2>2, <4>1
    <3>2. CASE u # t
      <4>1. pc[u] = "append" /\ ev'[u] = ev[u]
        BY <1>2, <2>4, <3>2, HistoryTypes DEF Numbers
      <4>2. QED
        BY <2>4, <4>1 DEF OrderInv, Pending
    <3>3. QED
      BY <3>1, <3>2
  <2>5. QED
    BY <2>1, <2>2, <2>3, <2>4 DEF OrderInv, Pending
<1>3. ASSUME NEW D \in SUBSET QUEUES, Loses(D) PROVE OrderInv'
  <2>1. \A q \in QUEUES : /\ DOMAIN (History(q)') \subseteq DOMAIN History(q)
                         /\ \A i \in DOMAIN (History(q)') : (History(q)')[i] = History(q)[i]
    BY <1>3, HistoryTypes, PlacesOfLoss
  <2>2. PerThreadOrder'
    BY <1>3, <2>1 DEF OrderInv, PerThreadOrder, Loses
  <2>3. QED
    BY <1>3, <2>1, <2>2 DEF OrderInv, Loses, Pending
<1>4. QED
  BY <1>1, <1>2, <1>3, StepShapes

(* No event comes to a second place. *)
LEMMA OnceStep ==
  ASSUME TypeOK, NodeInv, NumberInv, OnceInv, [Next]_vars
  PROVE  OnceInv'
<1>1. ASSUME NEW t \in THREADS, Appends(t) PROVE OnceInv'
  <2>1. Pending(t) /\ UNCHANGED <<ev, sent, from, gone>> /\ ev[t] <= sent /\ Queue(t) \in QUEUES
        /\ \A u \in THREADS : pc'[u] = "append" <=> u # t /\ pc[u] = "append"
    BY <1>1, HistoryTypes DEF Appends, NumberInv
  <2>2. \A e : IsAppended(e)' <=> IsAppended(e) \/ e = ev[t]
    BY <2>1 DEF IsAppended, OnceInv, Pending
  <2>3. ev[t] \notin gone /\ ~IsAppended(ev[t])
    BY <2>1 DEF OnceInv, IsAppended, Pending
  <2>4. \A q \in QUEUES : \A i \in DOMAIN History(q) : History(q)[i] # ev[t]
    BY <2>3 DEF OnceInv
  <2>5. ASSUME NEW q \in QUEUES, NEW r \in QUEUES,
               NEW i \in DOMAIN (History(q)'), NEW j \in DOMAIN (History(r)'),
               (History(q)')[i] = (History(r)')[j]
        PROVE  q = r /\ i = j
    <3>1. CASE i \in DOMAIN History(q) /\ j \in DOMAIN History(r)
      <4>1. (History(q)')[i] = History(q)[i] /\ (History(r)')[j] = History(r)[j]
        BY <1>1, <3>1, PlacesAfterAppends
      <4>2. History(q)[i] = History(r)[j]
        BY <2>5, <4>1
      <4>3. QED
        BY <3>1, <4>2 DEF OnceInv
    <3>2. CASE i \notin DOMAIN History(q) /\ j \notin DOMAIN History(r)
      BY <1>1, <3>2, PlacesAfterAppends
    <3>3. CASE i \in DOMAIN History(q) /\ j \notin DOMAIN History(r)
      <4>1. (History(q)')[i] = History(q)[i] /\ (History(r)')[j] = ev[t]
        BY <1>1, <3>3, PlacesAfterAppends
      <4>2. QED
        BY <2>4, <2>5, <3>3, <4>1
    <3>4. CASE i \notin DOMAIN History(q) /\ j \in DOMAIN History(r)
      <4>1. (History(q)')[i] = ev[t] /\ (History(r)')[j] = History(r)[j]
        BY <1>1, <3>4, PlacesAfterAppends
      <4>2. QED
        BY <2>4, <2>5, <3>4, <4>1
    <3>5. QED
      BY <3>1, <3>2, <3>3, <3>4
  <2>6. \A q \in QUEUES : \A i \in DOMAIN (History(q)') :
           /\ IsAppended((History(q)')[i]) \/ (History(q)')[i] = ev[t]
           /\ (History(q)')[i] \notin gone
    BY <1>1, <2>3, PlacesAfterAppends DEF OnceInv
  <2>7. \A q \in QUEUES : \A i \in DOMAIN History(q) :
           i \in DOMAIN (History(q)') /\ (History(q)')[i] = History(q)[i]
    <3> TAKE q \in QUEUES
    <3>1. History(q) \in Seq(Events) /\ ev[t] \in Events
      BY <1>1, HistoryTypes, HistoryIsBoth DEF Appends
    <3>2. History(q)' = IF q = Queue(t) THEN Append(History(q), ev[t]) ELSE History(q)
      BY <1>1 DEF Appends
    <3>3. QED
      BY <3>1, <3>2, PlacesOfAppend
  <2>8. \E q \in QUEUES : \E i \in DOMAIN (History(q)') : (History(q)')[i] = ev[t]
    <3>1. History(Queue(t)) \in Seq(Events) /\ ev[t] \in Events
      BY <1>1, <2>1, HistoryTypes, HistoryIsBoth DEF Appends
    <3>2. PICK q \in QUEUES : q = Queue(t)
      BY <2>1
    <3>3. History(q)' = Append(History(q), ev[t]) /\ History(q) \in Seq(Events)
      BY <1>1, <3>1, <3>2 DEF Appends
    <3>4. \E i \in DOMAIN (History(q)') : (History(q)')[i] = ev[t]
      BY <3>1, <3>3, PlacesOfAppend
    <3>5. QED
      BY <3>4
  <2>9. /\ \A e \in gone' : IsAppended(e)'
        /\ (\A u, v \in THREADS : Pending(u) /\ Pending(v) /\ ev[u] = ev[v] => u = v)'
    BY <2>1, <2>2 DEF OnceInv, Pending
  <2>10. \A e \in Events : IsAppended(e)' /\ e \notin gone' =>
            \E q \in QUEUES : \E i \in DOMAIN (History(q)') : (History(q)')[i] = e
    BY <2>1, <2>2, <2>7, <2>8 DEF OnceInv
  <2>11. (\A q \in QUEUES : \A i \in DOMAIN History(q) :
             IsAppended(History(q)[i]) /\ History(q)[i] \notin gone)'
    BY <2>1, <2>2, <2>6
  <2>12. QED
    BY <2>5, <2>9, <2>10, <2>11 DEF OnceInv
<1>2. ASSUME NEW t \in THREADS, Numbers(t) PROVE OnceInv'
  <2>1. \A q \in QUEUES : History(q)' = History(q)
    BY <1>2 DEF Numbers
  <2>2. sent \in Nat /\ sent' = sent + 1 /\ gone' = gone
    BY <1>2, HistoryTypes DEF Numbers
  <2>3. \A u \in THREADS : /\ pc'[u] = "append" <=> u = t \/ pc[u] = "append"
                          /\ ev'[u] = IF u = t THEN sent + 1 ELSE ev[u]
    BY <1>2, HistoryTypes DEF Numbers
  <2>4. \A u \in THREADS : pc[u] = "append" => ev[u] # sent + 1 /\ u # t
    BY <1>2, <2>2 DEF NumberInv, Numbers, Pending
  <2>5. \A e \in Events : IsAppended(e)' <=> IsAppended(e)
    <3> TAKE e \in Events
    <3>1. e \in Nat
      BY DEF Events
    <3>2. IsAppended(e)' <=> e <= sent + 1 /\ e # sent + 1
                            /\ \A u \in THREADS : ~(pc[u] = "append" /\ ev[u] = e)
      BY <2>2, <2>3, <2>4 DEF IsAppended
    <3>3. QED
      BY <2>2, <3>1, <3>2 DEF IsAppended
  <2>6. gone \subseteq Events /\ \A q \in QUEUES : \A i \in DOMAIN History(q) : History(q)[i] \in Events
    BY HistoryTypes
  <2>7. (\A u, v \in THREADS : Pending(u) /\ Pending(v) /\ ev[u] = ev[v] => u = v)'
    BY <2>3, <2>4 DEF OnceInv, Pending
  <2>8. QED
    BY <2>1, <2>2, <2>5, <2>6, <2>7 DEF OnceInv
<1>3. ASSUME NEW D \in SUBSET QUEUES, Loses(D) PROVE OnceInv'
  <2>1. \A q \in QUEUES : /\ DOMAIN (History(q)') \subseteq DOMAIN History(q)
                         /\ \A i \in DOMAIN (History(q)') : (History(q)')[i] = History(q)[i]
    BY <1>3, HistoryTypes, PlacesOfLoss
  <2>2. UNCHANGED <<ev, sent>> /\ (\A u \in THREADS : Pending(u)' <=> Pending(u))
        /\ gone' = gone \cup UNION {ToSet(events[d]) : d \in D}
    BY <1>3 DEF Loses, Pending
  <2>3. \A e : IsAppended(e)' <=> IsAppended(e)
    BY <2>2 DEF IsAppended, Pending
  <2>4. \A d \in D : \A e \in ToSet(events[d]) : \E i \in DOMAIN History(d) : History(d)[i] = e
    BY HistoryTypes, UnreadIsInHistory
  <2>5. \A e \in gone' : IsAppended(e)
    BY <2>2, <2>4 DEF OnceInv
  <2>6. ASSUME NEW q \in QUEUES, NEW i \in DOMAIN (History(q)') PROVE (History(q)')[i] \notin gone'
    <3>1. i \in DOMAIN History(q) /\ (History(q)')[i] = History(q)[i]
      BY <2>1, <2>6
    <3>2. ASSUME NEW d \in D, History(q)[i] \in ToSet(events[d]) PROVE FALSE
      <4>1. PICK k \in DOMAIN History(d) : k > Len(taken[d]) /\ History(d)[k] = History(q)[i]
        BY <3>2, HistoryTypes, UnreadIsInHistory
      <4>2. q = d /\ i = k
        BY <3>1, <4>1 DEF OnceInv
      <4>3. DOMAIN (History(d)') = 1 .. Len(taken[d]) /\ Len(taken[d]) \in Nat
        BY <1>3, HistoryTypes, HistoryIsBoth DEF Loses
      <4>4. QED
        BY <2>6, <4>1, <4>2, <4>3
    <3>3. QED
      BY <2>2, <3>1, <3>2 DEF OnceInv
  <2>7. ASSUME NEW e \in Events, IsAppended(e), e \notin gone'
        PROVE  \E q \in QUEUES : \E i \in DOMAIN (History(q)') : (History(q)')[i] = e
    <3>1. PICK q \in QUEUES : \E k \in DOMAIN History(q) : History(q)[k] = e
      BY <2>2, <2>7 DEF OnceInv
    <3>2. PICK i \in DOMAIN History(q) : History(q)[i] = e
      BY <3>1
    <3>3. i \in DOMAIN (History(q)')
      BY <1>3, <2>2, <2>7, <3>2, HistoryTypes, PlacesOfLoss
    <3>4. QED
      BY <2>1, <3>2, <3>3
  <2>8. QED
    BY <2>1, <2>2, <2>3, <2>5, <2>6, <2>7 DEF OnceInv
<1>4. QED
  BY <1>1, <1>2, <1>3, StepShapes
-----------------------------------------------------------------------------
(* Before anything is pushed there is nothing to number. *)
LEMMA HistoryInit == Init => NumberInv /\ OrderInv /\ OnceInv
<1> SUFFICES ASSUME Init PROVE NumberInv /\ OrderInv /\ OnceInv
  OBVIOUS
<1>1. \A q \in QUEUES : DOMAIN History(q) = {}
  <2> TAKE q \in QUEUES
  <2>1. taken[q] = <<>> /\ events[q] = <<>>
    BY DEF Init
  <2>2. <<>> \in Seq(Events)
    BY EmptySeq
  <2>3. History(q) = <<>>
    BY <2>1, <2>2, ConcatEmptySeq DEF History
  <2>4. QED
    BY <2>3
<1>2. /\ \A t \in THREADS : ~Pending(t)
      /\ sent = 0 /\ gone = {} /\ \A e \in Events : ~IsAppended(e)
  BY DEF Init, Pending, IsAppended, Events
<1>3. QED
  BY <1>1, <1>2 DEF NumberInv, OrderInv, OnceInv, PerThreadOrder

(* The invariants about the numbers hold in every state. *)
LEMMA HistoryInvariance == Spec => [](TypeOK /\ NumberInv /\ OrderInv /\ OnceInv)
<1>1. TypeOK /\ NodeInv /\ NumberInv /\ OrderInv /\ OnceInv /\ [Next]_vars
      => (NumberInv /\ OrderInv /\ OnceInv)'
  BY NumberStep, OrderStep, OnceStep
<1>2. QED
  BY <1>1, HistoryInit, TypeInvariance, PTL DEF Spec

(* There are not more places in a list than events. *)
LEMMA PlacesAreFew ==
  ASSUME TypeOK, OnceInv, NEW q \in QUEUES
  PROVE  DOMAIN History(q) \subseteq Events
<1> DEFINE h == History(q)
           n == Len(h)
<1>1. h \in Seq(Events)
  BY HistoryTypes, HistoryIsBoth
<1>2. n \in Nat /\ h \in [1 .. n -> Events] /\ DOMAIN h = 1 .. n
  BY <1>1, LenProperties
<1>3. \A i, j \in 1 .. n : h[i] = h[j] => i = j
  BY <1>2 DEF OnceInv
<1>4. h \in Injection(1 .. n, Events)
  BY <1>2, <1>3 DEF Injection, IsInjective
<1>5. IsFiniteSet(Events) /\ Cardinality(Events) = MAX_EVENTS
  BY FS_Interval, MaxEventsAssumption DEF Events
<1>6. Cardinality(1 .. n) <= MAX_EVENTS
  BY <1>4, <1>5, FS_Injection
<1>7. Cardinality(1 .. n) = n
  BY <1>2, FS_Interval
<1>8. QED
  BY <1>2, <1>6, <1>7, MaxEventsAssumption DEF Events

(* InLists() counts the places of an event. *)
LEMMA CountOfPlaces ==
  ASSUME TypeOK, OnceInv, NEW e \in Events
  PROVE  /\ (\E q \in QUEUES : \E i \in DOMAIN History(q) : History(q)[i] = e) => InLists(e) = 1
         /\ ~(\E q \in QUEUES : \E i \in DOMAIN History(q) : History(q)[i] = e) => InLists(e) = 0
<1> DEFINE P == {p \in QUEUES \X Events : p[2] \in DOMAIN History(p[1]) /\ History(p[1])[p[2]] = e}
<1>1. InLists(e) = Cardinality(P)
  BY DEF InLists
<1>2. ASSUME NEW q \in QUEUES, NEW i \in DOMAIN History(q), History(q)[i] = e PROVE InLists(e) = 1
  <2>1. <<q, i>> \in P
    BY <1>2, PlacesAreFew
  <2>2. \A p \in P : p = <<q, i>>
    BY <1>2 DEF OnceInv
  <2>3. P = {<<q, i>>}
    BY <2>1, <2>2
  <2>4. QED
    BY <1>1, <2>3, FS_Singleton
<1>3. ASSUME ~(\E q \in QUEUES : \E i \in DOMAIN History(q) : History(q)[i] = e)
      PROVE  InLists(e) = 0
  <2>1. P = {}
    BY <1>3
  <2>2. QED
    BY <1>1, <2>1, FS_EmptySet
<1>4. QED
  BY <1>2, <1>3

(* However threads push, read and clear and nodes come and go, an event that  *)
(* was pushed is in one list, once, until it is cleared or its mesh is gone:  *)
(* push_event() and get_events_and_clear() lose and double nothing.           *)
THEOREM EventsAreKeptOnce == Spec => []EventsOnce
<1>1. TypeOK /\ OnceInv => EventsOnce
  <2> SUFFICES ASSUME TypeOK, OnceInv, NEW e \in Events
               PROVE  InLists(e) = IF IsAppended(e) /\ e \notin gone THEN 1 ELSE 0
    BY DEF EventsOnce
  <2>1. (\E q \in QUEUES : \E i \in DOMAIN History(q) : History(q)[i] = e)
           <=> IsAppended(e) /\ e \notin gone
    BY DEF OnceInv
  <2>2. QED
    BY <2>1, CountOfPlaces
<1>2. QED
  BY <1>1, HistoryInvariance, PTL

(* A reader sees the events of one thread in the order of its push_event()    *)
(* calls, in every mesh and with any number of other threads.                 *)
THEOREM ThreadsKeepTheirOrder == Spec => []PerThreadOrder
<1>1. OrderInv => PerThreadOrder
  BY DEF OrderInv
<1>2. QED
  BY <1>1, HistoryInvariance, PTL
=============================================================================
