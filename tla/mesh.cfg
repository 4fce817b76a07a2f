SPECIFICATION Spec
CONSTANTS
    n1 = n1
    n2 = n2
    n3 = n3
    q1 = q1
    q2 = q2
    t1 = t1
    t2 = t2
    None = None
    NODES <- MCTwoNodes
    QUEUES <- MCQueues
    THREADS <- MCThreads
    MAX_EVENTS = 2
    REATTACH = FALSE
INVARIANT TypeOK
INVARIANT EventsOnce
INVARIANT PerThreadOrder
INVARIANT HandlerBelongsToMember
PROPERTY OthersKeepTheirCallback
PROPERTY CallsReturn
