\* One id, and two addresses: what is in the map or in t_, and what is on its way.
CONSTANTS
    t1 = t1
    t2 = t2
    Threads <- MCThreads
    Ids = {k1}
    Creators = {c1}
    Objects = {o1, o2}
    None = None
    Ranks <- MCRanks
    MaxDepth = 3
SYMMETRY Symmetry
SPECIFICATION Spec
INVARIANTS TypeOK NoCircularWait OwnedOnce OneInstanceAtATime
PROPERTY ImplementsRegistry
\* A thread that waits for itself may leave nothing to do.
CHECK_DEADLOCK FALSE
