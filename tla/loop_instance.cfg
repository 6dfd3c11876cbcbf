SPECIFICATION Spec
CONSTANTS
    l1 = l1
    l2 = l2
    conn1 = conn1
    conn2 = conn2
    timer = timer
    Own = Own
    Unset = Unset
    Null = Null
    None = None
    MaxDepth = 8
    Loops <- MCLoops
    Removing <- MCRemoving
    Clients <- MCClients
SYMMETRY MCSymmetry
INVARIANTS
    TypeOK
    CallbacksAtTheInstance
    RemovedWhereAdded
PROPERTIES
    InstanceIsStable
CHECK_DEADLOCK FALSE
