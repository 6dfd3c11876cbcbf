SPECIFICATION FairSpec
CONSTANTS
    conn1 = conn1
    conn2 = conn2
    timer1 = timer1
    fd1 = fd1
    fd2 = fd2
    Wake = Wake
    None = None
    Sources <- MCSources
    Removing <- MCRemoving
    Fds <- MCFds
    MaxDepth = 2
INVARIANTS
    TypeOK
    InterestRegistered
    RemovedNeverCalled
PROPERTIES
    QuitStops
    ReadyServed
