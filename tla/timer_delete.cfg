SPECIFICATION Spec
CONSTANTS
    t1 = t1
    t2 = t2
    fd1 = fd1
    fd2 = fd2
    Timers <- MCTimers
    Fds <- MCFds
    Wake = Wake
    None = None
    MaxDepth = 1
    Intervals = {0, 1}
    Default = 1
    MaxTicks = 2
INVARIANTS
    RemovedInCallback
