SPECIFICATION Spec
CONSTANTS
    Loaders = {l1, l2}
    Hosts = {A, B}
    NonHTTP = NonHTTP
    Priorities = {1, 3}
    MaxPerHost = 1
    MaxNonHTTP = 1
    InitialSend = {"keep", "rewrite", "null"}
    Deferrals = {FALSE, TRUE}
    MaxCalls = 2
    NestedEventLoop = FALSE
SYMMETRY Symmetry
INVARIANTS DroppedHostsAreIdle ServedHostsExist LimitHonoured 
CHECK_DEADLOCK FALSE
