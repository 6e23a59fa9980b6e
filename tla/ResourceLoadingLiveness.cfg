SPECIFICATION FairSpec
CONSTANTS
    Loaders = {l1, l2}
    Hosts = {A}
    NonHTTP = NonHTTP
    Priorities = {0, 1, 3}
    MaxPerHost = 1
    MaxNonHTTP = 1
    InitialSend = {"keep"}
    Deferrals = {FALSE}
    MaxCalls = 1
    NestedEventLoop = TRUE
PROPERTIES EveryLoadLeavesTheQueue IdleHostsAreDropped
CHECK_DEADLOCK FALSE
