SPECIFICATION Spec
CONSTANTS
    Loaders = {l1, l2, l3}
    Hosts = {A}
    NonHTTP = NonHTTP
    Priorities = {1, 3}
    MaxPerHost = 1
    MaxNonHTTP = 1
    InitialSend = {"keep", "null"}
    Deferrals = {FALSE}
    MaxCalls = 2
    NestedEventLoop = FALSE
INVARIANT CancelFindsNoEndedLoad
CHECK_DEADLOCK FALSE
