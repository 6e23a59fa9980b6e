SPECIFICATION Spec
CONSTANTS
    Loaders = {l1, l2}
    Hosts = {A, B}
    NonHTTP = NonHTTP
    Priorities = {1, 3}
    MaxPerHost = 1
    MaxNonHTTP = 1
    InitialSend = {"keep", "rewrite"}
    Deferrals = {FALSE}
    MaxCalls = 1
    NestedEventLoop = FALSE
INVARIANT RedirectFindsOldHost
CHECK_DEADLOCK FALSE
