SPECIFICATION Spec
CONSTANTS
    Loaders = {l1, l2, l3}
    Hosts = {A, B}
    NonHTTP = NonHTTP
    Priorities = {0, 1, 3}
    MaxPerHost = 1
    MaxNonHTTP = 1
    InitialSend = {"keep"}
    Deferrals = {FALSE}
    MaxCalls = 2
    NestedEventLoop = TRUE
SYMMETRY Symmetry
INVARIANTS TypeOK SlotOwnership LimitHonoured NoLostWakeup EndsOnce 
PROPERTIES StartsInOrder ImplementsLoadSlots
CHECK_DEADLOCK FALSE
