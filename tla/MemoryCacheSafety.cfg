\* Two documents share a cache whose resources expire, while loads are stopped.
SPECIFICATION Spec
CONSTANTS
    Resources = {r1, r2, r3}
    URLs = {u}
    Documents = {d1, d2}
    Clients = {c1}
    None = None
    Policies = {"verify"}
    Answers = {"validator"}
    Preloads = {FALSE}
    Refusals = FALSE
    Flushes = FALSE
    Stops = TRUE
    MaxCalls = 1
SYMMETRY Symmetry
INVARIANTS TypeOK NoDanglingPointers NothingLeaks CacheMapExact ValidatorIsCached ClientsAreTold
\* The system may rest when no load is under way.
CHECK_DEADLOCK FALSE
