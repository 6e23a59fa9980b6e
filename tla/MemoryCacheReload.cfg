\* A document preloads and reloads, and the embedder empties the cache.
SPECIFICATION Spec
CONSTANTS
    Resources = {r1, r2, r3}
    URLs = {u}
    Documents = {d1}
    Clients = {c1}
    None = None
    Policies = {"verify", "reload"}
    Answers = {"validator", "noStore"}
    Preloads = {FALSE, TRUE}
    Refusals = FALSE
    Flushes = TRUE
    Stops = FALSE
    MaxCalls = 1
SYMMETRY Symmetry
INVARIANTS NoDanglingPointers NothingLeaks ClientsAreTold
\* The system may rest when no load is under way.
CHECK_DEADLOCK FALSE
