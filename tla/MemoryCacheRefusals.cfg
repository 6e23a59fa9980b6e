\* Loads may be refused, first ones and revalidations.
SPECIFICATION Spec
CONSTANTS
    Resources = {r1, r2, r3}
    URLs = {u}
    Documents = {d1}
    Clients = {c1}
    None = None
    Policies = {"revalidate", "history"}
    Answers = {"validator", "plain"}
    Preloads = {FALSE, TRUE}
    Refusals = TRUE
    Flushes = FALSE
    Stops = FALSE
    MaxCalls = 2
SYMMETRY Symmetry
INVARIANTS NothingLeaks CacheMapExact
\* The system may rest when no load is under way.
CHECK_DEADLOCK FALSE
