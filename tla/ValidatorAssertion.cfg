\* One document reloads what another is revalidating.
SPECIFICATION Spec
CONSTANTS
    Resources = {r1, r2, r3}
    URLs = {u}
    Documents = {d1, d2}
    Clients = {c1}
    None = None
    Policies = {"verify", "reload"}
    Answers = {"validator"}
    Preloads = {FALSE}
    Refusals = FALSE
    Flushes = FALSE
    Stops = FALSE
    MaxCalls = 1
SYMMETRY Symmetry
INVARIANTS ValidatorIsCached
\* The system may rest when no load is under way.
CHECK_DEADLOCK FALSE
