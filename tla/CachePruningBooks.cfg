\* Two images or scripts and an SVG image; what may happen, apart from requests, clients,
\* loads and pruning, differs between behaviours.
SPECIFICATION Spec
CONSTANTS
    Resources = {r1, r2, s1}
    SVGs = {s1}
    None = None
    Capacities <- MCCapacities
    MaxEncoded = 1
    MaxDecoded = 1
    MaxAccess = 2
    Environments = {{"decode", "revalidate"}, {"decode", "embed"}, {"preload", "settings"}, {"again"}}
SYMMETRY Symmetry
INVARIANTS TypeOK BooksAreExact 
 
\* When everything is loaded and drawn, nothing more need happen.
CHECK_DEADLOCK FALSE
