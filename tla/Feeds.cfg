\* Two connectors, one by the name of the scanner's row and one that needs a
\* token; two request threads, two scans of which one may yet have to end.
SPECIFICATION Spec
CONSTANTS
    Names <- MCNames
    Nmap <- MCNmap
    NeedsToken <- MCNeedsToken
    Poller = Poller
    Handlers = {h1, h2}
    Scanners = {s1, s2}
    Asks <- MCAsks
    MaxRequests = 3
    MaxRestarts = 1
INVARIANTS
    PurgeHolds
PROPERTIES
    EnabledIsPolled
CHECK_DEADLOCK FALSE
