\* Two sockets of a host and a guest: closes, returns, replaced sockets, kicks, the
\* two sweeps, and a database that fails once after a commit.
CONSTANTS
    LastSeat = 1
    Sockets = {s1, s2}
    Host = Host
    Guests = {g1}
    Open = Open
    AI = AI
    Free = Free
    NoSocket = NoSocket
    GraceTicks = 1
    MaxWait = 1
    MaxFaults = 1
SPECIFICATION RFairSpec
INVARIANTS
    AbsenceTimed
    RouteOwned
    NoGhostListing
PROPERTIES
    KeepsItsRoute
    NoLateReturn
    RecordsConsumed
    
