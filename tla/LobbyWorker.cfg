\* Two sockets that host, join, subscribe, close, hibernate and are deployed
\* over; listings abandoned by a deploy.
CONSTANTS
    Codes = {k1, k2}
    Tokens = {t1}
    Commits = {Unknown}
    UnknownCommit = Unknown
    MaxSeats = 2
    RefreshTicks = 1
    TimeoutTicks = 2
    ReservationTicks = 1
    Conns = {c1, c2}
    NoHello = NoHello
    NoHost = NoHost
    NoToken = NoToken
    MaxEntries = 1
    MaxSubscribers = 2
    MintCollides = FALSE
    MaxGeneration = 3
SPECIFICATION WFairSpec
INVARIANTS
    SnapshotCurrent
PROPERTIES
    StaleStampStaysStale
    WListingSafe
    OrphanIsReaped
