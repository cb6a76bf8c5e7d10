\* Two sockets, codes they compete for, random codes that may collide; a
\* lapsed listing is reaped, however its host and its guests behave.
CONSTANTS
    Codes = {k1, k2}
    Tokens = {t1}
    Commits = {Unknown}
    UnknownCommit = Unknown
    MaxSeats = 2
    RefreshTicks = 1
    TimeoutTicks = 1
    ReservationTicks = 1
    Conns = {c1, c2}
    NoHello = NoHello
    NoHost = NoHost
    NoToken = NoToken
    MaxEntries = 2
    MaxSubscribers = 0
    MintCollides = TRUE
    MaxGeneration = 2
SPECIFICATION NFairSpec
INVARIANTS
    NTypeOK
    OneOwner
PROPERTIES
    StaleStampStaysStale
    ListingSafe
    LapsedIsReaped
