\* A host and a guest at a table of three seats, with a subscriber slot and
\* builds that differ.
CONSTANTS
    Codes = {k1}
    Tokens = {t1, t2}
    Commits = {Unknown, b1, b2}
    UnknownCommit = Unknown
    MaxSeats = 3
    RefreshTicks = 1
    TimeoutTicks = 1
    ReservationTicks = 1
    Conns = {c1, c2}
    NoHello = NoHello
    NoHost = NoHost
    NoToken = NoToken
    MaxEntries = 1
    MaxSubscribers = 1
    MintCollides = FALSE
    MaxGeneration = 3
SYMMETRY Symmetric
SPECIFICATION NSpec
INVARIANTS
    FeedMatchesRegistry
    FeedNeverUndercounts
    OneSeatPerGuest
    NoLeakedSeat
