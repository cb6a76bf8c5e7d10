\* Two games of one code on a public server, or replacing each other on the desktop:
\* saves, retirements, terminals, the cleanup, late handlers, crashes and restarts.
CONSTANTS
    Codes = {k1, k2}
    Workers = {w1}
    Limits <- SmallServers
    MaxGames = 2
    MaxRevision = 1
    MaxFaults = 1
    NoWorker = NoWorker
SPECIFICATION PFairSpec
INVARIANTS
    NewestIsLive
PROPERTIES
    TombstoneHolds
    NeverOlder
    EndedStaysEnded
    LiveGameDurable
    SavedInTheEnd
    RetiredInTheEnd
