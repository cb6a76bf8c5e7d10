\* A room that is dissolved while a player waits to join it.
CONSTANTS
    Codes = {k1, k2}
    Workers = {w1}
    Limits <- SmallServers
    MaxGames = 2
    MaxRevision = 1
    MaxFaults = 1
    NoWorker = NoWorker
SPECIFICATION PSpec
PROPERTIES
    LatePersistRefused
