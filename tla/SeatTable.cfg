\* Three seats, two guests, three sockets; at least two players.
CONSTANTS
    MaxSeats = 3
    MinPlayers = 2
    Sockets = {s1, s2, s3}
    Host = Host
    Guests = {g1, g2}
    BotDecks = {d1, d2}
    Random = Random
    Bot = Bot
    NoToken = NoToken
    NoDeck = NoDeck
    NoSocket = NoSocket
SYMMETRY Symmetric
SPECIFICATION TSpec
INVARIANTS
    TTypeOK
    DecksPaired
    HoldIsGood
PROPERTIES
    ArraysAreChairs
