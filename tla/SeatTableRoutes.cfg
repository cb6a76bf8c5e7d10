\* Four seats, so that two guests sit behind the seat that is removed.
CONSTANTS
    MaxSeats = 4
    MinPlayers = 2
    Sockets = {s1, s2, s3}
    Host = Host
    Guests = {g1, g2}
    BotDecks = {d1}
    Random = Random
    Bot = Bot
    NoToken = NoToken
    NoDeck = NoDeck
    NoSocket = NoSocket
SYMMETRY Symmetric
SPECIFICATION TSpec
INVARIANTS
    RoutedBySeat
