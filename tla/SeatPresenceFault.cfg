\* A read of the deliveries that fails after a terminal's commit, and a player who
\* comes back on a frame received before it.
CONSTANTS
    LastSeat = 1
    Sockets = {s1, s2}
    Host = Host
    Guests = {g1}
    Open = Open
    AI = AI
    Free = Free
    NoSocket = NoSocket
    GraceTicks = 1
    MaxWait = 1
    MaxFaults = 1
SPECIFICATION RFairSpec
PROPERTIES
    TerminalCarriedOut
