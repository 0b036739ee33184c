\* A participant whose first datagram is Data.
CONSTANTS
    u1 = u1  u2 = u2  u3 = u3
    GameId = {g1}
    User = {u1, u2, u3}
    SlotCount = 3
    Broadcast = Broadcast
    Seating <- MCTwo
    RelayInitialQueuePackets = 2
    MaxRelayPacketsPerSecond = 1
    MaxRelayBytesPerSecond = 2
    DataSize = 2
    DataFirst = TRUE
    MaxAccepted = 4
CHECK_DEADLOCK FALSE
SPECIFICATION Spec
INVARIANT InOrder
