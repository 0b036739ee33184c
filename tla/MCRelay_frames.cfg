\* Three participants, a queue of two frames, and fair goroutines.
CONSTANTS
    u1 = u1  u2 = u2  u3 = u3
    GameId = {g1}
    User = {u1, u2, u3}
    SlotCount = 3
    Broadcast = Broadcast
    Seating <- MCThree
    RelayInitialQueuePackets = 2
    MaxRelayPacketsPerSecond = 1
    MaxRelayBytesPerSecond = 2
    DataSize = 2
    DataFirst = FALSE
    MaxAccepted = 4
CHECK_DEADLOCK FALSE
SPECIFICATION FairSpec
INVARIANTS TypeOK FramesAreAccounted FramesComeInOrder
PROPERTIES RemovedAreSilent IdleGamesExpire ImplementsRelaySeats
