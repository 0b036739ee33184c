\* The admin listener with one control connection, two event requests and
\* tickets, and a place for one of each.
CONSTANTS
    Conn = {c1}
    Configured = {"admin"}
    MaxTickets = 2
    MaxStreams = 2
    MaxEventTickets = 1
    MaxEventConnections = 1
SPECIFICATION FairSpec
INVARIANTS TypeOK StreamsAreAccounted StoreClosesLast
PROPERTY ShutdownEnds
