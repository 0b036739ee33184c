SPECIFICATION FairSpec
CONSTANTS
    p1 = p1
    p2 = p2
    p3 = p3
    c1 = c1
    c2 = c2
    c3 = c3
    c1b = c1b
    Player = {p1, p2}
    Client = {c1, c1b, c2}
    UserOf <- MCUserOfTwo
    GameId = {g1, g2}
    ReadyKey = {k0, k1}
    EmptyKey = k0
    MatchKey = {m1, m2}
    MaxStagedGames = 2
    SlotCount = 2
    NoClient = NoClient
    NoGame = NoGame
INVARIANTS
    MembersAreConnected
    QueueIsSound
PROPERTIES
    ReadinessIsConsent
    StagesEnd
    UsesRelaySeats
