SPECIFICATION Spec
CONSTANTS
    p1 = p1
    p2 = p2
    p3 = p3
    c1 = c1
    c2 = c2
    c3 = c3
    c1b = c1b
    Player = {p1, p2}
    Client = {c1, c1b, c2}
    UserOf <- MCUserOfTwo
    GameId = {g1}
    ReadyKey = {k0}
    EmptyKey = k0
    MatchKey = {m1}
    MaxStagedGames = 1
    SlotCount = 2
    NoClient = NoClient
    NoGame = NoGame
PROPERTY
    QueuedUntilCancelled
