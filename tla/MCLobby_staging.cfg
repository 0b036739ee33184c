SPECIFICATION Spec
CONSTANTS
    p1 = p1
    p2 = p2
    p3 = p3
    c1 = c1
    c2 = c2
    c3 = c3
    c1b = c1b
    Player = {p1, p2, p3}
    Client = {c1, c2, c3}
    UserOf <- MCUserOf
    GameId = {g1, g2}
    ReadyKey = {k0}
    EmptyKey = k0
    MatchKey = {m1}
    MaxStagedGames = 2
    SlotCount = 3
    NoClient = NoClient
    NoGame = NoGame
SYMMETRY Symmetry
INVARIANTS
    TypeOK
    MembershipAgrees
    GamesAreSound
    StagesAgree
PROPERTIES
    LateTimeoutsAreHarmless
    StartedGamesKeepTheirTerms
