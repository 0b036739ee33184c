\* The first user connects twice, the second once; they start as buddies, in
\* the first of two rooms.
CONSTANTS
    c1 = c1  c1b = c1b  c2 = c2  u1 = u1  u2 = u2
    Conn = {c1, c1b, c2}
    User = {u1, u2}
    UserOf <- MCUserOf
    Room = {global, duels}
    Lounge = global
    InitialBuddies <- MCInitialBuddies
    QueueSize = 2
    MaxControlConnections = 3
    NoRoster = NoRoster
SYMMETRY ConnSymmetry
SPECIFICATION Spec
ACTION_CONSTRAINT ShutdownInLounge
INVARIANTS
    TypeOK
    NoGhosts
    CommandsKeepSession
    RosterCurrent
    PresenceCurrent
    ShutdownReachesAll
