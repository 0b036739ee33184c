\* Two connections of one stored profile, a guest, resets and deletion.
CONSTANTS
    c1 = c1  c2 = c2  c3 = c3  u1 = u1  u2 = u2  a = a  b = b
    User = {u1}
    Guest = {g1}
    Name = {a, b}
    Conn = {c1, c2}
    Token = {t1, t2, t3}
    AccountsOf <- MCAccountsShared
    InitialName <- MCInitialName
    MaxOnlinePlayers = 1
    MaxProfiles = 2
    MaxResets = 1
    NoConn = NoConn  NoUser = NoUser  NoName = NoName  NoToken = NoToken

SPECIFICATION FairSpec
INVARIANTS TypeOK WithinPlayerLimit OneTokenPerProfile AccessNeedsProfile
           ReservationsVerified
PROPERTY AttemptsResolve
