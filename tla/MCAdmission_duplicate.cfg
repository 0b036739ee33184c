\* A profile that two connections authenticate as, and a rename between.
CONSTANTS
    c1 = c1  c2 = c2  c3 = c3  u1 = u1  u2 = u2  a = a  b = b
    User = {u1}
    Guest = {g1}
    Name = {a, b}
    Conn = {c1, c2, c3}
    Token = {t1, t2, t3}
    AccountsOf <- MCAccountsShared
    InitialName <- MCInitialName
    MaxOnlinePlayers = 2
    MaxProfiles = 2
    MaxResets = 1
    NoConn = NoConn  NoUser = NoUser  NoName = NoName  NoToken = NoToken
SPECIFICATION Spec
INVARIANT LiveNamesDistinct
