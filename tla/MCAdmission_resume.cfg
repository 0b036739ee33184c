\* A resumption whose reservation the failure of an older attempt withdraws.
CONSTANTS
    c1 = c1  c2 = c2  c3 = c3  u1 = u1  u2 = u2  a = a  b = b
    User = {u1}
    Guest = {g1}
    Name = {a}
    Conn = {c1, c2}
    Token = {t1, t2, t3}
    AccountsOf <- MCAccountsShared
    InitialName <- MCInitialName
    MaxOnlinePlayers = 2
    MaxProfiles = 2
    MaxResets = 1
    NoConn = NoConn  NoUser = NoUser  NoName = NoName  NoToken = NoToken
SPECIFICATION HistorySpec
PROPERTY RefusedResumeKeepsToken
