\* A stored profile that two peers share, a profile to be registered by a
\* third, and guests; nobody renames a profile that somebody is being
\* admitted to.
CONSTANTS
    c1 = c1  c2 = c2  c3 = c3  u1 = u1  u2 = u2  a = a  b = b
    User = {u1, u2}
    Guest = {g1, g2}
    Name = {a, b}
    Conn = {c1, c2, c3}
    Token = {t1, t2, t3, t4}
    AccountsOf <- MCAccountsMixed
    InitialName <- MCInitialName
    MaxOnlinePlayers = 2
    MaxProfiles = 2
    MaxResets = 1
    NoConn = NoConn  NoUser = NoUser  NoName = NoName  NoToken = NoToken
SYMMETRY GuestTokenSymmetry
SPECIFICATION Spec
ACTION_CONSTRAINT RenamesAlone
INVARIANTS NamesAreHeld LiveNamesDistinct
PROPERTY AdmittedAreCurrent
