\* Room for three profiles or, after a restart, for one.
CONSTANTS
    Username = {x, y, z}
    DisplayName = {a, b, c}
    Game = {g1}
    MaxId = 3
    Limits = {1, 3}
    MaxBuddies = 1
    MaxCounter = 1
    Delta = {1}
SYMMETRY NameSymmetry
SPECIFICATION Spec
INVARIANTS TypeOK StoreIsSound ResultsCountedOnce
PROPERTY ImplementsProfiles
