SPECIFICATION Spec
CONSTANTS
    a = a
    b = b
    c = c
    s = s
    t = t
    u = u
    Covers = {a, b, c}
    States = {s, t, u}
    Scores = {1, 2, 3, 4}
    Ids = {1, 2}
    ArcFactor = 1
    Setups <- MCSetups
SYMMETRY Symmetry
INVARIANTS
    KeepsTheTop
    KeepsEachCover
    WinnersWin
    OneOwner
