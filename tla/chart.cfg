SPECIFICATION Spec
CONSTANTS
    Source <- MCSource
    Labels = {"X", "Q"}
    NegInfinity = NegInfinity
    Setups <- MCSetups
INVARIANTS
    CombinationsOnce
    TopIsBest
    CellKeepsTheTop
    ListsAlive
    BestDerivationFound
    DetoursBestFirst
