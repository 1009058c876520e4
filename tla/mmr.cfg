SPECIFICATION LogSpec
CONSTANTS
    Bodies <- MCBodies
    MaxLeaves = 7
    MaxErrors = 1
    MaxCrashes = 1
INVARIANTS StoreIsForest PositionsAgree InclusionIsExact ConsistencyIsExact
PROPERTIES OneChainIsSigned CoveredStaysProvable
