\* Sizes that split, leave an end gap, cut the chain and do not fit.  Seven 7s of
\* data are a length with Base = 8, and the walk that reads it wraps around.
CONSTANTS
    RAMSize = 28
    Base = 8
    Sizes = {0, 3, 4, 12}
    Fills = {7}
    Strays = {0, 9, 33}
SPECIFICATION FairSpec
INVARIANTS
    TypeOK
    ChainTiles
    FlagsMatchOwners
    LiveDisjoint
    WalkIsFirstFit
    HonestOOM
    NoPanic
PROPERTIES
    LoopMatchesWalkEnd
    PoolUntilDamaged
    AllocReturns
CHECK_DEADLOCK FALSE
