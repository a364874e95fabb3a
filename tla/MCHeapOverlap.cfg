\* The chain may be damaged and explored further: do owned blocks stay apart?
CONSTANTS
    RAMSize = 32
    Base = 8
    Sizes = {3, 6}
    Fills = {1}
    Strays = {}
SPECIFICATION Spec
INVARIANT OwnedApart
CHECK_DEADLOCK FALSE
