\* Clients free addresses in the middle of their blocks.
CONSTANTS
    RAMSize = 24
    Base = 8
    Sizes = {6, 12}
    Fills = {7}
    Strays = {9, 10}
SPECIFICATION Spec
PROPERTY StrayFreeRefused
CHECK_DEADLOCK FALSE
