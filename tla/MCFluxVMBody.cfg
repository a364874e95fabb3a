\* Is a body always consumed to its end?
CONSTANTS
    RAMSize = 44
    Base = 4
    WordBits = 8
    Programs <- HandlerPrograms
    Strings <- MCStrings
    StrLen <- MCStrLen
    StrByte <- MCStrByte
    Users = {"ann", "bob"}
    Messages = {"hi", "text"}
    MaxCallStackDepth = 2
    MaxSubs = 3
SPECIFICATION Spec
INVARIANT BodyConsumed
CHECK_DEADLOCK FALSE
