\* Does the end of a delivery free only the username?
CONSTANTS
    RAMSize = 44
    Base = 4
    WordBits = 8
    Programs <- HandlerPrograms
    Strings <- MCStrings
    StrLen <- MCStrLen
    StrByte <- MCStrByte
    Users = {"ann", "bob"}
    Messages = {"hi", "text"}
    MaxCallStackDepth = 2
    MaxSubs = 3
SPECIFICATION Spec
PROPERTY FreesOnlyUsername
CHECK_DEADLOCK FALSE
