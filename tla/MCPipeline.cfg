\* Every source of MCPipeline, from its characters to its last chat line.
CONSTANTS
    MaxInt = 999
    WordBits = 12
    CountLimit = 8
    RAMSize = 40
    Base = 8
    MaxCallStackDepth = 2
    MaxSubs = 2
    Letters <- MCLetters
    Digits <- MCDigits
    White <- MCWhite
    Others <- MCOthers
    Spelling <- MCSpelling
    ParseInt <- MCParseInt
    Sources <- MCSources
    StrLen <- MCStrLen
    StrByte <- MCStrByte
    Users <- MCUsers
    Messages <- MCMessages
SPECIFICATION Spec
INVARIANTS
    RunsOnInstructions
    SaysAsWritten
PROPERTY SourceSemantics
CHECK_DEADLOCK FALSE
