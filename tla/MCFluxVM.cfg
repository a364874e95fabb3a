\* Two handlers and a subroutine, of every combination of the steps in MCFluxVM;
\* programs that fail in every way, over a damaged heap too; and loops.
CONSTANTS
    RAMSize = 44
    Base = 4
    WordBits = 8
    Programs <- MCPrograms
    Strings <- MCStrings
    StrLen <- MCStrLen
    StrByte <- MCStrByte
    Users = {"ann", "bob"}
    Messages = {"hi", "text"}
    MaxCallStackDepth = 2
    MaxSubs = 3
SPECIFICATION FairSpec
INVARIANTS
    TypeOK
    FetchOnBoundary
    StackDiscipline
    RestedPC
    NoLateHandler
    UsernameIntact
    BlocksAccounted
PROPERTIES
    OwnedBlocksKept
    PanicsExplained
    MachineReturns
CHECK_DEADLOCK FALSE
