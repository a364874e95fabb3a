\* Every source of up to four characters, every row of up to three lexemes, and
\* programs of up to three statements, whole and with one lexeme wrong.
CONSTANTS
    MaxLength = 4
    MaxLexemes = 3
    MaxInt = 50
    Letters <- MCLetters
    Digits <- MCDigits
    White <- MCWhite
    Others <- MCOthers
    Spelling <- MCSpelling
    ParseInt <- MCParseInt
    Sources <- MCSources
SPECIFICATION FairSpec
INVARIANTS
    ParserInv
    LexesAll
    AcceptsExactly
    ReadsBack
    BodiesMaximal
PROPERTY ParserEnds
CHECK_DEADLOCK FALSE
