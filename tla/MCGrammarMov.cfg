\* The programs of two statements behind an ON_CHAT.
CONSTANTS
    MaxLength = 1
    MaxLexemes = 1
    MaxInt = 50
    Letters <- MCLetters
    Digits <- MCDigits
    White <- MCWhite
    Others <- MCOthers
    Spelling <- MCSpelling
    ParseInt <- MCParseInt
    Sources <- MCSources
SPECIFICATION Spec
INVARIANT NoMovInBody
CHECK_DEADLOCK FALSE
