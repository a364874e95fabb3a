\* Every program of up to four statements that link to each other.  A pool of
\* two constants does not fit the count.
CONSTANTS
    WordBits = 8
    MaxLength = 4
    CountLimit = 2
    Strings = {"p", "q"}
    Labels = {"x", "y"}
    Sources <- MCSources
SPECIFICATION Spec
INVARIANTS
    CodegenInv
    EmitsWellFormed
    Translated
    ErrorsExact
CHECK_DEADLOCK FALSE
