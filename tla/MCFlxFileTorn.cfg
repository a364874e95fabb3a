\* A compiled file is overwritten while it is read.
CONSTANTS
    Base = 3
    Slacks = {0}
    WriteSize = 12
    ReadSize = 16
    FlxMagic <- MCMagic
    Images <- MCImages
    Found <- MCCompiled
SPECIFICATION Spec
INVARIANT LoadsOneFile
ACTION_CONSTRAINT OneTrouble
CHECK_DEADLOCK FALSE
