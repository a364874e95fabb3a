\* A byte has three values, a word 81 and the count 9.
CONSTANTS
    Base = 3
    Slacks = {0, 40}
    WriteSize = 12
    ReadSize = 16
    FlxMagic <- MCMagic
    Images <- MCImages
    Found <- MCFound
SPECIFICATION Spec
INVARIANTS
    TypeOK
    WholeUnlessTorn
    ReadInPlace
    LoadsAsDescribed
    PanicsOnlyOn
ACTION_CONSTRAINT OneTrouble
CHECK_DEADLOCK FALSE
