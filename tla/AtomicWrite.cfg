\* One path, three contents of zero, one and two bytes.
SPECIFICATION Spec
CONSTANTS
    empty = empty
    short = short
    long = long
    Contents = {empty, short, long}
    Size <- MCSize
    None = None
INVARIANTS TmpMarksUnfinished
PROPERTIES RefinesRegister
