CONSTANTS
    MaxTwo = 4
    MaxThree = 3
    MaxRun = 7
    MaxFrequent = 3
    Many = 1
    SnakeLimit = 1
    LongSearch = 0
    Progress = 1
    Blank = {2}
    Dot = 1
    Lines = {1, 2, 3, 4}
    OFFSET_MAX = 1000
    DotDot = 5
    Cases <- SmallCases
    Class <- FoldCase
SPECIFICATION Spec
INVARIANTS TypeOK FlagsMatch SweepsInBox Minimal Joined ScriptsRestore SdiffTells WdiffReads
PROPERTIES Compares Terminates
