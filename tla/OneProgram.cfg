CONSTANTS
    Inputs <- MCInputs
    Files <- MCFiles
    Commands <- MCCommands
    MAX_STRLEN = 2
    MAX_ELEMENTS = 32
    Texts <- MCTexts
    Counts <- MCCounts
    NoOption = NoOption
    NoNumber = NoNumber
    BUFSIZE = 2
    INT_MAX = 15
    Naps = {0, 1, 3}
    ForkCounts = {0, 1, 3}
    Ports <- MCPorts
    Landscapes <- MCLandscapes
    num_values = 3
    values <- Values3
    Garbage = {0, 7}
    NoValue = NoValue
    Programs = {"a", "b"}
    OnPath = {"a"}
    Here <- MCHere
    MAX_ARG_COUNT = 5
    Pids = {p1, p2}
    MaxWords = 2
    MaxLines = 3
    MaxSigints = 3
    Insts = {p}
    Faults = {"kill", "fork"}
    Nil = Nil
SPECIFICATION AllSpec
INVARIANTS
    PrevDescends
    ListAsExpected
    SortedAtExit
    HeadIsExact
    SnoozeReport
    
    PrintedIsFirstOrBoth
    CrashIffLonger
    PromptWithoutChild
    MutualExclusion
    PrintedIsWhatWasAdded
PROPERTIES
    AllEnd
    EndsOrHangs
    BackToPrompt
    Terminates
CHECK_DEADLOCK FALSE
