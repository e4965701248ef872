CONSTANTS
    Inputs <- MCInputs
    Files <- MCFiles
    Commands <- MCCommands
    MAX_STRLEN = 2
    MAX_ELEMENTS = 32
    Texts <- MCTexts
    Counts <- MCCounts
    NoOption = NoOption
    NoNumber = NoNumber
    BUFSIZE = 2
    INT_MAX = 15
    Naps = {0, 1, 3}
    ForkCounts = {0, 1, 3}
    Ports <- MCPorts
    Landscapes <- MCLandscapes
SPECIFICATION Spec
INVARIANTS
    SleptAsReported
CHECK_DEADLOCK FALSE
