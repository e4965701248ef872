CONSTANTS
    Entries <- MCEntries
    Top <- MCTop
    Above <- MCAbove
    Mode <- MCMode
    Start <- MCStart
    PipeSize = 1
SPECIFICATION Spec
INVARIANTS
    ListingIsExact
    TotalIsTheListing
PROPERTIES
    SearchAsAsked
    EverybodyEnds
CHECK_DEADLOCK FALSE
