SPECIFICATION FairSpec
CONSTANTS
  Values = {0, 1, 2, 3, 4, 9, 25, 49, 313, 334}
  MaxOptions = 3
  get_nprocs = 2
  INT_MAX = 336
  NULL = NULL
INVARIANTS AcceptedIsSound Partition SegmentsSieved TotalIsRight NoCountLost SafeBelowRoot
PROPERTIES Terminates
CHECK_DEADLOCK FALSE
