SPECIFICATION MtSpec
CONSTANTS
  num_values = 3
  values <- Values3
  Garbage = {0}
  NoValue = NoValue
INVARIANTS OneThreadAdds
CHECK_DEADLOCK FALSE
