SPECIFICATION MpSpec
CONSTANTS
  Insts = {p, q}
  Faults = {}
  Nil = Nil
INVARIANTS MutualExclusion
CHECK_DEADLOCK FALSE
