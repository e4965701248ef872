SPECIFICATION MpSpec
CONSTANTS
  Insts = {p, q}
  Faults = {"fork", "kill", "stop"}
  Nil = Nil
SYMMETRY InstsAlike
INVARIANTS NothingLeftBehind SomeoneCanRun
CHECK_DEADLOCK FALSE
