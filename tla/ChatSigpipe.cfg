SPECIFICATION Spec
CONSTANTS
  c1 = c1
  c2 = c2
  c3 = c3
  Conns = {c1, c2}
  MAX_CONNECTIONS = 2
  Fds = {4, 5}
  MaxSay <- Say1
  NULL = NULL
INVARIANTS ServerSurvives
CHECK_DEADLOCK FALSE
