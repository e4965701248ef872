SPECIFICATION Spec
CONSTANTS
  c1 = c1
  c2 = c2
  c3 = c3
  Conns = {c1, c2, c3}
  MAX_CONNECTIONS = 2
  Fds = {4, 5, 6}
  MaxSay <- Say211
  NULL = NULL
SYMMETRY OthersAlike
INVARIANTS SlotsAgree RecvNeverWaits OnlyHangUpsLeak NamesAreReceived PresenceIsExact
PROPERTIES ImplementsRoom
CHECK_DEADLOCK FALSE
