SPECIFICATION ChatSpec
CONSTANTS
  c1 = c1
  c2 = c2
  Conns = {c1, c2}
  MAX_CONNECTIONS = 2
  Fds = {4, 5}
  MaxSay <- Say31
  NULL = NULL
INVARIANTS EachLineOnce
PROPERTIES ClientsEnd LeaversLoseSlot UsersAreServed QueueIsServed StopsAtNextEvent
CHECK_DEADLOCK FALSE
