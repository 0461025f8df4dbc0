SPECIFICATION Spec
CONSTANTS
  Addrs = {"v4", "v6"}
  V4 = {"v4"}
  Lists = {{"v4", "v6"}, {"v4"}}
  Goroutines = {g1}
  Sockets = {1, 2, 3}
  MaxPaths = 1
  MaxFails = 1
  MaxBackoff = 1
  Throttle = 1
  Silence = 2
  MaxChanges = 2
INVARIANTS
    SocketsExact
PROPERTIES
    Reconnects
CHECK_DEADLOCK FALSE
