SPECIFICATION Spec
CONSTANTS
  b1 = b1
  r1 = r1
  Bridges = {b1}
  Requests = {r1}
  Owner <- MCOwner
  MaxSessions = 2
  WaiterCap = 1
CHECK_DEADLOCK FALSE
INVARIANTS
  NoPanic
